---------------------------- MODULE FadeDataProofs ----------------------------
(***************************************************************************)
(* Proofs about the parts of Fade that keep no state between calls: for    *)
(* all inputs, and so for the calls TLC evaluates.                         *)
(***************************************************************************)
EXTENDS MCData, SequenceTheorems, FiniteSetTheorems, WellFoundedInduction, TLAPS

------------------------------------------------------------------------------
(* Numbers *)

\* A set of numbers has a least one; a bounded one a greatest.
LEMMA Least ==
    ASSUME NEW S \in SUBSET Nat, S # {}
    PROVE  Min(S) \in S /\ \A m \in S : Min(S) <= m
<1> DEFINE less == {ss \in Nat \X Nat : ss[1] < ss[2]}
<1>1. IsWellFoundedOn(less, Nat)
  BY NatLessThanWellFounded DEF OpToRel
<1> HIDE DEF less
<1>2. PICK n \in S : \A m \in S : ~(<<m, n>> \in less)
  BY <1>1, WFMin
<1>3. \A m \in S : n <= m
  <2> SUFFICES ASSUME NEW m \in S, m < n PROVE FALSE
    <3>1. \A m \in S : n <= m \/ m < n
      OBVIOUS
    <3> QED BY <3>1
  <2>1. <<m, n>> \in less
    BY DEF less
  <2> QED BY <1>2, <2>1
<1> QED BY <1>3 DEF Min

LEMMA Greatest ==
    ASSUME NEW n \in Nat, NEW S \in SUBSET (1..n), S # {}
    PROVE  Max(S) \in S /\ \A m \in S : m <= Max(S)
<1> DEFINE T == {n - i : i \in S}
<1>1. T \in SUBSET Nat /\ T # {}
  <2>1. \A i \in S : n - i \in Nat
    OBVIOUS
  <2> QED BY <2>1
<1>2. PICK t \in T : \A u \in T : t <= u
  <2> HIDE DEF T
  <2> QED BY <1>1, Least
<1>3. PICK x \in S : t = n - x
  OBVIOUS
<1>4. \A m \in S : x >= m
  BY <1>2, <1>3
<1> QED BY <1>4 DEF Max

LEMMA Smaller ==
    ASSUME NEW a \in Nat, NEW b \in Nat
    PROVE  Min({a, b}) = IF a <= b THEN a ELSE b
<1> DEFINE S == {a, b}
<1>1. S \in SUBSET Nat /\ S # {}
  OBVIOUS
<1>2. Min(S) \in S /\ \A m \in S : Min(S) <= m
  <2> HIDE DEF S
  <2> QED BY <1>1, Least
<1> QED BY <1>2

------------------------------------------------------------------------------
(* Durations *)

LEMMA Widths ==
    /\ U64Max \in Nat /\ I64Max \in Nat /\ 1 < I64Max /\ I64Max < U64Max
    /\ Forever \notin Nat /\ Invalid \notin Nat /\ Forever # Invalid
    /\ Minute \in Nat /\ Hour \in Nat /\ Day \in Nat
    /\ 1 < Minute /\ Minute < Hour /\ Hour < Day
BY DurationAssumption

\* The saturating and checked sums of FileRecord::new are exact or no record.
LEMMA ExactForAll ==
    ASSUME NEW ttl \in Nat \cup {Forever}, NEW window \in Nat, NEW now \in Nat
    PROVE  ExactInstants(ttl, window, now)
<1> USE Widths
<1>1. \A d \in Nat : Seconds(d) = IF d <= I64Max THEN d ELSE I64Max
  BY Smaller DEF Seconds
<1>2. CASE ttl = Forever
  BY <1>2 DEF ExactInstants, Record, ExpiresAt
<1>3. CASE ttl \in Nat
  <2> DEFINE s == Seconds(ttl)
             w == Seconds(window)
  <2>1. /\ s = (IF ttl <= I64Max THEN ttl ELSE I64Max) /\ s \in Nat
        /\ w = (IF window <= I64Max THEN window ELSE I64Max) /\ w \in Nat
    BY <1>1, <1>3
  <2> DEFINE e == CheckedAdd(now, s)
  <2>2. e = (IF now + s <= I64Max THEN now + s ELSE Invalid) /\ ttl # Forever
    BY <1>3 DEF CheckedAdd
  <2>3. ExpiresAt(ttl, now) = e
    BY <2>2 DEF ExpiresAt
  <2> HIDE DEF e, s
  <2>4. CASE e = Invalid
    <3>1. Record(ttl, window, now) = Invalid
      BY <2>3, <2>4 DEF Record
    <3>2. ~(now + ttl + window <= I64Max)
      BY <1>3, <2>1, <2>2, <2>4
    <3> QED BY <2>2, <3>1, <3>2 DEF ExactInstants
  <2>5. CASE e # Invalid
    <3>1. e = now + s /\ now + s <= I64Max /\ e \in Nat /\ e # Forever
      <4>1. now + s \in Nat
        BY <2>1
      <4>2. e = now + s /\ now + s <= I64Max
        BY <2>2, <2>5
      <4> QED BY <4>1, <4>2
    <3> DEFINE d == CheckedAdd(e, w)
    <3>2. d = IF e + w <= I64Max THEN e + w ELSE Invalid
      BY DEF CheckedAdd
    <3>3. Record(ttl, window, now) =
            IF d = Invalid THEN Invalid ELSE [expires_at |-> e, recovery_deadline |-> d]
      BY <2>3, <2>5, <3>1 DEF Record
    <3> HIDE DEF d, w
    <3>4. CASE now + ttl + window <= I64Max
      <4>1. s = ttl /\ w = window
        BY <1>3, <2>1, <3>4
      <4>2. d = now + ttl + window /\ e = now + ttl /\ d # Invalid
        BY <1>3, <3>1, <3>2, <3>4, <4>1
      <4> QED BY <2>2, <3>3, <3>4, <4>2 DEF ExactInstants
    <3>5. CASE ~(now + ttl + window <= I64Max)
      <4>1. d # Invalid => now = 0 /\ d = I64Max
        BY <1>3, <2>1, <3>1, <3>2, <3>5
      <4>2. Record(ttl, window, now) # Invalid =>
               now = 0 /\ Record(ttl, window, now).recovery_deadline = I64Max
        BY <3>3, <4>1
      <4> QED BY <2>2, <3>5, <4>2 DEF ExactInstants
    <3> QED BY <3>4, <3>5
  <2> QED BY <2>4, <2>5
<1> QED BY <1>2, <1>3

------------------------------------------------------------------------------
(* Developer mode *)

\* For every path but the root: the folders that mkdir accepts are those that
\* lookup shows and those that create finds a lifetime in.
LEMMA ConsistentForAll ==
    ASSUME NEW S, NEW path \in Seq(S), path # <<>>
    PROVE  DevConsistent(path)
<1> DEFINE n == Len(path)
           parent == SubSeq(path, 1, n - 1)
           near == {i \in 1..(n - 1) : IsTtl(path[i])}
<1>1. n \in Nat \ {0}
  BY LenProperties, EmptySeq
<1>2. /\ parent = <<>> <=> n = 1
      /\ n # 1 => parent[1] = path[1]
  <2>1. parent \in Seq(S) /\ Len(parent) = n - 1
    <3>1. 1 \in Int /\ n - 1 \in Int /\ \A i \in 1..(n - 1) : path[i] \in S
      BY <1>1, ElementOfSeq
    <3> HIDE DEF n
    <3>2. /\ SubSeq(path, 1, n - 1) \in Seq(S)
          /\ Len(SubSeq(path, 1, n - 1)) = IF 1 <= n - 1 THEN (n - 1) - 1 + 1 ELSE 0
      BY <3>1, SubSeqProperties
    <3> QED BY <1>1, <3>2
  <2>2. \A i \in 1..(n - 1) : parent[i] = path[i]
    BY <1>1
  <2> HIDE DEF parent, n
  <2>3. parent = <<>> <=> Len(parent) = 0
    BY <2>1, EmptySeq
  <2> QED BY <1>1, <2>1, <2>2, <2>3
<1>3. near # {} => /\ Max(near) \in near /\ \A i \in near : i <= Max(near)
  <2>1. n - 1 \in Nat
    BY <1>1
  <2> HIDE DEF n
  <2> QED BY <2>1, Greatest
<1>4. DevAssign(path) = IF near = {} THEN Invalid ELSE ParseTtl(path[Max(near)])
  BY DEF DevAssign
<1> HIDE DEF n, parent, near
<1>5. /\ DevMkdirAccepts(path) <=> IsTtl(path[1])
      /\ DevDirectoryVisible(path) <=> IsTtl(path[1])
      /\ DevDirectoryVisible(parent) <=> (n = 1 \/ IsTtl(path[1]))
      /\ DevRenameAccepts(path) <=> (n = 1 \/ IsTtl(path[1]))
  <2>1. DevDirectoryVisible(parent) <=> (n = 1 \/ IsTtl(path[1]))
    BY <1>2 DEF DevDirectoryVisible
  <2>2. DevDirectoryVisible(path) <=> IsTtl(path[1])
    BY DEF DevDirectoryVisible
  <2> QED BY <1>2, <2>1, <2>2 DEF DevMkdirAccepts, DevRenameAccepts, parent, n
<1>6. n # 1 /\ IsTtl(path[1]) => DevAssign(path) # Invalid
  <2> SUFFICES ASSUME n # 1, IsTtl(path[1]) PROVE DevAssign(path) # Invalid
    OBVIOUS
  <2>1. 1 \in near
    BY <1>1 DEF near
  <2>2. IsTtl(path[Max(near)])
    BY <1>3, <2>1 DEF near
  <2> QED BY <1>4, <2>1, <2>2 DEF IsTtl
<1>7. n = 1 => DevAssign(path) = Invalid
  BY <1>4 DEF near
<1>8. ASSUME NEW i \in near, \A j \in near : j <= i PROVE DevAssign(path) = ParseTtl(path[i])
  <2>1. Max(near) = i
    <3>1. near \subseteq Nat
      BY <1>1 DEF near
    <3> DEFINE m == Max(near)
    <3>2. m \in near /\ i <= m
      BY <1>3, <1>8
    <3> HIDE DEF m
    <3>3. m <= i /\ m \in Nat /\ i \in Nat
      BY <1>8, <3>1, <3>2
    <3>4. m = i
      BY <3>2, <3>3
    <3> QED BY <3>4 DEF m
  <2> QED BY <1>4, <1>8, <2>1
<1> QED BY <1>2, <1>5, <1>6, <1>7, <1>8 DEF DevConsistent, parent, near, n

------------------------------------------------------------------------------
(* The calls of MCData *)

LEMMA CallsStay == Spec => [](call \in Calls)
<1>1. Init => call \in Calls
  BY DEF Init
<1>2. call \in Calls /\ [Next]_<<call, answer>> => (call \in Calls)'
  BY DEF Next
<1> QED BY <1>1, <1>2, PTL DEF Spec

\* A function on 1..k is a sequence.
LEMMA UpToSeq ==
    ASSUME NEW S, NEW n \in Nat, NEW s \in UpTo(S, n)
    PROVE  s \in Seq(S)
<1>1. PICK k \in 0..n : s \in [1..k -> S]
  BY DEF UpTo
<1> QED BY <1>1, SeqDef

------------------------------------------------------------------------------
(* Labels of durations *)

LEMMA Whole ==
    ASSUME NEW a \in Nat, NEW b \in Nat, 0 < b, a % b = 0
    PROVE  a \div b \in Nat /\ (a \div b) * b = a
OBVIOUS

LEMMA Multiple ==
    ASSUME NEW a \in Nat, NEW b \in Nat, 0 < b
    PROVE  (a * b) % b = 0 /\ a * b \in Nat /\ (0 < a => 0 < a * b) /\ a <= a * b
OBVIOUS

LEMMA FewerOfMore ==
    ASSUME NEW v \in Nat, NEW l \in Nat, NEW a \in Nat, NEW b \in Nat,
           0 < a, a <= b, l * b = v * a
    PROVE  l <= v
OBVIOUS

LEMMA Multipliers ==
    /\ Units = {"s", "m", "h", "d"}
    /\ Multiplier["s"] = 1 /\ Multiplier["m"] = Minute
    /\ Multiplier["h"] = Hour /\ Multiplier["d"] = Day
    /\ \A u \in Units : Multiplier[u] \in Nat /\ 0 < Multiplier[u]
BY Widths DEF Units, Multiplier

\* format_duration takes the largest unit that measures the duration exactly.
LEMMA LargestUnit ==
    ASSUME NEW seconds \in Nat
    PROVE  \E u \in Units :
              /\ FormatDuration(seconds) = Label(seconds \div Multiplier[u], u)
              /\ seconds \div Multiplier[u] \in Nat
              /\ (seconds \div Multiplier[u]) * Multiplier[u] = seconds
              /\ \A v \in Units : seconds > 0 /\ seconds % Multiplier[v] = 0 =>
                                     Multiplier[v] <= Multiplier[u]
<1> DEFINE exact(x) == seconds > 0 /\ seconds % Multiplier[x] = 0
           Good(u) == /\ u = "s" \/ exact(u)
                      /\ \A v \in Units : exact(v) => Multiplier[v] <= Multiplier[u]
           unit == CHOOSE u \in Units : Good(u)
<1>1. FormatDuration(seconds) = Label(seconds \div Multiplier[unit], unit)
  BY DEF FormatDuration
<1>2. \E u \in Units : Good(u)
  <2>1. /\ 1 < Minute /\ Minute < Hour /\ Hour < Day
        /\ Minute \in Nat /\ Hour \in Nat /\ Day \in Nat
    BY Widths
  <2> HIDE DEF exact
  <2>2. CASE exact("d")
    <3>1. Good("d")
      BY <2>1, <2>2, Multipliers
    <3> QED BY <3>1, Multipliers
  <2>3. CASE ~exact("d") /\ exact("h")
    <3>1. Good("h")
      BY <2>1, <2>3, Multipliers
    <3> QED BY <3>1, Multipliers
  <2>4. CASE ~exact("d") /\ ~exact("h") /\ exact("m")
    <3>1. Good("m")
      BY <2>1, <2>4, Multipliers
    <3> QED BY <3>1, Multipliers
  <2>5. CASE ~exact("d") /\ ~exact("h") /\ ~exact("m")
    <3>1. Good("s")
      BY <2>1, <2>5, Multipliers
    <3> QED BY <3>1, Multipliers
  <2> QED BY <2>2, <2>3, <2>4, <2>5
<1> HIDE DEF unit
<1>3. unit \in Units /\ Good(unit)
  <2> HIDE DEF Good
  <2> QED BY <1>2 DEF unit
<1>4. Multiplier[unit] \in Nat /\ 0 < Multiplier[unit]
  BY <1>3, Multipliers
<1>5. seconds % Multiplier[unit] = 0
  <2>1. seconds % 1 = 0
    OBVIOUS
  <2> QED BY <1>3, <2>1, Multipliers
<1>6. /\ seconds \div Multiplier[unit] \in Nat
      /\ (seconds \div Multiplier[unit]) * Multiplier[unit] = seconds
  <2> DEFINE m == Multiplier[unit]
  <2>1. m \in Nat /\ 0 < m /\ seconds % m = 0
    BY <1>4, <1>5
  <2> HIDE DEF m
  <2>2. seconds \div m \in Nat /\ (seconds \div m) * m = seconds
    BY <2>1, Whole
  <2> QED BY <2>2 DEF m
<1> QED BY <1>1, <1>3, <1>6

\* What parse_duration gives for a text, and when it gives nothing.
LEMMA ParsedText ==
    ASSUME NEW text, NEW allow_zero \in BOOLEAN, text.value \in Nat
    PROVE  LET d == ParseDuration(text, allow_zero)
           IN  d # Invalid =>
                 /\ d \in Nat /\ d <= U64Max
                 /\ \/ allow_zero /\ text = ZeroText /\ d = 0
                    \/ /\ text.last \in Units /\ text.before = "digits"
                       /\ d = text.value * Multiplier[text.last]
                       /\ text.value = 0 => allow_zero
<1> SUFFICES ASSUME ParseDuration(text, allow_zero) # Invalid
             PROVE  LET d == ParseDuration(text, allow_zero)
                    IN  /\ d \in Nat /\ d <= U64Max
                        /\ \/ allow_zero /\ text = ZeroText /\ d = 0
                           \/ /\ text.last \in Units /\ text.before = "digits"
                              /\ d = text.value * Multiplier[text.last]
                              /\ text.value = 0 => allow_zero
  OBVIOUS
<1>1. CASE allow_zero /\ text = ZeroText
  BY <1>1, Widths DEF ParseDuration
<1>2. CASE ~(allow_zero /\ text = ZeroText)
  <2> DEFINE product == text.value * Multiplier[text.last]
  <2>1. /\ text.last \in Units /\ text.before = "digits"
        /\ text.value <= U64Max /\ (text.value = 0 => allow_zero)
        /\ ParseDuration(text, allow_zero) = CheckedMul(text.value, Multiplier[text.last])
    BY <1>2 DEF ParseDuration
  <2>2. product \in Nat
    BY <2>1, Multipliers, Multiple
  <2>3. ParseDuration(text, allow_zero) = product /\ product <= U64Max
    BY <2>1 DEF CheckedMul
  <2> QED BY <2>1, <2>2, <2>3
<1> QED BY <1>1, <1>2

\* A label reads back as the duration it was printed for.
LEMMA ReadsBack ==
    ASSUME NEW seconds \in Nat, NEW allow_zero \in BOOLEAN,
           seconds <= U64Max, seconds = 0 => allow_zero
    PROVE  ParseDuration(FormatDuration(seconds), allow_zero) = seconds
<1>1. PICK u \in Units :
              /\ FormatDuration(seconds) = Label(seconds \div Multiplier[u], u)
              /\ seconds \div Multiplier[u] \in Nat
              /\ (seconds \div Multiplier[u]) * Multiplier[u] = seconds
  BY LargestUnit
<1> DEFINE v == seconds \div Multiplier[u]
           m == Multiplier[u]
<1>2. v \in Nat /\ m \in Nat /\ 0 < m /\ v * m = seconds
  BY <1>1, Multipliers
<1>3. FormatDuration(seconds) = [before |-> "digits", value |-> v, last |-> u]
  BY <1>1 DEF Label
<1> HIDE DEF v, m
<1>4. v <= seconds /\ (v = 0 => seconds = 0)
  BY <1>2, Multiple
<1>5. v <= U64Max /\ (v = 0 => allow_zero)
  BY <1>2, <1>4, Widths
<1>6. [before |-> "digits", value |-> v, last |-> u] # ZeroText
  BY DEF ZeroText
<1>7. CheckedMul(v, m) = seconds
  BY <1>2 DEF CheckedMul
<1> QED BY <1>3, <1>5, <1>6, <1>7 DEF ParseDuration, m

\* Every duration that is read is what was written, and prints as what reads
\* back as the same, no longer than it was written.
LEMMA FaithfulForAll ==
    ASSUME NEW text, NEW allow_zero \in BOOLEAN, text.value \in Nat
    PROVE  Faithful(text, allow_zero)
<1> DEFINE seconds == ParseDuration(text, allow_zero)
<1> HIDE DEF seconds
<1>1. SUFFICES ASSUME seconds # Invalid
               PROVE  /\ seconds <= U64Max
                      /\ text = ZeroText \/ seconds = text.value * Multiplier[text.last]
                      /\ ParseDuration(FormatDuration(seconds), allow_zero) = seconds
                      /\ text # ZeroText /\ seconds > 0 => FormatDuration(seconds).value <= text.value
  BY DEF Faithful, seconds
<1>2. /\ seconds \in Nat /\ seconds <= U64Max
      /\ \/ allow_zero /\ text = ZeroText /\ seconds = 0
         \/ /\ text.last \in Units /\ text.before = "digits"
            /\ seconds = text.value * Multiplier[text.last]
            /\ text.value = 0 => allow_zero
  BY <1>1, ParsedText DEF seconds
<1>3. seconds = 0 => allow_zero
  <2>1. ASSUME text.last \in Units, seconds = text.value * Multiplier[text.last], seconds = 0
        PROVE  text.value = 0
    <3> DEFINE m == Multiplier[text.last]
    <3>1. m \in Nat /\ 0 < m /\ text.value * m = 0
      BY <2>1, Multipliers
    <3> HIDE DEF m
    <3> QED BY <3>1, Multiple
  <2> QED BY <1>2, <2>1
<1>4. ParseDuration(FormatDuration(seconds), allow_zero) = seconds
  BY <1>2, <1>3, ReadsBack
<1>5. ASSUME text # ZeroText, seconds > 0 PROVE FormatDuration(seconds).value <= text.value
  <2>1. PICK u \in Units :
              /\ FormatDuration(seconds) = Label(seconds \div Multiplier[u], u)
              /\ seconds \div Multiplier[u] \in Nat
              /\ (seconds \div Multiplier[u]) * Multiplier[u] = seconds
              /\ \A v \in Units : seconds > 0 /\ seconds % Multiplier[v] = 0 =>
                                     Multiplier[v] <= Multiplier[u]
    BY <1>2, LargestUnit
  <2> DEFINE l == seconds \div Multiplier[u]
             b == Multiplier[u]
             a == Multiplier[text.last]
  <2>2. /\ l \in Nat /\ b \in Nat /\ l * b = seconds
        /\ a \in Nat /\ 0 < a /\ seconds = text.value * a
        /\ FormatDuration(seconds).value = l
    BY <1>2, <1>5, <2>1, Multipliers DEF Label
  <2>3. seconds % a = 0 => a <= b
    BY <1>2, <1>5, <2>1
  <2> HIDE DEF l, a, b
  <2>4. seconds % a = 0
    BY <2>2, Multiple
  <2> QED BY <2>2, <2>3, <2>4, FewerOfMore
<1> QED BY <1>2, <1>4, <1>5

LEMMA TextsTyped == \A text \in Texts : text.value \in Nat
<1>1. ForeverText.value = 0 /\ ZeroText.value = 0
  BY DEF ForeverText, ZeroText
<1>2. 0..(U64Max + 1) \subseteq Nat
  BY Widths
<1> QED BY <1>1, <1>2 DEF Texts

\* What the calls of three operations are.
LEMMA CallParts ==
    ASSUME call \in Calls
    PROVE  /\ call.op = "parse" => call.text \in Texts /\ call.allow_zero \in BOOLEAN
           /\ call.op = "record" =>
                 /\ call.ttl \in (1..U64Max) \cup {Forever}
                 /\ call.window \in {0, 1, I64Max, U64Max}
                 /\ call.now \in {0, 1, I64Max - 2, I64Max}
           /\ call.op = "folder" => call.path \in UpTo(Segments, MaxDepth) \ {<<>>}
BY DEF Calls

\* A duration is read as it is written or not at all, and what it is printed as
\* reads back as it (parse_duration, format_duration).
THEOREM DurationsAreFaithful == Spec => []DurationsFaithful
<1>1. call \in Calls => DurationsFaithful
  BY CallParts, TextsTyped, FaithfulForAll DEF DurationsFaithful
<1> QED BY <1>1, CallsStay, PTL

\* The instants of a new file are the exact sums of its creation, its TTL and
\* its window, or no record is made (FileRecord::new).
THEOREM InstantsAreExact == Spec => []InstantsExact
<1>1. call \in Calls => InstantsExact
  <2> SUFFICES ASSUME call \in Calls, call.op = "record" PROVE InstantsExact
    BY DEF InstantsExact
  <2>1. /\ call.ttl \in Nat \cup {Forever} /\ call.window \in Nat /\ call.now \in Nat
    BY CallParts, Widths
  <2> QED BY <2>1, ExactForAll DEF InstantsExact
<1> QED BY <1>1, CallsStay, PTL

\* In developer mode mkdir, lookup, create and rename take the same folders
\* for TTLs (validate_root_directory, directory_visible, assign_file).
THEOREM FoldersAreConsistent == Spec => []FoldersConsistent
<1>1. call \in Calls => FoldersConsistent
  <2> SUFFICES ASSUME call \in Calls, call.op = "folder" PROVE DevConsistent(call.path)
    BY DEF FoldersConsistent
  <2>1. call.path \in UpTo(Segments, MaxDepth) /\ call.path # <<>>
    BY CallParts
  <2>2. call.path \in Seq(Segments)
    BY <2>1, UpToSeq, BoundsAssumption
  <2> QED BY <2>1, <2>2, ConsistentForAll
<1> QED BY <1>1, CallsStay, PTL

------------------------------------------------------------------------------
(* The options of fade mount *)

\* An option that is absent or a text.
OptionText(x) == x = <<>> \/ \E text : text.value \in Nat /\ x = <<text>>

LEMMA PositiveRead ==
    ASSUME NEW text, text.value \in Nat, ParseDuration(text, FALSE) # Invalid
    PROVE  ParseDuration(text, FALSE) \in Nat /\ ParseDuration(text, FALSE) > 0
<1>1. /\ ParseDuration(text, FALSE) \in Nat
      /\ text.last \in Units /\ text.value # 0
      /\ ParseDuration(text, FALSE) = text.value * Multiplier[text.last]
  BY ParsedText
<1> DEFINE m == Multiplier[text.last]
<1>2. m \in Nat /\ 0 < m
  BY <1>1, Multipliers
<1>3. ParseDuration(text, FALSE) = text.value * m /\ 0 < text.value
  <2>1. \A n \in Nat : n # 0 => 0 < n
    OBVIOUS
  <2> QED BY <1>1, <2>1
<1> HIDE DEF m
<1> QED BY <1>1, <1>2, <1>3, Multiple

\* One option, from its flag, its value in the configuration and its default.
LEMMA OneOption ==
    ASSUME NEW flag, NEW written, NEW zero \in BOOLEAN, NEW default \in Nat,
           OptionText(flag), OptionText(written), Optional(written, zero) # <<Invalid>>,
           default > 0
    PROVE  LET v == MountDuration(Optional(flag, zero), Optional(written, zero), default)
           IN  /\ v # Invalid <=> (flag # <<>> => ParseDuration(flag[1], zero) # Invalid)
               /\ flag # <<>> => v = ParseDuration(flag[1], zero)
               /\ flag = <<>> /\ written # <<>> => v = ParseDuration(written[1], zero)
               /\ v # Invalid => v \in Nat /\ (~zero => v > 0)
<1> DEFINE v == MountDuration(Optional(flag, zero), Optional(written, zero), default)
<1>1. ASSUME NEW text, text.value \in Nat, ParseDuration(text, zero) # Invalid
      PROVE  ParseDuration(text, zero) \in Nat /\ (~zero => ParseDuration(text, zero) > 0)
  BY <1>1, ParsedText, PositiveRead
<1>2. CASE flag # <<>>
  <2>1. PICK text : text.value \in Nat /\ flag = <<text>>
    BY <1>2 DEF OptionText
  <2>2. flag[1] = text /\ Optional(flag, zero) = <<ParseDuration(text, zero)>>
    BY <1>2, <2>1 DEF Optional
  <2>3. v = ParseDuration(text, zero)
    BY <2>2 DEF MountDuration
  <2> QED BY <1>1, <1>2, <2>1, <2>2, <2>3
<1>3. CASE flag = <<>> /\ written # <<>>
  <2>1. PICK text : text.value \in Nat /\ written = <<text>>
    BY <1>3 DEF OptionText
  <2>2. /\ written[1] = text /\ Optional(written, zero) = <<ParseDuration(text, zero)>>
        /\ Optional(flag, zero) = <<>>
    BY <1>3, <2>1 DEF Optional
  <2>3. v = ParseDuration(text, zero)
    BY <2>2 DEF MountDuration
  <2>4. ParseDuration(text, zero) # Invalid
    BY <2>2
  <2> QED BY <1>1, <1>3, <2>1, <2>2, <2>3, <2>4
<1>4. CASE flag = <<>> /\ written = <<>>
  <2>1. v = default
    BY <1>4 DEF Optional, MountDuration
  <2> QED BY <1>4, <2>1, Widths
<1> QED BY <1>2, <1>3, <1>4

LEMMA ResolvesForAll ==
    ASSUME NEW mode, NEW config, NEW window_flag, NEW interval_flag,
           OptionText(window_flag), OptionText(interval_flag),
           config # <<>> => /\ OptionText(config[1].recovery_window)
                            /\ OptionText(config[1].interval)
    PROVE  OptionsResolve(mode, config, window_flag, interval_flag)
<1> DEFINE policy == IF config = <<>> THEN [recovery_window |-> <<>>, interval |-> <<>>]
                     ELSE Load(config[1])
           window == MountDuration(Optional(window_flag, TRUE), policy.recovery_window, Hour)
           interval == MountDuration(Optional(interval_flag, FALSE), policy.interval, Minute)
           chosen == MountOptions(mode, config, window_flag, interval_flag)
           parsed(flag, zero) == flag # <<>> => ParseDuration(flag[1], zero) # Invalid
           written == IF config = <<>> THEN <<>> ELSE config[1].recovery_window
           every == IF config = <<>> THEN <<>> ELSE config[1].interval
           loads == config # <<>> => Load(config[1]) # Invalid
<1>1. OptionText(written) /\ OptionText(every)
  <2>1. CASE config = <<>>
    BY <2>1 DEF OptionText
  <2>2. CASE config # <<>>
    BY <2>2
  <2> QED BY <2>1, <2>2
<1>2. ASSUME loads
      PROVE  /\ policy.recovery_window = Optional(written, TRUE)
             /\ policy.interval = Optional(every, FALSE)
             /\ Optional(written, TRUE) # <<Invalid>> /\ Optional(every, FALSE) # <<Invalid>>
  <2>1. CASE config = <<>>
    BY <2>1 DEF Optional
  <2>2. CASE config # <<>>
    BY <1>2, <2>2 DEF Load
  <2> QED BY <2>1, <2>2
<1>3. Hour \in Nat /\ Hour > 0 /\ Minute \in Nat /\ Minute > 0
  BY Widths
<1> HIDE DEF policy, written, every
<1>4. ASSUME loads
      PROVE  /\ window # Invalid <=> parsed(window_flag, TRUE)
             /\ window_flag # <<>> => window = ParseDuration(window_flag[1], TRUE)
             /\ window_flag = <<>> /\ written # <<>> => window = ParseDuration(written[1], TRUE)
             /\ window # Invalid => window \in Nat
  <2>1. window = MountDuration(Optional(window_flag, TRUE), Optional(written, TRUE), Hour)
    BY <1>2, <1>4
  <2> HIDE DEF window
  <2>2. /\ OptionText(window_flag) /\ OptionText(written) /\ TRUE \in BOOLEAN
        /\ Optional(written, TRUE) # <<Invalid>>
    BY <1>1, <1>2, <1>4
  <2> HIDE DEF loads
  <2>3. /\ window # Invalid <=> (window_flag # <<>> => ParseDuration(window_flag[1], TRUE) # Invalid)
        /\ window_flag # <<>> => window = ParseDuration(window_flag[1], TRUE)
        /\ window_flag = <<>> /\ written # <<>> => window = ParseDuration(written[1], TRUE)
        /\ window # Invalid => window \in Nat
    <3> DEFINE v == MountDuration(Optional(window_flag, TRUE), Optional(written, TRUE), Hour)
    <3>1. /\ v # Invalid <=> (window_flag # <<>> => ParseDuration(window_flag[1], TRUE) # Invalid)
          /\ window_flag # <<>> => v = ParseDuration(window_flag[1], TRUE)
          /\ window_flag = <<>> /\ written # <<>> => v = ParseDuration(written[1], TRUE)
          /\ v # Invalid => v \in Nat /\ (~TRUE => v > 0)
      BY <1>3, <2>2, OneOption
    <3> HIDE DEF v
    <3>2. window = v
      BY <2>1 DEF v
    <3> QED BY <3>1, <3>2
  <2> QED BY <2>3
<1>5. ASSUME loads
      PROVE  /\ interval # Invalid <=> parsed(interval_flag, FALSE)
             /\ interval_flag # <<>> => interval = ParseDuration(interval_flag[1], FALSE)
             /\ interval # Invalid => interval \in Nat /\ interval > 0
  <2>1. interval = MountDuration(Optional(interval_flag, FALSE), Optional(every, FALSE), Minute)
    BY <1>2, <1>5
  <2> HIDE DEF interval
  <2> QED BY <1>1, <1>2, <1>3, <1>5, <2>1, OneOption
<1>6. policy = Invalid <=> ~loads
  <2>1. CASE config = <<>>
    <3>1. policy = [recovery_window |-> <<>>, interval |-> <<>>]
      BY <2>1 DEF policy
    <3> QED BY <2>1, <3>1, AnswersAssumption
  <2>2. CASE config # <<>>
    BY <2>2 DEF policy
  <2> QED BY <2>1, <2>2
<1>7. chosen = IF (mode = "policy") # (config # <<>>) \/ policy = Invalid \/ Invalid \in {window, interval}
                 THEN Invalid ELSE [recovery_window |-> window, interval |-> interval]
  BY DEF MountOptions, policy
<1> HIDE DEF window, interval, chosen
<1>8. loads /\ window # Invalid /\ interval # Invalid =>
        [recovery_window |-> window, interval |-> interval] # Invalid
  <2> SUFFICES ASSUME loads, window # Invalid, interval # Invalid
               PROVE  [recovery_window |-> window, interval |-> interval] # Invalid
    OBVIOUS
  <2>1. window \in Nat \cup {<<>>} /\ interval \in Nat \cup {<<>>}
    BY <1>4, <1>5
  <2>2. [recovery_window |-> window, interval |-> interval]
          \in [recovery_window : Nat \cup {<<>>}, interval : Nat \cup {<<>>}]
    BY <2>1
  <2> QED BY <2>2, AnswersAssumption
<1>9. chosen # Invalid <=> /\ (mode = "policy") = (config # <<>>)
                           /\ loads /\ window # Invalid /\ interval # Invalid
  BY <1>6, <1>7, <1>8
<1>10. chosen # Invalid => chosen.recovery_window = window /\ chosen.interval = interval
  BY <1>7, <1>9
<1>11. config # <<>> => written = config[1].recovery_window
  BY DEF written
<1> QED BY <1>4, <1>5, <1>9, <1>10, <1>11 DEF OptionsResolve, chosen

LEMMA CallOptions ==
    ASSUME call \in Calls, call.op = "mount"
    PROVE  /\ OptionText(call.window_flag) /\ OptionText(call.interval_flag)
           /\ call.config # <<>> => /\ OptionText(call.config[1].recovery_window)
                                    /\ OptionText(call.config[1].interval)
<1>1. \A x \in Options : OptionText(x)
  <2>1. /\ ZeroText.value \in Nat /\ Label(0, "s").value \in Nat /\ Label(2, "m").value \in Nat
    BY DEF ZeroText, Label
  <2> HIDE DEF OptionText
  <2>2. \A text : text.value \in Nat => OptionText(<<text>>)
    BY DEF OptionText
  <2>3. OptionText(<<>>)
    BY DEF OptionText
  <2> QED BY <2>1, <2>2, <2>3 DEF Options
<1>2. /\ call.window_flag \in Options /\ call.interval_flag \in Options
      /\ call.config \in {<<>>} \cup {<<c>> : c \in MountConfigs}
  BY DEF Calls
<1>3. \A c \in MountConfigs : c.recovery_window \in Options /\ c.interval \in Options
  BY DEF MountConfigs
<1>4. ASSUME call.config # <<>>
      PROVE  call.config[1].recovery_window \in Options /\ call.config[1].interval \in Options
  <2>1. PICK c \in MountConfigs : call.config = <<c>>
    BY <1>2, <1>4
  <2>2. call.config[1] = c
    BY <2>1
  <2> QED BY <1>3, <2>2
<1> QED BY <1>1, <1>2, <1>4

\* A mount starts exactly if mode, configuration and flags are all good; what the
\* command line says wins over the configuration, and the reaper's interval is
\* never zero (mount_duration, ConfigPolicy::load).
THEOREM OptionsAreResolved == Spec => []OptionsResolved
<1>1. call \in Calls => OptionsResolved
  BY CallOptions, ResolvesForAll DEF OptionsResolved
<1> QED BY <1>1, CallsStay, PTL

------------------------------------------------------------------------------
(* Configurations *)

\* A TTL that is read prints as what reads back as it.
LEMMA TtlReadsBack ==
    ASSUME NEW text, text.value \in Nat, ParseTtl(text) # Invalid
    PROVE  LET ttl == ParseTtl(text)
           IN  /\ ttl = Forever \/ (ttl \in Nat /\ 0 < ttl)
               /\ TtlLabel(ttl) \in Text /\ ParseTtl(TtlLabel(ttl)) = ttl
<1> DEFINE ttl == ParseTtl(text)
<1>1. CASE text = ForeverText
  <2>1. ttl = Forever
    BY <1>1 DEF ParseTtl
  <2>2. TtlLabel(ttl) = ForeverText /\ ForeverText \in Text
    BY <2>1 DEF TtlLabel, ForeverText, Text
  <2> QED BY <2>1, <2>2 DEF ParseTtl
<1>2. CASE text # ForeverText
  <2>1. ttl = ParseDuration(text, FALSE)
    BY <1>2 DEF ParseTtl
  <2>2. ttl \in Nat /\ ttl > 0 /\ ttl <= U64Max
    BY <2>1, ParsedText, PositiveRead
  <2> HIDE DEF ttl
  <2>3. ttl # Forever /\ TtlLabel(ttl) = FormatDuration(ttl)
    BY <2>2, Widths DEF TtlLabel
  <2>4. ParseDuration(FormatDuration(ttl), FALSE) = ttl
    <3>1. FALSE \in BOOLEAN /\ (ttl = 0 => FALSE)
      BY <2>2
    <3> QED BY <2>2, <3>1, ReadsBack
  <2>5. FormatDuration(ttl) # ForeverText /\ FormatDuration(ttl) \in Text
    <3>1. PICK u \in Units : /\ FormatDuration(ttl) = Label(ttl \div Multiplier[u], u)
                             /\ ttl \div Multiplier[u] \in Nat
      BY <2>2, LargestUnit
    <3> QED BY <3>1 DEF Label, ForeverText, Text
  <2>6. ParseTtl(FormatDuration(ttl)) = ttl
    BY <2>4, <2>5 DEF ParseTtl
  <2> QED BY <2>2, <2>3, <2>5, <2>6 DEF ttl
<1> QED BY <1>1, <1>2

\* A configuration that loads decides every path, by its first rule that
\* matches, and fade check prints that.
LEMMA TotalForAll ==
    ASSUME NEW S, NEW config, NEW path, config.rules \in Seq(S),
           \A i \in DOMAIN config.rules : config.rules[i].ttl.value \in Nat
    PROVE  LoadedIsTotal(config, path)
<1> DEFINE n == Len(config.rules)
           rule(i) == config.rules[i]
           hits == {i \in 1..n : MatchesPath(rule(i).pattern, path)}
           shown == Check(config, path)
<1>1. n \in Nat /\ DOMAIN config.rules = 1..n
  BY LenProperties
<1> SUFFICES ASSUME Load(config) # Invalid, path # <<>>
             PROVE  /\ shown # Invalid /\ shown.ttl_seconds # 0
                    /\ \E i \in DOMAIN config.rules :
                          /\ MatchesPath(rule(i).pattern, path)
                          /\ \A j \in 1..(i - 1) : ~MatchesPath(rule(j).pattern, path)
                          /\ ParseTtl(shown.ttl) = ParseTtl(rule(i).ttl)
                    /\ \A i \in DOMAIN config.rules : rule(i).pattern = Star => i = n
                    /\ \/ ParseTtl(shown.ttl) = shown.ttl_seconds
                       \/ ParseTtl(shown.ttl) > I64Max /\ shown.ttl_seconds = I64Max
  BY DEF LoadedIsTotal
<1> DEFINE rules == [i \in 1..n |-> [pattern |-> rule(i).pattern, ttl |-> ParseTtl(rule(i).ttl)]]
<1>2. /\ FallbackIsLast(config.rules)
      /\ \A i \in 1..n : ParseTtl(rule(i).ttl) # Invalid
      /\ Load(config).rules = rules
  BY DEF Load
<1>3. /\ config.rules # <<>> /\ rule(n).pattern = Star
      /\ \A i \in 1..(n - 1) : rule(i).pattern # Star
  BY <1>2 DEF FallbackIsLast
<1>4. n # 0
  BY <1>1, <1>3, EmptySeq
<1>5. n \in hits /\ hits \in SUBSET Nat
  BY <1>1, <1>3, <1>4 DEF MatchesPath
<1> DEFINE k == Min(hits)
<1>6. k \in hits /\ \A i \in hits : k <= i
  <2> HIDE DEF hits
  <2> QED BY <1>5, Least
<1>7. Len(rules) = n /\ \A i \in 1..n : rules[i].pattern = rule(i).pattern
  BY <1>1
<1>8. {i \in 1..Len(rules) : MatchesPath(rules[i].pattern, path)} = hits
  BY <1>7
<1> DEFINE ttl == ParseTtl(rule(k).ttl)
<1>9. ConfigAssign(Load(config), path) = ttl
  <2>1. ConfigAssign(Load(config), path) = rules[k].ttl
    <3> HIDE DEF rules, hits
    <3> QED BY <1>2, <1>5, <1>8 DEF ConfigAssign
  <2>2. k \in 1..n
    BY <1>6
  <2> HIDE DEF k
  <2> QED BY <2>1, <2>2
<1>10. /\ k \in 1..n /\ MatchesPath(rule(k).pattern, path)
       /\ \A j \in 1..(k - 1) : ~MatchesPath(rule(j).pattern, path)
  <2> HIDE DEF k
  <2>1. k \in 1..n /\ MatchesPath(rule(k).pattern, path)
    BY <1>6
  <2>2. ASSUME NEW j \in 1..(k - 1), MatchesPath(rule(j).pattern, path) PROVE FALSE
    <3>1. j \in hits
      BY <1>1, <2>1, <2>2
    <3>2. k <= j
      BY <1>6, <3>1
    <3> QED BY <1>1, <2>1, <3>2
  <2> QED BY <2>1, <2>2
<1> HIDE DEF k, hits, rules
<1>11. /\ ttl # Invalid
       /\ ttl = Forever \/ (ttl \in Nat /\ 0 < ttl)
       /\ TtlLabel(ttl) \in Text /\ ParseTtl(TtlLabel(ttl)) = ttl
  BY <1>1, <1>2, <1>10, TtlReadsBack
<1> HIDE DEF ttl
<1> DEFINE seconds == IF ttl = Forever THEN Forever ELSE Seconds(ttl)
<1>12. ttl \in Nat => Seconds(ttl) = IF ttl <= I64Max THEN ttl ELSE I64Max
  BY Widths, Smaller DEF Seconds
<1>13. /\ seconds \in Nat \cup {Forever} /\ seconds # 0
       /\ ttl = seconds \/ (ttl > I64Max /\ seconds = I64Max)
  BY <1>11, <1>12, Widths
<1>14. shown = IF ttl = Invalid THEN Invalid ELSE [ttl |-> TtlLabel(ttl), ttl_seconds |-> seconds]
  BY <1>9 DEF Check
<1> HIDE DEF seconds, shown
<1>15. shown = [ttl |-> TtlLabel(ttl), ttl_seconds |-> seconds] /\ shown # Invalid
  <2>1. [ttl |-> TtlLabel(ttl), ttl_seconds |-> seconds] \in [ttl : Text, ttl_seconds : Nat \cup {Forever}]
    BY <1>11, <1>13
  <2> QED BY <1>11, <1>14, <2>1, AnswersAssumption
<1>16. shown.ttl = TtlLabel(ttl) /\ shown.ttl_seconds = seconds
  BY <1>15
<1>17. ParseTtl(shown.ttl) = ParseTtl(rule(k).ttl)
  BY <1>11, <1>16 DEF ttl
<1>18. \A i \in 1..n : rule(i).pattern = Star => i = n
  BY <1>1, <1>3
<1> QED BY <1>1, <1>10, <1>11, <1>13, <1>15, <1>16, <1>17, <1>18

LEMMA CheckParts ==
    ASSUME call \in Calls, call.op = "check"
    PROVE  call.config.rules \in Seq(Rules)
<1>1. call.config \in Configs
  BY DEF Calls
<1>2. call.config.rules \in UpTo(Rules, MaxRules)
  BY <1>1 DEF Configs
<1> QED BY <1>2, UpToSeq, BoundsAssumption

LEMMA RuleTexts == \A rule \in Rules : rule.ttl.value \in Nat
<1>1. \A text \in Segments : text.value \in Nat
  BY Widths DEF Segments, Label, ForeverText
<1> HIDE DEF Segments
<1> QED BY <1>1 DEF Rules

\* A configuration that loads gives every path a lifetime, that of the first rule
\* that matches, never zero, and fade check prints what was decided
\* (ConfigPolicy::load, assign_file, check).
THEOREM ConfigsAreTotal == Spec => []ConfigsTotal
<1>1. call \in Calls => ConfigsTotal
  <2> SUFFICES ASSUME call \in Calls, call.op = "check"
               PROVE  LoadedIsTotal(call.config, call.path)
    BY DEF ConfigsTotal
  <2>1. call.config.rules \in Seq(Rules)
    BY CheckParts
  <2>2. \A i \in DOMAIN call.config.rules : call.config.rules[i].ttl.value \in Nat
    BY <2>1, RuleTexts
  <2> QED BY <2>1, <2>2, TotalForAll
<1> QED BY <1>1, CallsStay, PTL

------------------------------------------------------------------------------
(* fade status *)

Four == {"none", "alive", "expired", "deleted"}

LEMMA Ranks ==
    /\ Rank("none") = 1 /\ Rank("alive") = 2 /\ Rank("expired") = 3 /\ Rank("deleted") = 4
<1>1. States[1] = "none" /\ States[2] = "alive" /\ States[3] = "expired" /\ States[4] = "deleted"
  BY DEF States
<1> HIDE DEF States
<1>2. \A i \in 1..4 : i = 1 \/ i = 2 \/ i = 3 \/ i = 4
  OBVIOUS
<1>3. \A i \in 1..4 : States[i] = "none" => i = 1
  BY <1>1, <1>2
<1>4. \A i \in 1..4 : States[i] = "alive" => i = 2
  BY <1>1, <1>2
<1>5. \A i \in 1..4 : States[i] = "expired" => i = 3
  BY <1>1, <1>2
<1>6. \A i \in 1..4 : States[i] = "deleted" => i = 4
  BY <1>1, <1>2
<1>7. 1 \in 1..4 /\ 2 \in 1..4 /\ 3 \in 1..4 /\ 4 \in 1..4
  OBVIOUS
<1>8. Rank("none") = 1
  BY <1>1, <1>3, <1>7 DEF Rank
<1>9. Rank("alive") = 2
  BY <1>1, <1>4, <1>7 DEF Rank
<1>10. Rank("expired") = 3
  BY <1>1, <1>5, <1>7 DEF Rank
<1>11. Rank("deleted") = 4
  BY <1>1, <1>6, <1>7 DEF Rank
<1> QED BY <1>8, <1>9, <1>10, <1>11

\* What the SELECTs find is as the recursion says.
LEMMA SeenUnrolled ==
    ASSUME NEW row, NEW moves, NEW now
    PROVE  LET s == Seen(row, moves, now)
           IN  /\ s[0] = StatusExpire(moves[0], row, now)
               /\ s[1] = Later(s[0], moves[1]) /\ s[2] = Later(s[1], moves[2])
               /\ s[3] = Later(s[2], moves[3]) /\ s[4] = Later(s[3], moves[4])
               /\ s[5] = Later(s[4], moves[5])
<1> DEFINE is(s) == s = [k \in 0..5 |-> IF k = 0 THEN StatusExpire(moves[0], row, now)
                                        ELSE Later(s[k - 1], moves[k])]
           v0 == StatusExpire(moves[0], row, now)
           v1 == Later(v0, moves[1])
           v2 == Later(v1, moves[2])
           v3 == Later(v2, moves[3])
           v4 == Later(v3, moves[4])
           v5 == Later(v4, moves[5])
           g == [k \in 0..5 |-> IF k = 0 THEN v0 ELSE IF k = 1 THEN v1 ELSE IF k = 2 THEN v2
                                ELSE IF k = 3 THEN v3 ELSE IF k = 4 THEN v4 ELSE v5]
<1>1. Seen(row, moves, now) = CHOOSE s : is(s)
  BY DEF Seen
<1>2. is(g)
  <2>1. /\ g[0] = v0 /\ g[1] = v1 /\ g[2] = v2 /\ g[3] = v3 /\ g[4] = v4 /\ g[5] = v5
    OBVIOUS
  <2>2. DOMAIN g = 0..5
    OBVIOUS
  <2>3. v1 = Later(v0, moves[1]) /\ v2 = Later(v1, moves[2]) /\ v3 = Later(v2, moves[3])
        /\ v4 = Later(v3, moves[4]) /\ v5 = Later(v4, moves[5]) /\ v0 = StatusExpire(moves[0], row, now)
    OBVIOUS
  <2>4. g = [k \in 0..5 |-> g[k]]
    OBVIOUS
  <2> HIDE DEF g, v0, v1, v2, v3, v4, v5
  <2>5. ASSUME NEW k \in 0..5
        PROVE  g[k] = IF k = 0 THEN StatusExpire(moves[0], row, now) ELSE Later(g[k - 1], moves[k])
    <3>1. k = 0 \/ k = 1 \/ k = 2 \/ k = 3 \/ k = 4 \/ k = 5
      OBVIOUS
    <3>2. CASE k = 0
      BY <2>1, <2>3, <3>2
    <3>3. CASE k = 1
      BY <2>1, <2>3, <3>3
    <3>4. CASE k = 2
      BY <2>1, <2>3, <3>4
    <3>5. CASE k = 3
      BY <2>1, <2>3, <3>5
    <3>6. CASE k = 4
      BY <2>1, <2>3, <3>6
    <3>7. CASE k = 5
      BY <2>1, <2>3, <3>7
    <3> QED BY <3>1, <3>2, <3>3, <3>4, <3>5, <3>6, <3>7
  <2> QED BY <2>4, <2>5
<1> HIDE DEF g
<1>3. is(Seen(row, moves, now))
  BY <1>1, <1>2
<1> DEFINE s == Seen(row, moves, now)
<1>4. s = [k \in 0..5 |-> IF k = 0 THEN StatusExpire(moves[0], row, now) ELSE Later(s[k - 1], moves[k])]
  BY <1>3
<1> HIDE DEF s
<1>5. /\ s[0] = StatusExpire(moves[0], row, now)
      /\ s[1] = Later(s[1 - 1], moves[1]) /\ s[2] = Later(s[2 - 1], moves[2])
      /\ s[3] = Later(s[3 - 1], moves[3]) /\ s[4] = Later(s[4 - 1], moves[4])
      /\ s[5] = Later(s[5 - 1], moves[5])
  BY <1>4
<1> QED BY <1>5 DEF s

\* A row only goes forward, is expired only if it can be, and is past "alive"
\* when the SELECTs begin if it is due to expire.
LEMMA SeenForward ==
    ASSUME NEW row, NEW now, NEW moves \in Histories(row, now)
    PROVE  LET s == Seen(row, moves, now)
           IN  /\ \A k \in 0..5 : s[k] \in Four /\ (s[k] = "expired" => row.expires_at # Never)
               /\ \A k \in 1..5 : Rank(s[k - 1]) <= Rank(s[k])
               /\ Passed(row.expires_at, now) => s[0] \in {"expired", "deleted"}
<1> DEFINE s == Seen(row, moves, now)
           good(state) == state \in Four /\ (state = "expired" => row.expires_at # Never)
<1>1. /\ \A k \in 0..5 : good(moves[k])
      /\ moves[0] = "none" => ~Passed(row.expires_at, now)
  BY DEF Histories, Four
<1>2. /\ s[0] = StatusExpire(moves[0], row, now)
      /\ s[1] = Later(s[0], moves[1]) /\ s[2] = Later(s[1], moves[2])
      /\ s[3] = Later(s[2], moves[3]) /\ s[4] = Later(s[3], moves[4])
      /\ s[5] = Later(s[4], moves[5])
  BY SeenUnrolled
<1> HIDE DEF s
<1>3. ASSUME NEW a, NEW b, good(a), good(b)
      PROVE  good(Later(a, b)) /\ Rank(a) <= Rank(Later(a, b))
  <2>1. Rank(a) \in 1..4 /\ Rank(b) \in 1..4
    BY <1>3, Ranks DEF Four
  <2> QED BY <1>3, <2>1 DEF Later
<1>4. good(s[0]) /\ (Passed(row.expires_at, now) => s[0] \in {"expired", "deleted"})
  <2>1. good(moves[0])
    BY <1>1
  <2>2. Passed(row.expires_at, now) => row.expires_at # Never
    BY DEF Passed
  <2> QED BY <1>1, <1>2, <2>1, <2>2 DEF StatusExpire, Four
<1> HIDE DEF good
<1>5. good(moves[1]) /\ good(moves[2]) /\ good(moves[3]) /\ good(moves[4]) /\ good(moves[5])
  BY <1>1
<1>6. good(s[1]) /\ Rank(s[0]) <= Rank(s[1])
  BY <1>2, <1>3, <1>4, <1>5
<1>7. good(s[2]) /\ Rank(s[1]) <= Rank(s[2])
  BY <1>2, <1>3, <1>5, <1>6
<1>8. good(s[3]) /\ Rank(s[2]) <= Rank(s[3])
  BY <1>2, <1>3, <1>5, <1>7
<1>9. good(s[4]) /\ Rank(s[3]) <= Rank(s[4])
  BY <1>2, <1>3, <1>5, <1>8
<1>10. good(s[5]) /\ Rank(s[4]) <= Rank(s[5])
  BY <1>2, <1>3, <1>5, <1>9
<1>11. \A k \in 0..5 : good(s[k])
  <2>1. \A k \in 0..5 : k = 0 \/ k = 1 \/ k = 2 \/ k = 3 \/ k = 4 \/ k = 5
    OBVIOUS
  <2> QED BY <2>1, <1>4, <1>6, <1>7, <1>8, <1>9, <1>10
<1>12. \A k \in 1..5 : Rank(s[k - 1]) <= Rank(s[k])
  <2>1. \A k \in 1..5 : k = 1 \/ k = 2 \/ k = 3 \/ k = 4 \/ k = 5
    OBVIOUS
  <2>2. 1 - 1 = 0 /\ 2 - 1 = 1 /\ 3 - 1 = 2 /\ 4 - 1 = 3 /\ 5 - 1 = 4
    OBVIOUS
  <2> QED BY <2>1, <2>2, <1>6, <1>7, <1>8, <1>9, <1>10
<1> QED BY <1>4, <1>11, <1>12 DEF good, s

LEMMA CountsForAll ==
    ASSUME NEW row, NEW now, NEW moves \in Histories(row, now),
           row.expires_at # Never <=> row.deadline # Never,
           Passed(row.deadline, now) => Passed(row.expires_at, now)
    PROVE  StatsAccount(row, moves, now)
<1> DEFINE r == Stats(row, moves, now)
           s == Seen(row, moves, now)
           due == Passed(row.deadline, now)
           counts == {"alive", "recoverable", "deleted", "pending"}
           T == {c \in counts : r[c]}
<1>1. /\ r.alive = (s[1] = "alive")
      /\ r.recoverable = (s[2] = "expired" /\ row.deadline # Never /\ ~due)
      /\ r.deleted = (s[3] = "deleted")
      /\ r.pending = (s[4] = "expired" /\ due)
      /\ r.bytes = (s[5] = "expired" /\ due)
  BY DEF Stats
<1>2. /\ \A k \in 0..5 : s[k] \in Four /\ (s[k] = "expired" => row.expires_at # Never)
      /\ \A k \in 1..5 : Rank(s[k - 1]) <= Rank(s[k])
      /\ Passed(row.expires_at, now) => s[0] \in {"expired", "deleted"}
  BY SeenForward
<1> HIDE DEF r, s, due
<1>3. /\ Rank(s[0]) <= Rank(s[1]) /\ Rank(s[1]) <= Rank(s[2]) /\ Rank(s[2]) <= Rank(s[3])
      /\ Rank(s[3]) <= Rank(s[4]) /\ Rank(s[4]) <= Rank(s[5])
  <2>1. /\ Rank(s[1 - 1]) <= Rank(s[1]) /\ Rank(s[2 - 1]) <= Rank(s[2])
        /\ Rank(s[3 - 1]) <= Rank(s[3]) /\ Rank(s[4 - 1]) <= Rank(s[4])
        /\ Rank(s[5 - 1]) <= Rank(s[5])
    BY <1>2
  <2> QED BY <2>1
<1>4. /\ s[0] \in Four /\ s[1] \in Four /\ s[2] \in Four /\ s[3] \in Four /\ s[4] \in Four /\ s[5] \in Four
      /\ s[1] = "expired" => row.expires_at # Never
      /\ s[2] = "expired" => row.expires_at # Never
  BY <1>2
<1>5. due => s[0] \in {"expired", "deleted"} /\ row.deadline # Never
  BY <1>2 DEF due, Passed
<1>6. IsFiniteSet(T)
  <2>1. IsFiniteSet({"alive"}) /\ IsFiniteSet({"recoverable"})
        /\ IsFiniteSet({"deleted"}) /\ IsFiniteSet({"pending"})
    BY FS_Singleton
  <2>2. IsFiniteSet({"alive"} \cup {"recoverable"}) /\ IsFiniteSet({"deleted"} \cup {"pending"})
    BY <2>1, FS_Union
  <2>3. IsFiniteSet(({"alive"} \cup {"recoverable"}) \cup ({"deleted"} \cup {"pending"}))
    BY <2>2, FS_Union
  <2>4. T \subseteq ({"alive"} \cup {"recoverable"}) \cup ({"deleted"} \cup {"pending"})
    OBVIOUS
  <2> QED BY <2>3, <2>4, FS_Subset
<1>7. r.alive => ~Passed(row.expires_at, now)
  <2>1. r.alive => s[1] = "alive"
    BY <1>1
  <2>2. s[1] = "alive" => s[0] \notin {"expired", "deleted"}
    BY <1>3, Ranks
  <2> QED BY <1>2, <2>1, <2>2
<1>8. s[0] = s[5] /\ s[5] # "none" => Cardinality(T) = 1
  <2> SUFFICES ASSUME s[0] = s[5], s[5] # "none" PROVE \E c : T = {c}
    BY FS_Singleton
  <2>1. /\ s[1] = s[5] /\ s[2] = s[5] /\ s[3] = s[5] /\ s[4] = s[5]
    BY <1>3, <1>4, Ranks DEF Four
  <2>2. CASE s[5] = "alive"
    <3>1. r.alive /\ ~r.recoverable /\ ~r.deleted /\ ~r.pending
      BY <1>1, <2>1, <2>2
    <3>2. T = {"alive"}
      BY <3>1
    <3> QED BY <3>2
  <2>3. CASE s[5] = "deleted"
    <3>1. ~r.alive /\ ~r.recoverable /\ r.deleted /\ ~r.pending
      BY <1>1, <2>1, <2>3
    <3>2. T = {"deleted"}
      BY <3>1
    <3> QED BY <3>2
  <2>4. CASE s[5] = "expired" /\ due
    <3>1. ~r.alive /\ ~r.recoverable /\ ~r.deleted /\ r.pending
      BY <1>1, <2>1, <2>4
    <3>2. T = {"pending"}
      BY <3>1
    <3> QED BY <3>2
  <2>5. CASE s[5] = "expired" /\ ~due
    <3>1. ~r.alive /\ r.recoverable /\ ~r.deleted /\ ~r.pending
      BY <1>1, <1>4, <2>1, <2>5
    <3>2. T = {"recoverable"}
      BY <3>1
    <3> QED BY <3>2
  <2> QED BY <1>4, <2>2, <2>3, <2>4, <2>5 DEF Four
<1>9. s[1] # "none" /\ Cardinality(T) = 0 => s[3] = "expired" /\ s[4] = "deleted"
  <2> SUFFICES ASSUME s[1] # "none", Cardinality(T) = 0
               PROVE  s[3] = "expired" /\ s[4] = "deleted"
    OBVIOUS
  <2>1. T = {}
    BY <1>6, FS_EmptySet
  <2>2. ~r.alive /\ ~r.recoverable /\ ~r.deleted /\ ~r.pending
    BY <2>1
  <2>3. s[1] # "alive" /\ s[3] # "deleted"
    BY <1>1, <2>2
  <2>4. s[2] = "expired" /\ s[3] = "expired"
    BY <1>3, <1>4, <2>3, Ranks DEF Four
  <2>5. due
    BY <1>1, <1>4, <2>2, <2>4
  <2>6. s[4] # "expired"
    BY <1>1, <2>2, <2>5
  <2> QED BY <1>3, <1>4, <2>4, <2>6, Ranks DEF Four
<1>10. r.bytes => r.pending
  <2> SUFFICES ASSUME s[5] = "expired", due PROVE s[4] = "expired"
    BY <1>1
  <2> QED BY <1>3, <1>4, <1>5, Ranks DEF Four
<1> QED BY <1>7, <1>8, <1>9, <1>10 DEF StatsAccount, r, s

\* fade status counts no file as alive that is past its expiry, counts a file that
\* nobody moves once, misses only a file that is reclaimed between two of its
\* SELECTs, and counts bytes only of files pending deletion (status, stats).
THEOREM StatusIsAccounted == Spec => []StatusAccounts
<1>1. call \in Calls => StatusAccounts
  <2> SUFFICES ASSUME call \in Calls, call.op = "status"
               PROVE  StatsAccount(call.row, call.moves, StatusNow)
    BY DEF StatusAccounts
  <2>1. PICK row \in StatusRows : call \in [op : {"status"}, row : {row}, moves : Histories(row, StatusNow)]
    BY DEF Calls
  <2>2. call.row = row /\ call.moves \in Histories(row, StatusNow)
    BY <2>1
  <2>3. /\ row.expires_at # Never <=> row.deadline # Never
        /\ Passed(row.deadline, StatusNow) => Passed(row.expires_at, StatusNow)
    <3>1. CASE row = [expires_at |-> Never, deadline |-> Never]
      BY <3>1 DEF Passed
    <3>2. CASE row \in {[expires_at |-> e, deadline |-> e + w] : e \in 1..3, w \in 0..2}
      <4>1. PICK e \in 1..3, w \in 0..2 : row = [expires_at |-> e, deadline |-> e + w]
        BY <3>2
      <4>2. row.expires_at = e /\ row.deadline = e + w
        BY <4>1
      <4>3. row.expires_at # Never /\ row.deadline # Never
        BY <4>2, StatusAssumption
      <4> QED BY <4>2, <4>3 DEF Passed, StatusNow
    <3> QED BY <3>1, <3>2 DEF StatusRows
  <2> QED BY <2>2, <2>3, CountsForAll
<1> QED BY <1>1, CallsStay, PTL

------------------------------------------------------------------------------
(* Written paths *)

\* f is computed step by step, from start.
Stepwise(f, V, start, n, step) ==
    /\ f \in [0..n -> V] /\ f[0] = start
    /\ \A k \in 1..n : f[k] = step[<<k, f[k - 1]>>]

\* What is computed step by step exists, whatever the step.
LEMMA Recursion ==
    ASSUME NEW V, NEW start \in V, NEW n \in Nat, NEW step \in [(1..n) \X V -> V]
    PROVE  \E f : Stepwise(f, V, start, n, step)
<1> DEFINE upto(f, m) == Stepwise(f, V, start, m, step)
           missing == {m \in 0..n : ~\E f : upto(f, m)}
<1>1. ASSUME missing # {} PROVE FALSE
  <2> DEFINE m == Min(missing)
  <2>1. m \in missing /\ \A l \in missing : m <= l
    <3>1. missing \in SUBSET Nat
      OBVIOUS
    <3> HIDE DEF missing
    <3> QED BY <1>1, <3>1, Least
  <2> HIDE DEF m
  <2>2. m # 0
    <3>1. upto([k \in 0..0 |-> start], 0)
      BY DEF Stepwise
    <3> QED BY <2>1, <3>1
  <2>3. m - 1 \in 0..n /\ m \in 1..n /\ m - 1 \notin missing
    BY <2>1, <2>2
  <2>4. PICK f : upto(f, m - 1)
    BY <2>3
  <2> DEFINE next == step[<<m, f[m - 1]>>]
             g == [k \in 0..m |-> IF k = m THEN next ELSE f[k]]
  <2>5. next \in V
    BY <2>3, <2>4 DEF Stepwise
  <2>6. g \in [0..m -> V] /\ g[0] = start
    BY <2>3, <2>4, <2>5 DEF Stepwise
  <2>7. ASSUME NEW k \in 1..m PROVE g[k] = step[<<k, g[k - 1]>>]
    <3>1. CASE k = m
      <4>1. m \in 0..m /\ m - 1 \in 0..m /\ m - 1 # m
        BY <2>3
      <4>2. g[m] = next /\ g[m - 1] = f[m - 1]
        BY <4>1
      <4> HIDE DEF g
      <4> QED BY <3>1, <4>2
    <3>2. CASE k # m
      <4>1. k \in 1..(m - 1) /\ k - 1 \in 0..m /\ k \in 0..m /\ k - 1 # m
        BY <2>3, <3>2
      <4>2. f[k] = step[<<k, f[k - 1]>>]
        BY <2>4, <4>1 DEF Stepwise
      <4> QED BY <3>2, <4>1, <4>2
    <3> QED BY <3>1, <3>2
  <2>8. upto(g, m)
    <3> HIDE DEF g
    <3> QED BY <2>6, <2>7 DEF Stepwise
  <2> QED BY <2>1, <2>8
<1>2. n \in 0..n
  OBVIOUS
<1> QED BY <1>1, <1>2

\* The segments that are kept, and how deep a written path leads.
LEMMA Walk ==
    ASSUME NEW components \in Seq(Component)
    PROVE  LET n == Len(components)
               parts[k \in 0..n] ==
                   IF k = 0 THEN <<>>
                   ELSE IF components[k] = "name" THEN Append(parts[k - 1], components[k])
                   ELSE parts[k - 1]
               depth[k \in 0..n] ==
                   IF k = 0 THEN 0
                   ELSE CASE components[k] = "parent" -> depth[k - 1] - 1
                          [] components[k] = "curdir" -> depth[k - 1]
                          [] OTHER -> depth[k - 1] + 1
           IN  /\ depth[0] = 0 /\ parts[0] = <<>>
               /\ \A k \in 1..n : 
                     /\ parts[k] = IF components[k] = "name" THEN Append(parts[k - 1], components[k])
                                   ELSE parts[k - 1]
                     /\ depth[k] = CASE components[k] = "parent" -> depth[k - 1] - 1
                                     [] components[k] = "curdir" -> depth[k - 1]
                                     [] OTHER -> depth[k - 1] + 1
<1> DEFINE n == Len(components)
           kept(s, k) == IF components[k] = "name" THEN Append(s, components[k]) ELSE s
           deep(d, k) == CASE components[k] = "parent" -> d - 1
                           [] components[k] = "curdir" -> d
                           [] OTHER -> d + 1
           isParts(f) == f = [k \in 0..n |-> IF k = 0 THEN <<>> ELSE kept(f[k - 1], k)]
           isDepth(f) == f = [k \in 0..n |-> IF k = 0 THEN 0 ELSE deep(f[k - 1], k)]
           parts == CHOOSE f : isParts(f)
           depth == CHOOSE f : isDepth(f)
<1>1. n \in Nat /\ \A k \in 1..n : components[k] \in Component
  BY LenProperties, ElementOfSeq
<1>2. isParts(parts)
  <2> DEFINE V == Seq(Component)
             step == [ks \in (1..n) \X V |-> kept(ks[2], ks[1])]
  <2>1. step \in [(1..n) \X V -> V] /\ <<>> \in V
    BY <1>1, AppendProperties, EmptySeq
  <2> HIDE DEF V
  <2>2. PICK f : Stepwise(f, V, <<>>, n, step)
    <3>1. n \in Nat
      BY <1>1
    <3> HIDE DEF step, n
    <3> QED BY <2>1, <3>1, Recursion
  <2>3. \A k \in 1..n : f[k] = kept(f[k - 1], k)
    <3> SUFFICES ASSUME NEW k \in 1..n PROVE f[k] = kept(f[k - 1], k)
      OBVIOUS
    <3>1. k - 1 \in 0..n /\ f[k - 1] \in V
      BY <1>1, <2>2 DEF Stepwise
    <3>2. step[<<k, f[k - 1]>>] = kept(f[k - 1], k)
      <4> HIDE DEF kept
      <4> QED BY <3>1
    <3> QED BY <2>2, <3>2 DEF Stepwise
  <2> HIDE DEF kept
  <2>4. isParts(f)
    BY <1>1, <2>2, <2>3 DEF Stepwise
  <2> QED BY <2>4
<1>3. isDepth(depth)
  <2> DEFINE step == [kd \in (1..n) \X Int |-> deep(kd[2], kd[1])]
  <2>1. step \in [(1..n) \X Int -> Int] /\ 0 \in Int
    OBVIOUS
  <2>2. PICK f : Stepwise(f, Int, 0, n, step)
    <3>1. n \in Nat
      BY <1>1
    <3> HIDE DEF step, n
    <3> QED BY <2>1, <3>1, Recursion
  <2>3. \A k \in 1..n : f[k] = deep(f[k - 1], k)
    <3> SUFFICES ASSUME NEW k \in 1..n PROVE f[k] = deep(f[k - 1], k)
      OBVIOUS
    <3>1. k - 1 \in 0..n /\ f[k - 1] \in Int
      BY <1>1, <2>2 DEF Stepwise
    <3>2. step[<<k, f[k - 1]>>] = deep(f[k - 1], k)
      <4> HIDE DEF deep
      <4> QED BY <3>1
    <3> QED BY <2>2, <3>2 DEF Stepwise
  <2> HIDE DEF deep
  <2>4. isDepth(f)
    BY <1>1, <2>2, <2>3 DEF Stepwise
  <2> QED BY <2>4
<1> HIDE DEF parts, depth, kept, deep
<1>4. parts[0] = <<>> /\ depth[0] = 0
  BY <1>1, <1>2, <1>3
<1>5. \A k \in 1..n : parts[k] = kept(parts[k - 1], k) /\ depth[k] = deep(depth[k - 1], k)
  <2> SUFFICES ASSUME NEW k \in 1..n
               PROVE  parts[k] = kept(parts[k - 1], k) /\ depth[k] = deep(depth[k - 1], k)
    OBVIOUS
  <2>1. k \in 0..n /\ k # 0
    BY <1>1
  <2>2. parts[k] = kept(parts[k - 1], k)
    BY <1>2, <2>1
  <2>3. depth[k] = deep(depth[k - 1], k)
    BY <1>3, <2>1
  <2> QED BY <2>2, <2>3
<1> QED BY <1>4, <1>5 DEF parts, depth, kept, deep

LEMMA InsideForAll ==
    ASSUME NEW components \in Seq(Component)
    PROVE  StaysInside(components)
<1> DEFINE n == Len(components)
           parts[k \in 0..n] ==
               IF k = 0 THEN <<>>
               ELSE IF components[k] = "name" THEN Append(parts[k - 1], components[k])
               ELSE parts[k - 1]
           depth[k \in 0..n] ==
               IF k = 0 THEN 0
               ELSE CASE components[k] = "parent" -> depth[k - 1] - 1
                      [] components[k] = "curdir" -> depth[k - 1]
                      [] OTHER -> depth[k - 1] + 1
           kept == RelativePath(components)
<1>1. kept = IF Refused(components) THEN Invalid ELSE parts[n]
  BY DEF RelativePath
<1>2. StaysInside(components) <=>
        (kept # Invalid =>
          /\ \A k \in 1..n : depth[k] >= 0 /\ components[k] \notin {"root", "reserved"}
          /\ Len(kept) = depth[n])
  BY DEF StaysInside
<1>3. /\ depth[0] = 0 /\ parts[0] = <<>>
      /\ \A k \in 1..n : 
            /\ parts[k] = IF components[k] = "name" THEN Append(parts[k - 1], components[k])
                          ELSE parts[k - 1]
            /\ depth[k] = CASE components[k] = "parent" -> depth[k - 1] - 1
                            [] components[k] = "curdir" -> depth[k - 1]
                            [] OTHER -> depth[k - 1] + 1
  BY Walk
<1> HIDE DEF parts, depth, kept
<1>4. n \in Nat /\ \A k \in 1..n : components[k] \in Component
  BY LenProperties, ElementOfSeq
<1> SUFFICES ASSUME ~Refused(components)
             PROVE  /\ \A k \in 1..n : depth[k] >= 0 /\ components[k] \notin {"root", "reserved"}
                    /\ Len(parts[n]) = depth[n]
  BY <1>1, <1>2
<1>5. \A k \in 1..n : components[k] \in {"name", "curdir"}
  BY <1>4 DEF Refused, Component
<1> DEFINE fits(k) == /\ parts[k] \in Seq({"name"}) /\ depth[k] \in Nat
                      /\ Len(parts[k]) = depth[k]
           bad == {k \in 0..n : ~fits(k)}
<1>6. ASSUME NEW k \in 1..n, fits(k - 1) PROVE fits(k)
  <2>1. CASE components[k] = "name"
    <3>1. parts[k] = Append(parts[k - 1], "name") /\ depth[k] = depth[k - 1] + 1
      BY <1>3, <2>1
    <3>2. /\ parts[k - 1] \in Seq({"name"}) /\ depth[k - 1] \in Nat
          /\ Len(parts[k - 1]) = depth[k - 1]
      BY <1>6
    <3>3. \A s \in Seq({"name"}) : Append(s, "name") \in Seq({"name"}) /\ Len(Append(s, "name")) = Len(s) + 1
      <4>1. "name" \in {"name"}
        OBVIOUS
      <4> QED BY <4>1, AppendProperties
    <3> HIDE DEF fits
    <3>4. parts[k] \in Seq({"name"}) /\ Len(parts[k]) = depth[k - 1] + 1
      BY <3>1, <3>2, <3>3
    <3> QED BY <3>1, <3>2, <3>4 DEF fits
  <2>2. CASE components[k] = "curdir"
    BY <1>3, <1>6, <2>2
  <2> QED BY <1>5, <2>1, <2>2
<1>7. fits(0)
  BY <1>3, EmptySeq
<1> HIDE DEF fits
<1>8. ASSUME bad # {} PROVE FALSE
  <2> DEFINE m == Min(bad)
  <2>1. m \in bad /\ \A l \in bad : m <= l
    <3>1. bad \in SUBSET Nat
      OBVIOUS
    <3> HIDE DEF bad
    <3> QED BY <1>8, <3>1, Least
  <2> HIDE DEF m
  <2>2. m \in 1..n /\ m - 1 \in 0..n /\ m - 1 \notin bad
    BY <1>4, <1>7, <2>1
  <2> QED BY <1>6, <2>1, <2>2
<1>9. \A k \in 0..n : fits(k)
  BY <1>8
<1>10. \A k \in 1..n : k \in 0..n
  OBVIOUS
<1>11. n \in 0..n
  BY <1>4
<1> QED BY <1>5, <1>9, <1>10, <1>11 DEF fits

\* A written path that is accepted never climbs above where it starts, and as many
\* segments are kept of it as it is deep (RelativePath::new).
THEOREM PathsStayInside == Spec => []PathsInside
<1>1. call \in Calls => PathsInside
  <2> SUFFICES ASSUME call \in Calls, call.op = "path" PROVE StaysInside(call.components)
    BY DEF PathsInside
  <2>1. call.components \in UpTo(Component, MaxDepth)
    BY DEF Calls
  <2>2. call.components \in Seq(Component)
    BY <2>1, UpToSeq, BoundsAssumption
  <2> QED BY <2>2, InsideForAll
<1> QED BY <1>1, CallsStay, PTL

------------------------------------------------------------------------------
(* rename_prefix *)

\* A text is as many bytes as it has characters, or more.
LEMMA ByteLength ==
    ASSUME NEW text \in Seq(Chars)
    PROVE  Bytes(text) \in Nat /\ Len(text) <= Bytes(text)
<1> DEFINE n == Len(text)
           isUpto(f) == f = [k \in 0..n |-> IF k = 0 THEN 0 ELSE f[k - 1] + Width[text[k]]]
           upto == CHOOSE f : isUpto(f)
           step == [kb \in (1..n) \X Nat |-> kb[2] + Width[text[kb[1]]]]
<1>1. n \in Nat /\ \A k \in 1..n : text[k] \in Chars
  BY LenProperties, ElementOfSeq
<1>2. \A k \in 1..n : Width[text[k]] \in Nat /\ 1 <= Width[text[k]]
  BY <1>1, WidthAssumption DEF Chars
<1>3. Bytes(text) = upto[n]
  BY DEF Bytes
<1>4. step \in [(1..n) \X Nat -> Nat] /\ 0 \in Nat
  BY <1>2
<1>5. PICK f : Stepwise(f, Nat, 0, n, step)
  <2>1. n \in Nat
    BY <1>1
  <2> HIDE DEF step, n
  <2> QED BY <1>4, <2>1, Recursion
<1>6. \A k \in 1..n : f[k] = f[k - 1] + Width[text[k]]
  <2> SUFFICES ASSUME NEW k \in 1..n PROVE f[k] = f[k - 1] + Width[text[k]]
    OBVIOUS
  <2>1. k - 1 \in 0..n /\ f[k - 1] \in Nat
    BY <1>1, <1>5 DEF Stepwise
  <2>2. step[<<k, f[k - 1]>>] = f[k - 1] + Width[text[k]]
    BY <2>1
  <2> QED BY <1>5, <2>2 DEF Stepwise
<1>7. isUpto(f)
  BY <1>1, <1>5, <1>6 DEF Stepwise
<1>8. isUpto(upto)
  BY <1>7
<1> HIDE DEF upto
<1> DEFINE fits(k) == upto[k] \in Nat /\ k <= upto[k]
           bad == {k \in 0..n : ~fits(k)}
<1>9. fits(0)
  BY <1>1, <1>8
<1>10. ASSUME NEW k \in 1..n, fits(k - 1) PROVE fits(k)
  <2>1. upto[k] = upto[k - 1] + Width[text[k]]
    BY <1>1, <1>8
  <2> QED BY <1>2, <1>10, <2>1
<1> HIDE DEF fits
<1>11. ASSUME bad # {} PROVE FALSE
  <2> DEFINE m == Min(bad)
  <2>1. m \in bad /\ \A l \in bad : m <= l
    <3>1. bad \in SUBSET Nat
      OBVIOUS
    <3> HIDE DEF bad
    <3> QED BY <1>11, <3>1, Least
  <2> HIDE DEF m
  <2>2. m \in 1..n /\ m - 1 \in 0..n /\ m - 1 \notin bad
    BY <1>1, <1>9, <2>1
  <2> QED BY <1>10, <2>1, <2>2
<1>12. n \in 0..n
  BY <1>1
<1> QED BY <1>3, <1>11, <1>12 DEF fits

\* F[j] are the places of a text that match a pattern from its j-th place on.
Matching(F, text, pattern) ==
    LET n == Len(text)
        m == Len(pattern)
    IN  /\ F[m + 1] = {n + 1}
        /\ \A j \in 1..m :
              F[j] = {i \in 1..(n + 1) :
                        IF pattern[j] = "%" THEN \E k \in F[j + 1] : i <= k
                        ELSE /\ i <= n
                             /\ pattern[j] = "_" \/ Lower[pattern[j]] = Lower[text[i]]
                             /\ i + 1 \in F[j + 1]}

LEMMA LikeUnrolled ==
    ASSUME NEW S, NEW T, NEW text \in Seq(S), NEW pattern \in Seq(T)
    PROVE  \E F : Matching(F, text, pattern) /\ (Like(text, pattern) = (1 \in F[1]))
<1> DEFINE n == Len(text)
           m == Len(pattern)
           matching(j, after) ==
               {i \in 1..(n + 1) :
                   IF j > m THEN i > n
                   ELSE IF pattern[j] = "%" THEN \E k \in after : i <= k
                   ELSE /\ i <= n
                        /\ pattern[j] = "_" \/ Lower[pattern[j]] = Lower[text[i]]
                        /\ i + 1 \in after}
           isFrom(f) == f = [j \in 1..(m + 1) |-> matching(j, f[j + 1])]
           F == CHOOSE f : isFrom(f)
           V == SUBSET (1..(n + 1))
           step == [da \in (1..m) \X V |-> matching(m + 1 - da[1], da[2])]
           start == matching(m + 1, {})
<1>1. n \in Nat /\ m \in Nat
  BY LenProperties
<1>2. Like(text, pattern) = (1 \in F[1])
  BY DEF Like
<1>3. step \in [(1..m) \X V -> V] /\ start \in V
  OBVIOUS
<1>4. \A after : matching(m + 1, after) = {n + 1}
  <2> SUFFICES ASSUME NEW after PROVE matching(m + 1, after) = {n + 1}
    OBVIOUS
  <2>1. m + 1 > m
    BY <1>1
  <2>2. matching(m + 1, after) = {i \in 1..(n + 1) : i > n}
    BY <2>1
  <2>3. {i \in 1..(n + 1) : i > n} = {n + 1}
    BY <1>1
  <2> QED BY <2>2, <2>3
<1> HIDE DEF matching
<1>5. PICK g : Stepwise(g, V, start, m, step)
  <2>1. m \in Nat
    BY <1>1
  <2> HIDE DEF step, start, V, m
  <2> QED BY <1>3, <2>1, Recursion
<1>6. g[0] = start /\ g \in [0..m -> V]
  BY <1>5 DEF Stepwise
<1>7. ASSUME NEW d \in 1..m PROVE g[d] = matching(m + 1 - d, g[d - 1])
  <2>1. d - 1 \in 0..m
    BY <1>1
  <2>2. g[d - 1] \in V
    BY <1>6, <2>1
  <2>3. step[<<d, g[d - 1]>>] = matching(m + 1 - d, g[d - 1])
    <3> HIDE DEF V
    <3> QED BY <2>2
  <2> QED BY <1>5, <2>3 DEF Stepwise
<1> HIDE DEF step, V, start
<1> DEFINE f == [j \in 1..(m + 1) |-> g[m + 1 - j]]
<1>8. ASSUME NEW j \in 1..(m + 1) PROVE f[j] = matching(j, f[j + 1])
  <2>1. CASE j = m + 1
    <3>1. f[j] = start
      BY <1>1, <1>6, <2>1
    <3> QED BY <1>4, <2>1, <3>1 DEF start
  <2>2. CASE j # m + 1
    <3> DEFINE d == m + 1 - j
    <3>1. d \in 1..m /\ m + 1 - d = j /\ d - 1 = m + 1 - (j + 1) /\ j + 1 \in 1..(m + 1)
      BY <1>1, <2>2
    <3>2. f[j] = g[d] /\ f[j + 1] = g[d - 1]
      BY <3>1
    <3> HIDE DEF f, d
    <3> QED BY <1>7, <3>1, <3>2
  <2> QED BY <2>1, <2>2
<1>9. isFrom(f)
  <2>1. f = [j \in 1..(m + 1) |-> f[j]]
    OBVIOUS
  <2> HIDE DEF f
  <2> QED BY <1>8, <2>1
<1>10. isFrom(F)
  <2> HIDE DEF f, isFrom
  <2> QED BY <1>9
<1> HIDE DEF F, f
<1>11. F[m + 1] = {n + 1}
  <2>1. m + 1 \in 1..(m + 1)
    BY <1>1
  <2>2. F[m + 1] = matching(m + 1, F[m + 1 + 1])
    BY <1>10, <2>1
  <2> QED BY <1>4, <2>2
<1>12. ASSUME NEW j \in 1..m
       PROVE  F[j] = {i \in 1..(n + 1) :
                        IF pattern[j] = "%" THEN \E k \in F[j + 1] : i <= k
                        ELSE /\ i <= n
                             /\ pattern[j] = "_" \/ Lower[pattern[j]] = Lower[text[i]]
                             /\ i + 1 \in F[j + 1]}
  <2>1. j \in 1..(m + 1) /\ ~(j > m)
    BY <1>1
  <2>2. F[j] = matching(j, F[j + 1])
    BY <1>10, <2>1
  <2> QED BY <2>1, <2>2 DEF matching
<1> QED BY <1>2, <1>11, <1>12 DEF Matching

\* What is below a directory matches the pattern that is made of its path, even
\* if the path has characters LIKE reads otherwise.
LEMMA LikeBelow ==
    ASSUME NEW S, Slash \in S, "%" \in S, NEW path \in Seq(S), NEW from \in Seq(S),
           StartsWith(path, from \o <<Slash>>)
    PROVE  Like(path, from \o <<Slash, "%">>)
<1> DEFINE n == Len(path)
           l == Len(from)
           pattern == from \o <<Slash, "%">>
           m == Len(pattern)
<1>1. n \in Nat /\ l \in Nat
  BY LenProperties
<1>2. /\ pattern \in Seq(S) /\ m = l + 2
      /\ \A j \in 1..l : pattern[j] = from[j]
      /\ pattern[l + 1] = Slash /\ pattern[l + 2] = "%"
  <2>1. <<Slash, "%">> \in Seq(S) /\ Len(<<Slash, "%">>) = 2
        /\ <<Slash, "%">>[1] = Slash /\ <<Slash, "%">>[2] = "%"
    OBVIOUS
  <2> QED BY <1>1, <2>1, ConcatProperties
<1>3. l + 1 <= n /\ \A j \in 1..(l + 1) : path[j] = pattern[j]
  <2> DEFINE prefix == from \o <<Slash>>
  <2>1. /\ prefix \in Seq(S) /\ Len(prefix) = l + 1
        /\ \A j \in 1..l : prefix[j] = from[j]
        /\ prefix[l + 1] = Slash
    <3>1. <<Slash>> \in Seq(S) /\ Len(<<Slash>>) = 1 /\ <<Slash>>[1] = Slash
      OBVIOUS
    <3> QED BY <1>1, <3>1, ConcatProperties
  <2>2. l + 1 <= n /\ SubSeq(path, 1, l + 1) = prefix
    BY <2>1 DEF StartsWith
  <2>3. \A j \in 1..(l + 1) : path[j] = prefix[j]
    <3>1. \A j \in 1..(l + 1) : path[j] \in S
      BY <1>1, <2>2, ElementOfSeq
    <3>2. \A j \in 1..(l + 1) : SubSeq(path, 1, l + 1)[j] = path[j]
      BY <1>1, <3>1, SubSeqProperties
    <3> QED BY <2>2, <3>2
  <2> HIDE DEF prefix, pattern
  <2>4. \A j \in 1..(l + 1) : j \in 1..l \/ j = l + 1
    BY <1>1
  <2> QED BY <1>2, <2>1, <2>2, <2>3, <2>4
<1> HIDE DEF pattern
<1>4. PICK F : Matching(F, path, pattern) /\ (Like(path, pattern) = (1 \in F[1]))
  BY <1>2, LikeUnrolled
<1> DEFINE bad == {j \in 1..m : j \notin F[j]}
<1>5. m \in F[m]
  <2>1. m \in 1..m /\ m \in 1..(n + 1) /\ m <= n + 1 /\ pattern[m] = "%"
    BY <1>1, <1>2, <1>3
  <2>2. F[m] = {i \in 1..(n + 1) : \E k \in F[m + 1] : i <= k} /\ F[m + 1] = {n + 1}
    BY <1>4, <2>1 DEF Matching
  <2> QED BY <2>1, <2>2
<1>6. ASSUME NEW j \in 1..(l + 1), j + 1 \in F[j + 1] PROVE j \in F[j]
  <2>1. j \in 1..m /\ j \in 1..(n + 1) /\ j <= n /\ j <= j + 1
    BY <1>1, <1>2, <1>3
  <2>2. F[j] = {i \in 1..(n + 1) :
                  IF pattern[j] = "%" THEN \E k \in F[j + 1] : i <= k
                  ELSE /\ i <= n
                       /\ pattern[j] = "_" \/ Lower[pattern[j]] = Lower[path[i]]
                       /\ i + 1 \in F[j + 1]}
    BY <1>4, <2>1 DEF Matching
  <2>3. Lower[pattern[j]] = Lower[path[j]]
    BY <1>3
  <2> QED BY <1>6, <2>1, <2>2, <2>3
<1>7. ASSUME bad # {} PROVE FALSE
  <2> DEFINE j == Max(bad)
  <2>1. j \in bad /\ \A k \in bad : k <= j
    <3>1. bad \in SUBSET (1..m) /\ m \in Nat
      BY <1>1, <1>2
    <3> HIDE DEF bad, m
    <3> QED BY <1>7, <3>1, Greatest
  <2> HIDE DEF j
  <2>2. j \in 1..(l + 1) /\ j + 1 \in 1..m /\ j + 1 \notin bad
    BY <1>1, <1>2, <1>5, <2>1
  <2> QED BY <1>6, <2>1, <2>2
<1>8. 1 \in 1..m
  BY <1>1, <1>2
<1> QED BY <1>4, <1>7, <1>8 DEF pattern

LEMMA Joined ==
    ASSUME NEW S, NEW s \in Seq(S), NEW u \in Seq(S), NEW k \in Nat, Len(s) = k
    PROVE  /\ s \o u \in Seq(S) /\ Len(s \o u) = k + Len(u)
           /\ \A i \in 1..k : (s \o u)[i] = s[i]
           /\ \A i \in 1..Len(u) : (s \o u)[k + i] = u[i]
<1>1. /\ s \o u \in Seq(S) /\ Len(s \o u) = Len(s) + Len(u)
      /\ \A i \in 1..(Len(s) + Len(u)) : (s \o u)[i] = IF i <= Len(s) THEN s[i] ELSE u[i - Len(s)]
  BY ConcatProperties
<1>2. Len(u) \in Nat
  BY LenProperties
<1>3. ASSUME NEW i \in 1..k PROVE (s \o u)[i] = s[i]
  BY <1>1, <1>2
<1>4. ASSUME NEW i \in 1..Len(u) PROVE (s \o u)[k + i] = u[i]
  <2>1. k + i \in 1..(Len(s) + Len(u)) /\ ~(k + i <= Len(s)) /\ k + i - Len(s) = i
    BY <1>2
  <2> QED BY <1>1, <2>1
<1> QED BY <1>1, <1>3, <1>4

\* rename_prefix is literal but in two cases: a name of several bytes a character,
\* and a row LIKE takes for one that is below.
LEMMA RenamesForAll ==
    ASSUME NEW S, Chars \subseteq S, Slash \in S, "%" \in S,
           NEW path \in Seq(S), NEW from \in Seq(Chars), NEW to \in Seq(S),
           path # <<>>, to # <<>>, path[1] # to[1],
           StartsWith(path, from \o <<Slash>>) => Len(from) + 1 < Len(path)
    PROVE  RenamesLiterallyUnless(path, from, to)
<1> DEFINE n == Len(path)
           l == Len(from)
           b == Bytes(from)
           t == Len(to)
           below == StartsWith(path, from \o <<Slash>>)
           taken == Like(path, from \o <<Slash, "%">>)
           head == to \o <<Slash>>
           tail == SubSeq(path, b + 2, n)
           rest == SubSeq(path, l + 1, n)
<1>1. /\ n \in Nat \ {0} /\ l \in Nat /\ t \in Nat \ {0} /\ b \in Nat /\ l <= b
      /\ from \in Seq(S)
  <2>1. from \in Seq(S)
    BY ElementOfSeq, LenProperties, SeqDef
  <2> QED BY <2>1, LenProperties, ByteLength, EmptySeq
<1>2. below => taken /\ l + 1 < n /\ path[l + 1] = Slash
  <2> SUFFICES ASSUME below PROVE taken /\ l + 1 < n /\ path[l + 1] = Slash
    OBVIOUS
  <2> DEFINE prefix == from \o <<Slash>>
  <2>1. prefix \in Seq(S) /\ Len(prefix) = l + 1 /\ prefix[l + 1] = Slash
    <3>1. <<Slash>> \in Seq(S) /\ Len(<<Slash>>) = 1 /\ <<Slash>>[1] = Slash
      OBVIOUS
    <3> QED BY <1>1, <3>1, ConcatProperties
  <2>2. l + 1 < n /\ SubSeq(path, 1, l + 1) = prefix
    BY <2>1 DEF StartsWith
  <2>3. \A j \in 1..(l + 1) : path[j] \in S
    BY <1>1, <2>2, ElementOfSeq
  <2>4. SubSeq(path, 1, l + 1)[l + 1] = path[l + 1]
    BY <1>1, <2>3, SubSeqProperties
  <2>5. taken
    BY <1>1, LikeBelow
  <2> QED BY <2>1, <2>2, <2>4, <2>5
<1>3. /\ tail \in Seq(S) /\ Len(tail) = IF b + 2 <= n THEN n - (b + 2) + 1 ELSE 0
      /\ \A i \in 1..(n - (b + 2) + 1) : tail[i] = path[b + 2 + i - 1]
  <2>1. \A i \in (b + 2)..n : path[i] \in S
    BY <1>1, ElementOfSeq
  <2> QED BY <1>1, <2>1, SubSeqProperties
<1>4. /\ rest \in Seq(S) /\ Len(rest) = IF l + 1 <= n THEN n - (l + 1) + 1 ELSE 0
      /\ \A i \in 1..(n - (l + 1) + 1) : rest[i] = path[l + 1 + i - 1]
  <2>1. \A i \in (l + 1)..n : path[i] \in S
    BY <1>1, ElementOfSeq
  <2> QED BY <1>1, <2>1, SubSeqProperties
<1>5. /\ head \in Seq(S) /\ Len(head) = t + 1 /\ head[t + 1] = Slash
      /\ \A i \in 1..t : head[i] = to[i]
  <2>1. <<Slash>> \in Seq(S) /\ Len(<<Slash>>) = 1 /\ <<Slash>>[1] = Slash
    OBVIOUS
  <2> QED BY <1>1, <2>1, ConcatProperties
<1>6. /\ head \o tail \in Seq(S) /\ Len(head \o tail) = t + 1 + Len(tail)
      /\ \A i \in 1..(t + 1) : (head \o tail)[i] = head[i]
      /\ \A i \in 1..Len(tail) : (head \o tail)[t + 1 + i] = tail[i]
  <2>1. head \in Seq(S) /\ tail \in Seq(S) /\ t + 1 \in Nat /\ Len(head) = t + 1
    BY <1>1, <1>3, <1>5
  <2> HIDE DEF head, tail, t
  <2> QED BY <2>1, Joined
<1>7. /\ to \o rest \in Seq(S) /\ Len(to \o rest) = t + Len(rest)
      /\ \A i \in 1..t : (to \o rest)[i] = to[i]
      /\ \A i \in 1..Len(rest) : (to \o rest)[t + i] = rest[i]
  <2>1. to \in Seq(S) /\ rest \in Seq(S) /\ t \in Nat /\ Len(to) = t
    BY <1>1, <1>4
  <2> HIDE DEF rest, t
  <2>2. /\ to \o rest \in Seq(S) /\ Len(to \o rest) = t + Len(rest)
        /\ \A i \in 1..t : (to \o rest)[i] = to[i]
        /\ \A i \in 1..Len(rest) : (to \o rest)[t + i] = rest[i]
    BY <2>1, Joined
  <2> QED BY <2>2
<1>8. RenamePrefix(path, from, to) = IF taken THEN head \o tail ELSE path
  BY DEF RenamePrefix, Substr, SuffixStart
<1>9. RenameBelow(path, from, to) = IF below THEN to \o rest ELSE path
  BY DEF RenameBelow
<1>10. RenamesLiterallyUnless(path, from, to) <=>
         (RenamePrefix(path, from, to) = RenameBelow(path, from, to)
            <=> ~(below /\ b # l) /\ ~(~below /\ taken))
  BY DEF RenamesLiterallyUnless, RenamesLiterally
<1> DEFINE one == head \o tail
           two == to \o rest
<1>11. ASSUME below, b = l PROVE one = two
  <2>1. Len(tail) = n - l - 1 /\ Len(rest) = n - l /\ l + 1 < n
    BY <1>1, <1>2, <1>3, <1>4, <1>11
  <2>2. Len(one) = t + n - l /\ Len(two) = t + n - l
    <3>1. Len(one) = t + 1 + Len(tail) /\ Len(two) = t + Len(rest)
      BY <1>6, <1>7
    <3> HIDE DEF one, two, head, tail, rest, n, l, b, t
    <3> QED BY <1>1, <2>1, <3>1
  <2>3. ASSUME NEW i \in 1..(t + n - l) PROVE one[i] = two[i]
    <3> HIDE DEF one, two, head, tail, rest, n, l, b, t
    <3>1. CASE i <= t
      <4>1. one[i] = head[i] /\ two[i] = to[i] /\ head[i] = to[i]
        BY <1>1, <1>5, <1>6, <1>7, <3>1 DEF one, two
      <4> QED BY <4>1
    <3>2. CASE i = t + 1
      <4>1. one[i] = Slash
        BY <1>1, <1>5, <1>6, <3>2 DEF one
      <4>2. two[t + 1] = rest[1]
        BY <1>1, <1>7, <2>1 DEF two
      <4>3. rest[1] = path[l + 1 + 1 - 1] /\ l + 1 + 1 - 1 = l + 1
        BY <1>1, <1>4, <2>1
      <4> QED BY <1>2, <1>11, <3>2, <4>1, <4>2, <4>3
    <3>3. CASE i > t + 1
      <4> DEFINE k == i - (t + 1)
      <4>1. /\ k \in 1..Len(tail) /\ k + 1 \in 1..Len(rest) /\ t + 1 + k = i /\ t + (k + 1) = i
            /\ b + 2 + k - 1 = l + 1 + (k + 1) - 1
            /\ k \in 1..(n - (b + 2) + 1) /\ k + 1 \in 1..(n - (l + 1) + 1)
        BY <1>1, <1>11, <2>1, <3>3
      <4> HIDE DEF k
      <4>2. one[t + 1 + k] = tail[k] /\ two[t + (k + 1)] = rest[k + 1]
        BY <1>6, <1>7, <4>1 DEF one, two
      <4>3. tail[k] = path[b + 2 + k - 1] /\ rest[k + 1] = path[l + 1 + (k + 1) - 1]
        BY <1>3, <1>4, <4>1
      <4> QED BY <4>1, <4>2, <4>3
    <3> QED BY <1>1, <3>1, <3>2, <3>3
  <2> HIDE DEF one, two
  <2>4. one \in Seq(S) /\ two \in Seq(S)
    BY <1>6, <1>7 DEF one, two
  <2> QED BY <2>2, <2>3, <2>4, SeqEqual
<1>12. ASSUME below, b # l PROVE one # two
  <2> HIDE DEF head, tail, rest
  <2>1. Len(one) = t + 1 + Len(tail) /\ Len(two) = t + Len(rest)
    BY <1>6, <1>7
  <2>2. Len(rest) = n - l /\ Len(tail) <= n - l - 2
    BY <1>1, <1>2, <1>3, <1>4, <1>12
  <2> HIDE DEF one, two
  <2>3. Len(one) # Len(two)
    BY <1>1, <1>3, <1>4, <2>1, <2>2
  <2> QED BY <2>3
<1>13. one # path
  <2>1. 1 \in 1..(t + 1) /\ 1 \in 1..t
    BY <1>1
  <2>2. one[1] = head[1] /\ head[1] = to[1]
    BY <1>5, <1>6, <2>1
  <2> QED BY <2>2
<1> HIDE DEF one, two, below, taken, n, l, b, t
<1>14. CASE below
  <2>1. RenamePrefix(path, from, to) = one /\ RenameBelow(path, from, to) = two
    BY <1>2, <1>8, <1>9, <1>14 DEF one, two
  <2> QED BY <1>10, <1>11, <1>12, <1>14, <2>1
<1>15. CASE ~below /\ taken
  <2>1. RenamePrefix(path, from, to) = one /\ RenameBelow(path, from, to) = path
    BY <1>8, <1>9, <1>15 DEF one
  <2> QED BY <1>10, <1>13, <1>15, <2>1
<1>16. CASE ~below /\ ~taken
  <2>1. RenamePrefix(path, from, to) = path /\ RenameBelow(path, from, to) = path
    BY <1>8, <1>9, <1>16
  <2> QED BY <1>10, <1>16, <2>1
<1> QED BY <1>14, <1>15, <1>16

\* Names, directories and rows of the calls.
LEMMA RowTexts ==
    ASSUME NEW from \in DirTexts, NEW dir \in DirTexts, NEW file \in [{1} -> Letters]
    PROVE  LET row == dir \o <<Slash>> \o file
           IN  /\ from \in Seq(Chars) /\ row \in Seq(Chars) /\ row # <<>>
               /\ row[1] \in Letters /\ row[Len(row)] \in Letters
<1>1. ASSUME NEW d \in DirTexts
      PROVE  d \in Seq(Chars) /\ Len(d) \in Nat \ {0} /\ d[1] \in Letters
  <2>1. CASE d \in NameTexts
    <3>1. PICK k \in 1..MaxName : d \in [1..k -> Letters]
      BY <2>1 DEF NameTexts
    <3>2. k \in Nat \ {0} /\ 1 \in 1..k
      BY <3>1
    <3>3. d \in [1..k -> Chars] /\ d[1] \in Letters
      BY <3>1, <3>2, LettersAssumption
    <3>4. d \in Seq(Chars)
      BY <3>2, <3>3, SeqDef
    <3>5. Len(d) = k
      BY <3>2, <3>3, <3>4, LenProperties
    <3> QED BY <3>2, <3>3, <3>4, <3>5
  <2>2. CASE d \in {<<a, Slash, b>> : a \in Letters, b \in Letters}
    <3>1. PICK a \in Letters, b \in Letters : d = <<a, Slash, b>>
      BY <2>2
    <3>2. a \in Chars /\ Slash \in Chars /\ b \in Chars
      BY LettersAssumption
    <3> QED BY <3>1, <3>2
  <2> QED BY <2>1, <2>2 DEF DirTexts
<1>2. /\ file \in Seq(Chars) /\ Len(file) = 1 /\ file[1] \in Letters
  <2>1. 1..1 = {1}
    OBVIOUS
  <2>2. file \in [1..1 -> Chars]
    BY <2>1, LettersAssumption
  <2>3. file \in Seq(Chars)
    <3>1. PICK k \in Nat : k = 1
      OBVIOUS
    <3>2. file \in [1..k -> Chars]
      BY <2>2, <3>1
    <3> QED BY <3>2, SeqDef
  <2>4. Len(file) = 1
    BY <2>1, <2>3, LenProperties
  <2> QED BY <2>3, <2>4
<1>3. <<Slash>> \in Seq(Chars) /\ Len(<<Slash>>) = 1
  BY LettersAssumption
<1> DEFINE l == Len(dir)
           start == dir \o <<Slash>>
           row == start \o file
<1>4. dir \in Seq(Chars) /\ l \in Nat \ {0} /\ dir[1] \in Letters /\ from \in Seq(Chars)
  BY <1>1
<1>5. start \in Seq(Chars) /\ Len(start) = l + 1 /\ start[1] = dir[1]
  <2>1. /\ start \in Seq(Chars) /\ Len(start) = l + Len(<<Slash>>)
        /\ \A i \in 1..l : start[i] = dir[i]
    BY <1>3, <1>4, Joined
  <2> QED BY <1>3, <1>4, <2>1
<1> HIDE DEF start
<1>6. row \in Seq(Chars) /\ Len(row) = l + 2 /\ row[1] = dir[1] /\ row[l + 2] = file[1]
  <2>1. l + 1 \in Nat
    BY <1>4
  <2>2. /\ row \in Seq(Chars) /\ Len(row) = (l + 1) + Len(file)
        /\ \A i \in 1..(l + 1) : row[i] = start[i]
        /\ \A i \in 1..Len(file) : row[(l + 1) + i] = file[i]
    <3>1. /\ start \o file \in Seq(Chars) /\ Len(start \o file) = (l + 1) + Len(file)
          /\ \A i \in 1..(l + 1) : (start \o file)[i] = start[i]
          /\ \A i \in 1..Len(file) : (start \o file)[(l + 1) + i] = file[i]
      <4> HIDE DEF l
      <4>1. start \in Seq(Chars) /\ file \in Seq(Chars) /\ Len(start) = l + 1
        BY <1>2, <1>5
      <4> QED BY <2>1, <4>1, Joined
    <3> QED BY <3>1
  <2>3. row[(l + 1) + 1] = file[1] /\ row[1] = start[1] /\ (l + 1) + 1 = l + 2
    BY <1>2, <1>4, <2>2
  <2> QED BY <1>2, <1>4, <1>5, <2>2, <2>3
<1>7. row # <<>>
  BY <1>4, <1>6, EmptySeq
<1> QED BY <1>2, <1>4, <1>6, <1>7 DEF start

\* The rows below a renamed directory get the paths their files get, and no other
\* row changes, but for names of several bytes a character and rows LIKE matches
\* by accident (rename_prefix).
THEOREM RenamesAreExact == Spec => []RenamesExactly
<1>1. call \in Calls => RenamesExactly
  <2> SUFFICES ASSUME call \in Calls, call.op = "rename"
               PROVE  RenamesLiterallyUnless(Row, call.from, To)
    BY DEF RenamesExactly
  <2> DEFINE S == Chars \cup {Slash, "%", "t"}
             from == call.from
  <2>1. from \in DirTexts /\ call.dir \in DirTexts /\ call.file \in [{1} -> Letters]
    BY DEF Calls
  <2>2. /\ from \in Seq(Chars) /\ Row \in Seq(Chars) /\ Row # <<>>
        /\ Row[1] \in Letters /\ Row[Len(Row)] \in Letters
    BY <2>1, RowTexts DEF Row
  <2>3. \A s \in Seq(Chars) : s \in Seq(S)
    <3> SUFFICES ASSUME NEW s \in Seq(Chars) PROVE s \in Seq(S)
      OBVIOUS
    <3>1. Len(s) \in Nat /\ s \in [1..Len(s) -> Chars]
      BY LenProperties
    <3>2. s \in [1..Len(s) -> S]
      BY <3>1
    <3> QED BY <3>1, <3>2, SeqDef
  <2>4. To \in Seq(S) /\ To # <<>> /\ To[1] = "t"
    BY DEF To
  <2>5. Row[1] # To[1] /\ Row[Len(Row)] # Slash
    BY <2>2, LettersAssumption
  <2>6. ASSUME StartsWith(Row, from \o <<Slash>>) PROVE Len(from) + 1 < Len(Row)
    <3> DEFINE l == Len(from)
               prefix == from \o <<Slash>>
    <3>1. <<Slash>> \in Seq(S) /\ Len(<<Slash>>) = 1 /\ <<Slash>>[1] = Slash /\ l \in Nat
          /\ from \in Seq(S)
      BY <2>2, <2>3, LenProperties
    <3>2. /\ prefix \in Seq(S) /\ Len(prefix) = l + Len(<<Slash>>)
          /\ \A i \in 1..Len(<<Slash>>) : prefix[l + i] = <<Slash>>[i]
      BY <3>1, Joined
    <3>3. Len(prefix) = l + 1 /\ prefix[l + 1] = Slash
      BY <3>1, <3>2
    <3>4. Len(prefix) <= Len(Row) /\ SubSeq(Row, 1, Len(prefix)) = prefix
      BY <2>6 DEF StartsWith
    <3>5. ASSUME l + 1 = Len(Row) PROVE FALSE
      <4>1. SubSeq(Row, 1, l + 1)[l + 1] = Row[l + 1]
        <5>1. \A i \in 1..(l + 1) : Row[i] \in Chars
          BY <2>2, <3>1, <3>5, ElementOfSeq
        <5>2. \A i \in 1..(l + 1) : SubSeq(Row, 1, l + 1)[i] = Row[i]
          BY <3>1, <5>1, SubSeqProperties
        <5> QED BY <3>1, <5>2
      <4> QED BY <2>5, <3>3, <3>4, <3>5, <4>1
    <3>6. Len(Row) \in Nat
      BY <2>2, LenProperties
    <3> QED BY <3>1, <3>3, <3>4, <3>5, <3>6
  <2>7. Chars \subseteq S /\ Slash \in S /\ "%" \in S /\ Row \in Seq(S)
    BY <2>2, <2>3
  <2> HIDE DEF S, from
  <2>8. RenamesLiterallyUnless(Row, from, To)
    BY <2>2, <2>4, <2>5, <2>6, <2>7, RenamesForAll
  <2> QED BY <2>8 DEF from
<1> QED BY <1>1, CallsStay, PTL
=============================================================================
