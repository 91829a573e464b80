-------------------------------- MODULE MCData --------------------------------
(***************************************************************************)
(* The parts of Fade that keep no state between calls, FadeDuration,       *)
(* FadePolicy, FadePrefix and FadeStatus, on all inputs of small sets: an  *)
(* initial state is a call, a step its answer.                             *)
(***************************************************************************)
EXTENDS FadePolicy, FadePrefix, FadeStatus

CONSTANTS
    MaxRules,   \* bound: the rules of a configuration
    MaxDepth,   \* bound: the segments of a path
    MaxName,    \* bound: the characters of a name
    Letters     \* the characters of a name

ASSUME BoundsAssumption == {MaxRules, MaxDepth, MaxName} \subseteq Nat

VARIABLES call, answer

------------------------------------------------------------------------------
(* Constants *)

\* The one pattern that is not "*" matches one path.
DataMatches == {<<"tmp", <<[before |-> "other", value |-> 0, last |-> "other"]>> >>}

\* e is a letter of two bytes; A is a in upper case.
DataWidth == [c \in {"a", "A", "_", "%", "e", "/"} |-> IF c = "e" THEN 2 ELSE 1]
DataLower == [c \in DOMAIN DataWidth |-> IF c = "A" THEN "a" ELSE c]

\* The destination of a rename: a name no row has.
To == <<"t">>

ASSUME LettersAssumption ==
    /\ Letters \cup {Slash} \subseteq Chars
    /\ Letters \cap {Slash, To[1]} = {}

------------------------------------------------------------------------------
(* Inputs *)

\* Every number up to one u64 cannot hold, with every last character, and the
\* texts that are no number and a unit.
Texts ==
    [before : {"digits"}, value : 0..(U64Max + 1), last : Units \cup {"other"}]
        \cup [before : {"nothing", "other"}, value : {0}, last : Units \cup {"other", "nothing"}]
        \cup {ForeverText, ZeroText}

\* Segments: a TTL, the largest one, "forever", a zero, a word.
Segments == {Label(1, "m"), Label(U64Max, "s"), ForeverText, Label(0, "s"),
             [before |-> "other", value |-> 0, last |-> "other"]}

UpTo(S, n) == UNION {[1..k -> S] : k \in 0..n}

Rules == [pattern : {Star, "tmp"}, ttl : Segments]
Options == {<<>>, <<ZeroText>>, <<Label(0, "s")>>, <<Label(2, "m")>>}
Configs == [rules : UpTo(Rules, MaxRules), recovery_window : Options, interval : Options]

\* The configurations of a mount differ in what a mount reads of them.
MountConfigs == [rules : {<<>>, <<[pattern |-> Star, ttl |-> ForeverText]>>},
                 recovery_window : Options, interval : Options]

NameTexts == UNION {[1..k -> Letters] : k \in 1..MaxName}
DirTexts == NameTexts \cup {<<a, Slash, b>> : a \in Letters, b \in Letters}

\* Rows with an expiry before, at and after the instant of fade status, 2.
StatusNow == 2
StatusRows ==
    {[expires_at |-> e, deadline |-> e + w] : e \in 1..3, w \in 0..2}
        \cup {[expires_at |-> Never, deadline |-> Never]}

Calls ==
    [op : {"parse"}, text : Texts, allow_zero : BOOLEAN]
      \cup [op : {"record"}, ttl : (1..U64Max) \cup {Forever}, window : {0, 1, I64Max, U64Max},
            now : {0, 1, I64Max - 2, I64Max}]
      \cup [op : {"path"}, components : UpTo(Component, MaxDepth)]
      \cup [op : {"folder"}, path : UpTo(Segments, MaxDepth) \ {<<>>}]
      \cup [op : {"check"}, config : Configs, path : UpTo(Segments, 1)]
      \cup [op : {"mount"}, mode : {"dev", "policy"}, config : {<<>>} \cup {<<c>> : c \in MountConfigs},
            window_flag : Options, interval_flag : Options]
      \cup [op : {"rename"}, from : DirTexts, dir : DirTexts, file : [{1} -> Letters]]
      \cup UNION {[op : {"status"}, row : {r}, moves : Histories(r, StatusNow)] : r \in StatusRows}

Row == call.dir \o <<Slash>> \o call.file

------------------------------------------------------------------------------
Evaluate ==
    CASE call.op = "parse"  -> ParseDuration(call.text, call.allow_zero)
      [] call.op = "record" -> Record(call.ttl, call.window, call.now)
      [] call.op = "path"   -> RelativePath(call.components)
      [] call.op = "folder" -> DevAssign(call.path)
      [] call.op = "check"  -> Check(call.config, call.path)
      [] call.op = "mount"  -> MountOptions(call.mode, call.config, call.window_flag, call.interval_flag)
      [] call.op = "rename" -> RenamePrefix(Row, call.from, To)
      [] call.op = "status" -> Stats(call.row, call.moves, StatusNow)

Init == call \in Calls /\ answer = <<>>

Next ==
    /\ answer = <<>>
    /\ answer' = <<Evaluate>>
    /\ UNCHANGED call

Spec == Init /\ [][Next]_<<call, answer>>

------------------------------------------------------------------------------
(* Properties *)

\* Durations read as written, never as a product that wrapped, and print as what
\* reads back (parse_duration, format_duration).
DurationsFaithful == call.op = "parse" => Faithful(call.text, call.allow_zero)

\* A record's instants are the exact sums, or there is no record
\* (FileRecord::new, Ttl::expires_at).
InstantsExact == call.op = "record" => ExactInstants(call.ttl, call.window, call.now)

\* A path that is accepted stays inside the backing directory (RelativePath::new).
PathsInside == call.op = "path" => StaysInside(call.components)

\* mkdir, lookup and create agree on the folders of developer mode
\* (validate_root_directory, directory_visible, DevPolicy::assign_file).
FoldersConsistent == call.op = "folder" => DevConsistent(call.path)

\* A configuration that loads decides every path, and fade check prints what was
\* decided (ConfigPolicy::load, assign_file, check).
ConfigsTotal == call.op = "check" => LoadedIsTotal(call.config, call.path)

\* Flags, configuration and defaults resolve as documented (mount_duration).
OptionsResolved ==
    call.op = "mount" => OptionsResolve(call.mode, call.config, call.window_flag, call.interval_flag)

\* fade status counts every file once but for those that move while it reads
\* (status, stats).
StatusAccounts == call.op = "status" => StatsAccount(call.row, call.moves, StatusNow)

\* rename_prefix is literal but for names of several bytes a character and rows
\* LIKE matches by accident.
RenamesExactly == call.op = "rename" => RenamesLiterallyUnless(Row, call.from, To)

\* The paths of rows after rename_prefix are those of their files (test
\* renames_directory_prefix_records).
RenamesLiteral ==
    call.op = "rename" /\ answer # <<>> => answer[1] = RenameBelow(Row, call.from, To)
=============================================================================
