------------------------------ MODULE FadePolicy ------------------------------
(***************************************************************************)
(* Policies (src/policy.rs), the options of fade mount and the preview of  *)
(* fade check (src/cli.rs).  A segment of a path is a text of FadeDuration, *)
(* since folder names are TTLs; a glob pattern is a value, and Matches says *)
(* which paths it matches.                                                 *)
(***************************************************************************)
EXTENDS FadeDuration, Integers, Sequences

CONSTANTS
    Star,     \* the pattern "*": globset lets it match every path
    Matches   \* <<pattern, path>> pairs of the other patterns

\* An error is none of the answers.
ASSUME AnswersAssumption ==
    /\ Invalid \notin [recovery_window : Nat \cup {<<>>}, interval : Nat \cup {<<>>}]
    /\ Invalid \notin [ttl : Text, ttl_seconds : Nat \cup {Forever}]

\* RelativePath: the components a path is written with; "." is skipped, and
\* "..", a root or prefix and the reserved name are refused.
Component == {"name", "curdir", "parent", "root", "reserved"}

\* Mutant: only the first component is looked at.
RefusedFirst(components) ==
    components # <<>> /\ components[1] \in {"parent", "root", "reserved"}

Refused(components) ==
    \E i \in 1..Len(components) : components[i] \in {"parent", "root", "reserved"}

\* RelativePath::new, as the segments it keeps.
RelativePath(components) ==
    LET parts[n \in 0..Len(components)] ==
            IF n = 0 THEN <<>>
            ELSE IF components[n] = "name" THEN Append(parts[n - 1], components[n])
            ELSE parts[n - 1]
    IN IF Refused(components) THEN Invalid ELSE parts[Len(components)]

------------------------------------------------------------------------------
(* Developer mode.  A path is a sequence of segments, the last one the file. *)

IsTtl(segment) == ParseTtl(segment) # Invalid

\* Mutant: the farthest TTL folder.
DevAssignFarthest(path) ==
    LET folders == {i \in 1..(Len(path) - 1) : IsTtl(path[i])}
    IN IF folders = {} THEN Invalid ELSE ParseTtl(path[Min(folders)])

\* The nearest parent folder that is a TTL; the file's own name does not count.
DevAssign(path) ==
    LET folders == {i \in 1..(Len(path) - 1) : IsTtl(path[i])}
    IN IF folders = {} THEN Invalid ELSE ParseTtl(path[Max(folders)])

\* directory_visible of DevFuse and of the policy: the root, or what lies
\* below a folder of the root that is a TTL.
DevDirectoryVisible(path) == path = <<>> \/ IsTtl(path[1])

\* The check of mkdir: validate_root_directory in the root, the parent's
\* visibility below it.
DevMkdirAccepts(path) ==
    LET parent == SubSeq(path, 1, Len(path) - 1)
    IN IF parent = <<>> THEN IsTtl(path[1]) ELSE DevDirectoryVisible(parent)

\* The check of rename on the new path.
DevRenameAccepts(path) == DevDirectoryVisible(SubSeq(path, 1, Len(path) - 1))

------------------------------------------------------------------------------
(* Policy mode.  A configuration has rules, in order, and may set the window *)
(* and the interval of the reaper.                                           *)

MatchesPath(pattern, path) == pattern = Star \/ <<pattern, path>> \in Matches

\* Mutant: a fallback anywhere will do.
HasFallback(rules) == \E i \in 1..Len(rules) : rules[i].pattern = Star

\* The first "*" is the last rule.
FallbackIsLast(rules) ==
    /\ rules # <<>>
    /\ rules[Len(rules)].pattern = Star
    /\ \A i \in 1..(Len(rules) - 1) : rules[i].pattern # Star

\* An option of the file: absent, or a text that must parse.
Optional(value, allow_zero) ==
    IF value = <<>> THEN <<>> ELSE <<ParseDuration(value[1], allow_zero)>>

\* ConfigPolicy::load
Load(config) ==
    LET window == Optional(config.recovery_window, TRUE)
        interval == Optional(config.interval, FALSE)
        ttls == [i \in 1..Len(config.rules) |-> ParseTtl(config.rules[i].ttl)]
    IN IF /\ FallbackIsLast(config.rules)
          /\ window # <<Invalid>> /\ interval # <<Invalid>>
          /\ \A i \in 1..Len(config.rules) : ttls[i] # Invalid
         THEN [rules |-> [i \in 1..Len(config.rules) |->
                             [pattern |-> config.rules[i].pattern, ttl |-> ttls[i]]],
               recovery_window |-> window, interval |-> interval]
         ELSE Invalid

\* The first rule whose pattern matches.
ConfigAssign(policy, path) ==
    LET hits == {i \in 1..Len(policy.rules) : MatchesPath(policy.rules[i].pattern, path)}
    IN IF hits = {} THEN Invalid ELSE policy.rules[Min(hits)].ttl

\* fade check: the lifetime of a path, as it is printed and in seconds.
Check(config, path) ==
    LET policy == Load(config)
        ttl == ConfigAssign(policy, path)
    IN IF path = <<>> \/ policy = Invalid \/ ttl = Invalid THEN Invalid
       ELSE [ttl |-> TtlLabel(ttl), ttl_seconds |-> IF ttl = Forever THEN Forever ELSE Seconds(ttl)]

\* Mutant: the configuration's value goes before the flag.
MountDurationConfigFirst(given, configured, default) ==
    IF given = <<Invalid>> THEN Invalid
    ELSE IF configured # <<>> THEN configured[1]
    ELSE IF given # <<>> THEN given[1] ELSE default

\* mount_duration: the flag if there is one, else the configuration's value,
\* else the default.
MountDuration(given, configured, default) ==
    IF given # <<>> THEN given[1]
    ELSE IF configured # <<>> THEN configured[1] ELSE default

\* What fade mount starts with.  Policy mode takes a configuration and developer
\* mode refuses one: its policy sets neither option.  The defaults are one hour
\* and one minute.
MountOptions(mode, config, window_flag, interval_flag) ==
    LET policy == IF config = <<>> THEN [recovery_window |-> <<>>, interval |-> <<>>]
                  ELSE Load(config[1])
        window == MountDuration(Optional(window_flag, TRUE), policy.recovery_window, Hour)
        interval == MountDuration(Optional(interval_flag, FALSE), policy.interval, Minute)
    IN IF \/ (mode = "policy") # (config # <<>>)
          \/ policy = Invalid \/ Invalid \in {window, interval} THEN Invalid
       ELSE [recovery_window |-> window, interval |-> interval]

------------------------------------------------------------------------------
(* Properties of one call *)

\* Wherever mkdir lets a folder be made and lookup shows it, create can give a
\* file in it a lifetime: that of the nearest TTL folder above; and mkdir accepts
\* exactly the folders lookup shows.  In the root no file can be created.  rename
\* accepts what mkdir accepts and one thing more: in the root a name that is no
\* TTL, whose folder is then hidden.
DevConsistent(path) ==
    LET parent == SubSeq(path, 1, Len(path) - 1)
        near == {i \in 1..(Len(path) - 1) : IsTtl(path[i])}
    IN /\ DevMkdirAccepts(path) <=> DevDirectoryVisible(path)
       /\ DevRenameAccepts(path) <=>
            DevMkdirAccepts(path) \/ (parent = <<>> /\ ~DevDirectoryVisible(path))
       /\ DevDirectoryVisible(parent) /\ parent # <<>> => DevAssign(path) # Invalid
       /\ parent = <<>> => DevAssign(path) = Invalid
       /\ \A i \in near : (\A j \in near : j <= i) => DevAssign(path) = ParseTtl(path[i])

\* A configuration that loads gives every path but the root a lifetime, that of the
\* first rule that matches; no rule stands behind the fallback, where it could
\* never decide; no lifetime is zero; and what fade check prints of it reads back
\* as that lifetime, and its seconds are the same unless they are beyond i64.
LoadedIsTotal(config, path) ==
    Load(config) # Invalid /\ path # <<>> =>
        LET shown == Check(config, path)
            rule(i) == config.rules[i]
        IN /\ shown # Invalid /\ shown.ttl_seconds # 0
           /\ \E i \in DOMAIN config.rules :
                 /\ MatchesPath(rule(i).pattern, path)
                 /\ \A j \in 1..(i - 1) : ~MatchesPath(rule(j).pattern, path)
                 /\ ParseTtl(shown.ttl) = ParseTtl(rule(i).ttl)
           /\ \A i \in DOMAIN config.rules :
                 rule(i).pattern = Star => i = Len(config.rules)
           /\ \/ ParseTtl(shown.ttl) = shown.ttl_seconds
              \/ ParseTtl(shown.ttl) > I64Max /\ shown.ttl_seconds = I64Max

\* A written path that is accepted names a place the file system resolves inside
\* the backing directory and outside .fade: walking it never climbs above where it
\* starts, whatever stands before; and as many segments are kept as it is deep.
StaysInside(components) ==
    LET depth[n \in 0..Len(components)] ==
            IF n = 0 THEN 0
            ELSE CASE components[n] = "parent" -> depth[n - 1] - 1
                   [] components[n] = "curdir" -> depth[n - 1]
                   [] OTHER -> depth[n - 1] + 1
        kept == RelativePath(components)
    IN kept # Invalid =>
        /\ \A n \in 1..Len(components) :
              depth[n] >= 0 /\ components[n] \notin {"root", "reserved"}
        /\ Len(kept) = depth[Len(components)]

\* The options a mount starts with: what the command line says wins over the
\* configuration; a bad value on either side stops the mount, even one the other
\* would override; and no combination makes the reaper's interval zero, while a
\* zero window stays zero.
OptionsResolve(mode, config, window_flag, interval_flag) ==
    LET chosen == MountOptions(mode, config, window_flag, interval_flag)
        parsed(flag, zero) == flag # <<>> => ParseDuration(flag[1], zero) # Invalid
    IN /\ (chosen # Invalid) <=>
            /\ (mode = "policy") = (config # <<>>)
            /\ config # <<>> => Load(config[1]) # Invalid
            /\ parsed(window_flag, TRUE)
            /\ parsed(interval_flag, FALSE)
       /\ chosen # Invalid =>
            /\ chosen.interval > 0
            /\ window_flag # <<>> =>
                  chosen.recovery_window = ParseDuration(window_flag[1], TRUE)
            /\ interval_flag # <<>> =>
                  chosen.interval = ParseDuration(interval_flag[1], FALSE)
            /\ window_flag = <<>> /\ config # <<>> /\ config[1].recovery_window # <<>> =>
                  chosen.recovery_window = ParseDuration(config[1].recovery_window[1], TRUE)
=============================================================================
