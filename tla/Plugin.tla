------------------------------- MODULE Plugin -------------------------------
(* The orchestrator built from the plugin's settings (newOrchestrator), and the   *)
(* registry of extractors that decides its shape: a Learner when the configured   *)
(* name is registered, a Curator otherwise.  Settings are read one by one and     *)
(* set on the new orchestrator at once; a malformed integer ends the build.       *)
(* Extractors are registered meanwhile.                                        *)
(*                                                                            *)
(* A time.Duration is an integer of a fixed width that wraps around; the model    *)
(* counts it in hours and takes a smaller width.                                 *)
EXTENDS Integers, Sequences

CONSTANTS
  ExtractorNames,  \* names under which extractors are registered
  Extractors,      \* the extractors
  None,            \* no extractor; no value
  Bad,             \* a text that is not an integer
  IntValues,       \* integers the host sets
  HalfRange        \* a Duration is in -HalfRange .. HalfRange - 1, in hours

ASSUME PluginAssumption ==
  /\ IntValues \subseteq Int
  /\ HalfRange \in Nat \ {0}
  /\ None \notin Extractors \cup Int \cup {Bad}
  /\ {None, Bad} \cap {"yes", "off", "junk", "text", "all", "active", "stale"} = {}

VARIABLES
  registry,  \* extractors: an extractor, or None, under each name
  build,     \* newOrchestrator: none, reading, built or refused
  config,    \* the settings of the session
  extractor, \* the extractor it was given; None makes a Curator
  rest,      \* settings it has still to read, in order
  fields,    \* the fields of the new orchestrator, by setting
  failed     \* the setting its SettingError names

vars == <<registry, build, config, extractor, rest, fields, failed>>

DayWindows == {"stale-days", "archive-days", "promote-min-age-days"}
IntSettings == DayWindows \cup {"consolidate-every", "merge-min-nodes", "merge-max",
                                "idle-days", "idle-hours"}
BoolSettings == {"report-enabled", "raw-archive", "learned-skills"}
TextSettings == {"memory.project", "memory.agent", "merge-target", "report-prefix"}
Settings == IntSettings \cup BoolSettings \cup TextSettings

\* The settings each shape reads, in that order.
ScopeReads == <<"memory.project", "memory.agent">>
CuratorReads == ScopeReads \o <<"stale-days", "archive-days", "learned-skills">>
LearnerReadsNoQuiet ==
  ScopeReads \o <<"consolidate-every", "stale-days", "archive-days", "merge-min-nodes",
    "merge-max", "merge-target", "report-enabled", "report-prefix",
    "promote-min-age-days", "idle-days", "raw-archive", "learned-skills">>
LearnerReads ==
  ScopeReads \o <<"consolidate-every", "stale-days", "archive-days", "merge-min-nodes",
    "merge-max", "merge-target", "report-enabled", "report-prefix",
    "promote-min-age-days", "idle-days", "idle-hours", "raw-archive", "learned-skills">>

\* What a setting that is not set, or that is no word of a switch, stands for.
Default(s) == CASE s = "stale-days" -> 30
                [] s = "archive-days" -> 90
                [] s = "idle-hours" -> 2
                [] s \in IntSettings \ {"stale-days", "archive-days", "idle-hours"} -> 0
                [] s = "report-enabled" -> TRUE
                [] s \in {"raw-archive", "learned-skills"} -> FALSE
                [] s = "merge-target" -> "stale"
                [] s = "report-prefix" -> "reports/"
                [] s \in {"memory.project", "memory.agent"} -> None

\* What the host may set.
RawValues(s) == CASE s \in IntSettings -> IntValues \cup {Bad}
                  [] s \in BoolSettings -> {"yes", "off", "junk"}
                  [] s = "merge-target" -> {"all", "active", "junk"}
                  [] s \in TextSettings \ {"merge-target"} -> {"text"}

Nothing == [s \in Settings |-> None]

Init == /\ registry = [x \in ExtractorNames |-> None] /\ build = "none"
        /\ config = Nothing /\ extractor = None
        /\ rest = <<>> /\ fields = Nothing /\ failed = None

-----------------------------------------------------------------------------
(* Values. *)

\* Multiplying days into a Duration may wrap around: a window of very many days comes out
\* short, or disabled.
Wrapped(hours) == ((hours + HalfRange) % (2 * HalfRange)) - HalfRange

DaysDuration(n) == Wrapped(n * 24)

BoolIsFalseByDefault(v, def) == v = "yes"
BoolSetting(v, def) == CASE v = "yes" -> TRUE
                         [] v = "off" -> FALSE
                         [] v \notin {"yes", "off"} -> def

ParseMergeTarget(target) == IF target \in {"all", "active"} THEN target ELSE "stale"

CapAsGiven(n) == n
MergeMax(n) == IF n <= 0 THEN 40 ELSE n

\* The field a setting's value ends in.
Field(s, v) ==
  CASE s \in DayWindows -> DaysDuration(v)
    [] s = "merge-max" -> MergeMax(v)
    [] s = "merge-target" -> ParseMergeTarget(v)
    [] s \in BoolSettings -> BoolSetting(v, Default(s))
    [] s \in Settings \ (DayWindows \cup BoolSettings \cup {"merge-max", "merge-target"})
         -> v

-----------------------------------------------------------------------------
(* Actions. *)

\* A later registration replaces the earlier one; the extractor may be nil.
RegisterExtractor(x, e) ==
  /\ registry' = [registry EXCEPT ![x] = e]
  /\ UNCHANGED <<build, config, extractor, rest, fields, failed>>

\* newOrchestrator is called with the name of an extractor, if any, and the other
\* settings, and looks the extractor up.
NewOrchestrator(x, cfg) ==
  /\ build = "none"
  /\ build' = "reading" /\ config' = cfg
  /\ extractor' = IF x = None THEN None ELSE registry[x]
  /\ rest' = IF extractor' = None THEN CuratorReads ELSE LearnerReads
  /\ UNCHANGED <<registry, fields, failed>>

Malformed(s) == s \in IntSettings /\ config[s] = Bad

\* What a setting is read as: a switch that is not set has no word.
Given(s) == IF config[s] = None /\ s \notin BoolSettings THEN Default(s) ELSE config[s]

ReadSetting ==
  /\ build = "reading" /\ ~Malformed(Head(rest))
  /\ fields' = [fields EXCEPT ![Head(rest)] = Field(Head(rest), Given(Head(rest)))]
  /\ rest' = Tail(rest)
  /\ build' = IF rest' = <<>> THEN "built" ELSE "reading"
  /\ UNCHANGED <<registry, config, extractor, failed>>

\* The build ends: the host gets the error and no orchestrator.
RefuseSetting ==
  /\ build = "reading" /\ Malformed(Head(rest))
  /\ build' = "refused" /\ failed' = Head(rest)
  /\ rest' = <<>> /\ fields' = Nothing
  /\ UNCHANGED <<registry, config, extractor>>

Next == \/ \E x \in ExtractorNames, e \in Extractors \cup {None} : RegisterExtractor(x, e)
        \* Bound: the host sets at most two settings.
        \/ \E x \in ExtractorNames \cup {None}, s, t \in Settings :
             \E v \in RawValues(s), w \in RawValues(t) :
               NewOrchestrator(x, [Nothing EXCEPT ![s] = v, ![t] = w])
        \/ ReadSetting
        \/ RefuseSetting

Spec == Init /\ [][Next]_vars

-----------------------------------------------------------------------------
(* Properties. *)

Durations == -HalfRange .. HalfRange - 1

FieldType(s) == CASE s \in DayWindows -> Durations
                  [] s = "merge-max" -> Nat \ {0}
                  [] s \in IntSettings \ (DayWindows \cup {"merge-max"}) -> Int
                  [] s \in BoolSettings -> BOOLEAN
                  [] s = "merge-target" -> {"all", "active", "stale"}
                  [] s \in TextSettings \ {"merge-target"} -> {"text", "reports/"}

TypeOK ==
  /\ registry \in [ExtractorNames -> Extractors \cup {None}]
  /\ build \in {"none", "reading", "built", "refused"}
  /\ extractor \in Extractors \cup {None}
  /\ DOMAIN config = Settings /\ DOMAIN fields = Settings
  /\ \A s \in Settings : config[s] = None \/ config[s] \in RawValues(s)
  /\ \A s \in Settings : fields[s] = None \/ fields[s] \in FieldType(s)
  /\ rest \in Seq(Settings)
  /\ failed \in IntSettings \cup {None}

\* The settings a shape is documented to honour (README.md:63 and the help texts of
\* register.go:26-39): the Curator has its two windows and the skills switch.
Honoured == IF extractor = None
            THEN {"memory.project", "memory.agent", "stale-days", "archive-days",
                  "learned-skills"}
            ELSE Settings

\* A build fails exactly on a malformed integer its shape honours, the error names one
\* that is malformed, and a Curator does not fail on a setting only a Learner honours
\* (register.go:69-79 and 113-181; TestNewOrchestratorRefusesAnInvalidIdleHours).
RefusesWhatItHonours ==
  /\ failed # None => failed \in Honoured /\ config[failed] = Bad
  /\ build = "built" => \A s \in Honoured : config[s] # Bad

\* Nothing a user sets is lost on the way to the orchestrator, and nothing unusable
\* changes what it does: a switch is off its default only by its own word, every other
\* honoured setting that is set arrives (register.go:85-94, 113-181 and merge.go:39-57;
\* TestReportAndRawArchiveSettingsKeepTheirOwnDefaultWhenUnusable).
SettingsArrive ==
  build = "built" => \A s \in Honoured :
    /\ s \in {"raw-archive", "learned-skills"} => fields[s] = (config[s] = "yes")
    /\ s = "report-enabled" => fields[s] = (config[s] # "off")
    /\ config[s] # None /\ s \notin BoolSettings => fields[s] # None
    /\ s \in {"consolidate-every", "merge-min-nodes", "idle-days", "idle-hours"}
         /\ config[s] # None => fields[s] = config[s]
    /\ s = "merge-target" =>
         fields[s] = IF config[s] \in {"all", "active"} THEN config[s] ELSE "stale"

-----------------------------------------------------------------------------
(* What the properties rest on. *)

StillToRead == {rest[i] : i \in DOMAIN rest}

\* A build in progress has a setting left, one that its shape honours.
ReadsLeft == /\ rest = <<>> <=> build # "reading"
             /\ StillToRead \subseteq Honoured

\* A field is set once its setting is read, and to what the setting stands for.
FieldsOfRead ==
  /\ build \in {"reading", "built"} =>
       \A s \in Honoured \ StillToRead : ~Malformed(s) /\ fields[s] = Field(s, Given(s))
  /\ \A s \in Settings : fields[s] # None =>
       ~Malformed(s) /\ fields[s] = Field(s, Given(s))

\* Before the build there is nothing.
NothingBefore == build = "none" => config = Nothing /\ fields = Nothing /\ failed = None

Inv == TypeOK /\ ReadsLeft /\ FieldsOfRead /\ NothingBefore /\ RefusesWhatItHonours
=============================================================================
