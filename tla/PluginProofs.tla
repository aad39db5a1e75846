---------------------------- MODULE PluginProofs ----------------------------
(* Proofs about module Plugin, for every set of names, extractors and integers    *)
(* and every width of a Duration: the inductive invariant, and with it all the    *)
(* properties of the module.                                                     *)
EXTENDS Plugin, TLAPS

-----------------------------------------------------------------------------
(* Durations that wrap. *)

\* Wrapping around gives a Duration.
LEMMA WrappedFacts == ASSUME NEW hours \in Int
                      PROVE  Wrapped(hours) \in Durations
<1> DEFINE r == (hours + HalfRange) % (2 * HalfRange)
<1>1. 2 * HalfRange \in Nat \ {0} /\ HalfRange \in Nat
  BY PluginAssumption
<1>2. r \in 0..(2 * HalfRange - 1)
  BY <1>1
<1> HIDE DEF r
<1>3. Wrapped(hours) = r - HalfRange
  BY DEF Wrapped, r
<1> QED
  BY <1>1, <1>2, <1>3 DEF Durations

-----------------------------------------------------------------------------
(* Settings and fields. *)

\* A setting's default, or the value the host has set.
ValueOf(s, v) == v = Default(s) \/ v \in RawValues(s) \ {Bad}

\* The integers a setting stands for.
LEMMA IntegerValue ==
  ASSUME NEW s \in IntSettings, NEW v, ValueOf(s, v)
  PROVE  v \in Int
<1>1. Default(s) \in Int
  <2>1. /\ s = "stale-days" => Default(s) = 30
        /\ s = "archive-days" => Default(s) = 90
        /\ s = "idle-hours" => Default(s) = 2
    BY DEF Default, IntSettings, DayWindows, BoolSettings
  <2>2. s \notin {"stale-days", "archive-days", "idle-hours"} => Default(s) = 0
    BY DEF Default, IntSettings, DayWindows, BoolSettings
  <2> QED
    BY <2>1, <2>2
<1>2. RawValues(s) = IntValues \cup {Bad}
  BY DEF RawValues, IntSettings, BoolSettings, TextSettings, DayWindows
<1> QED
  BY <1>1, <1>2, PluginAssumption DEF ValueOf

\* What the value of an integer setting becomes.
LEMMA IntegerField ==
  ASSUME NEW s \in IntSettings, NEW v \in Int
  PROVE  /\ Field(s, v) \in FieldType(s) /\ Field(s, v) \in Int
         /\ s \notin DayWindows \cup {"merge-max"} => Field(s, v) = v
<1>1. CASE s \in DayWindows
  <2>1. Field(s, v) = DaysDuration(v) /\ FieldType(s) = Durations
    BY <1>1 DEF Field, FieldType, DayWindows, IntSettings, BoolSettings, TextSettings
  <2>2. v * 24 \in Int
    OBVIOUS
  <2>3. Field(s, v) = Wrapped(v * 24) /\ Wrapped(v * 24) \in Durations
    BY <2>1, <2>2, WrappedFacts DEF DaysDuration
  <2>4. Durations \subseteq Int
    BY DEF Durations
  <2> QED
    BY <1>1, <2>1, <2>3, <2>4
<1>2. CASE s = "merge-max"
  <2>1. Field(s, v) = MergeMax(v) /\ FieldType(s) = Nat \ {0} /\ s \notin DayWindows
    BY <1>2 DEF Field, FieldType, DayWindows, IntSettings, BoolSettings, TextSettings
  <2>2. MergeMax(v) \in Nat \ {0}
    BY DEF MergeMax
  <2> QED
    BY <1>2, <2>1, <2>2
<1>3. CASE s \notin DayWindows \cup {"merge-max"}
  <2>1. Field(s, v) = v /\ FieldType(s) = Int
    BY <1>3 DEF Field, FieldType, DayWindows, IntSettings, BoolSettings, TextSettings, Settings
  <2> QED
    BY <1>3, <2>1
<1> QED
  BY <1>1, <1>2, <1>3

\* What a switch becomes.
LEMMA SwitchField ==
  ASSUME NEW s \in BoolSettings, NEW v
  PROVE  /\ Field(s, v) \in FieldType(s)
         /\ s = "report-enabled" => Field(s, v) = (v # "off")
         /\ s \in {"raw-archive", "learned-skills"} => Field(s, v) = (v = "yes")
<1>1. Field(s, v) = BoolSetting(v, Default(s)) /\ FieldType(s) = BOOLEAN
  BY DEF Field, FieldType, DayWindows, IntSettings, BoolSettings, TextSettings
<1>2. Default(s) = (s = "report-enabled")
  BY DEF Default, BoolSettings, IntSettings, DayWindows
<1>3. BoolSetting(v, Default(s)) = IF v = "yes" THEN TRUE ELSE IF v = "off" THEN FALSE
                                   ELSE Default(s)
  BY DEF BoolSetting
<1> QED
  BY <1>1, <1>2, <1>3 DEF BoolSettings

\* What a text becomes.
LEMMA TextField ==
  ASSUME NEW s \in TextSettings, NEW v, ValueOf(s, v)
  PROVE  /\ Field(s, v) \in FieldType(s) \cup {None}
         /\ v \in RawValues(s) => Field(s, v) # None
         /\ s = "merge-target" =>
              Field(s, v) = IF v \in {"all", "active"} THEN v ELSE "stale"
<1>1. CASE s = "merge-target"
  <2>1. Field(s, v) = ParseMergeTarget(v) /\ FieldType(s) = {"all", "active", "stale"}
    BY <1>1 DEF Field, FieldType, DayWindows, IntSettings, BoolSettings, TextSettings
  <2>2. Field(s, v) = IF v \in {"all", "active"} THEN v ELSE "stale"
    BY <2>1 DEF ParseMergeTarget
  <2>3. Field(s, v) \in {"all", "active", "stale"}
    BY <2>2
  <2>4. None \notin {"all", "active", "stale"}
    BY PluginAssumption
  <2> QED
    BY <1>1, <2>1, <2>2, <2>3, <2>4
<1>2. CASE s # "merge-target"
  <2>1. Field(s, v) = v /\ FieldType(s) = {"text", "reports/"} /\ RawValues(s) = {"text"}
    BY <1>2 DEF Field, FieldType, RawValues, DayWindows, IntSettings, BoolSettings,
                TextSettings, Settings
  <2>2. Default(s) \in {"reports/", None}
    BY <1>2 DEF Default, DayWindows, IntSettings, BoolSettings, TextSettings
  <2>3. "text" # None
    BY PluginAssumption
  <2>4. v \in RawValues(s) => v = "text"
    BY <2>1
  <2>5. v \in {"text", "reports/", None}
    BY <2>1, <2>2 DEF ValueOf
  <2> QED
    BY <1>2, <2>1, <2>3, <2>4, <2>5
<1> QED
  BY <1>1, <1>2

-----------------------------------------------------------------------------
(* The settings a shape reads. *)

\* They are the settings it is documented to honour.
LEMMA ReadsFacts ==
  /\ CuratorReads \in Seq(Settings) /\ CuratorReads # <<>>
  /\ {CuratorReads[i] : i \in DOMAIN CuratorReads} =
       {"memory.project", "memory.agent", "stale-days", "archive-days", "learned-skills"}
  /\ LearnerReads \in Seq(Settings) /\ LearnerReads # <<>>
  /\ {LearnerReads[i] : i \in DOMAIN LearnerReads} = Settings
<1> DEFINE learner ==
      <<"memory.project", "memory.agent", "consolidate-every", "stale-days",
        "archive-days", "merge-min-nodes", "merge-max", "merge-target",
        "report-enabled", "report-prefix", "promote-min-age-days", "idle-days",
        "idle-hours", "raw-archive", "learned-skills">>
           curator ==
      <<"memory.project", "memory.agent", "stale-days", "archive-days",
        "learned-skills">>
<1>1. curator = CuratorReads
  BY DEF CuratorReads, ScopeReads
<1>2. learner = LearnerReads
  BY DEF LearnerReads, ScopeReads
<1>3. /\ curator \in Seq(Settings) /\ curator # <<>>
      /\ {curator[i] : i \in DOMAIN curator} =
           {"memory.project", "memory.agent", "stale-days", "archive-days",
            "learned-skills"}
  BY DEF Settings, IntSettings, DayWindows, BoolSettings, TextSettings
<1>4. learner \in Seq(Settings) /\ learner # <<>>
  BY DEF Settings, IntSettings, DayWindows, BoolSettings, TextSettings
<1>5. \A s \in Settings : \E i \in 1..15 : s = learner[i]
  BY DEF Settings, IntSettings, DayWindows, BoolSettings, TextSettings
<1>6. DOMAIN learner = 1..15
  OBVIOUS
<1> HIDE DEF learner, curator
<1>7. \A i \in DOMAIN learner : learner[i] \in Settings
  BY <1>4
<1>8. {learner[i] : i \in DOMAIN learner} = Settings
  BY <1>5, <1>6, <1>7
<1> QED
  BY <1>1, <1>2, <1>3, <1>4, <1>8

\* The first setting of a list, and those behind it.
LEMMA HeadFacts ==
  ASSUME NEW S, NEW seq \in Seq(S), seq # <<>>
  PROVE  /\ Head(seq) \in S /\ Tail(seq) \in Seq(S)
         /\ Head(seq) \in {seq[i] : i \in DOMAIN seq}
         /\ \A x \in {seq[i] : i \in DOMAIN seq} :
              x = Head(seq) \/ x \in {Tail(seq)[i] : i \in DOMAIN Tail(seq)}
         /\ \A x \in {Tail(seq)[i] : i \in DOMAIN Tail(seq)} :
              x \in {seq[i] : i \in DOMAIN seq}
<1>1. /\ Len(seq) \in Nat /\ Len(seq) >= 1 /\ DOMAIN seq = 1..Len(seq)
      /\ Tail(seq) \in Seq(S) /\ Len(Tail(seq)) = Len(seq) - 1
      /\ DOMAIN Tail(seq) = 1..(Len(seq) - 1)
      /\ Head(seq) = seq[1] /\ seq[1] \in S
  OBVIOUS
<1>2. \A i \in 1..(Len(seq) - 1) : Tail(seq)[i] = seq[i + 1]
  OBVIOUS
<1>3. ASSUME NEW i \in DOMAIN seq, i # 1
      PROVE  i - 1 \in DOMAIN Tail(seq) /\ Tail(seq)[i - 1] = seq[i]
  BY <1>1, <1>2, <1>3
<1>4. ASSUME NEW i \in DOMAIN Tail(seq)
      PROVE  i + 1 \in DOMAIN seq /\ Tail(seq)[i] = seq[i + 1]
  BY <1>1, <1>2, <1>4
<1>5. 1 \in DOMAIN seq
  BY <1>1
<1> QED
  BY <1>1, <1>3, <1>4, <1>5

-----------------------------------------------------------------------------
(* The invariant. *)

\* A well-formed setting stands for its default or for what the host has set.
LEMMA GivenFacts ==
  ASSUME TypeOK, NEW s \in Settings, ~Malformed(s)
  PROVE  /\ config[s] \in RawValues(s) \cup {None} /\ config[s] # Bad
         /\ s \notin BoolSettings => ValueOf(s, Given(s))
         /\ s \in BoolSettings => Given(s) = config[s]
<1>1. config[s] = None \/ config[s] \in RawValues(s)
  BY DEF TypeOK
<1>2. config[s] # Bad
  <2>1. CASE s \in IntSettings
    BY <2>1 DEF Malformed
  <2>2. CASE s \in BoolSettings \ IntSettings
    <3>1. RawValues(s) = {"yes", "off", "junk"}
      BY <2>2 DEF RawValues, BoolSettings, IntSettings, TextSettings, DayWindows
    <3> QED
      BY <1>1, <3>1, PluginAssumption
  <2>3. CASE s = "merge-target"
    <3>1. RawValues(s) = {"all", "active", "junk"}
      BY <2>3 DEF RawValues, BoolSettings, IntSettings, TextSettings, DayWindows
    <3> QED
      BY <1>1, <3>1, PluginAssumption
  <2>4. CASE s \in TextSettings \ {"merge-target"}
    <3>1. RawValues(s) = {"text"}
      BY <2>4 DEF RawValues, BoolSettings, IntSettings, TextSettings, DayWindows
    <3> QED
      BY <1>1, <3>1, PluginAssumption
  <2> QED
    BY <2>1, <2>2, <2>3, <2>4 DEF Settings
<1> QED
  BY <1>1, <1>2 DEF Given, ValueOf

\* The field of a well-formed setting.
LEMMA FieldGiven ==
  ASSUME TypeOK, NEW s \in Settings, ~Malformed(s)
  PROVE  Field(s, Given(s)) \in FieldType(s) \cup {None}
<1>1. CASE s \in IntSettings
  <2>1. s \notin BoolSettings
    BY <1>1 DEF IntSettings, DayWindows, BoolSettings
  <2> QED
    BY <1>1, <2>1, GivenFacts, IntegerValue, IntegerField
<1>2. CASE s \in BoolSettings
  BY <1>2, SwitchField
<1>3. CASE s \in TextSettings
  <2>1. s \notin BoolSettings
    BY <1>3 DEF TextSettings, BoolSettings
  <2> QED
    BY <1>3, <2>1, GivenFacts, TextField
<1> QED
  BY <1>1, <1>2, <1>3 DEF Settings

\* At first nothing is registered, set or built.
LEMMA InitInv == Init => Inv
<1> SUFFICES ASSUME Init PROVE Inv
  OBVIOUS
<1>1. TypeOK
  <2>1. <<>> \in Seq(Settings)
    OBVIOUS
  <2> QED
    BY <2>1 DEF Init, TypeOK, Nothing
<1>2. ReadsLeft /\ NothingBefore /\ RefusesWhatItHonours
  BY DEF Init, ReadsLeft, StillToRead, NothingBefore, RefusesWhatItHonours
<1>3. FieldsOfRead
  BY DEF Init, FieldsOfRead, Nothing
<1> QED
  BY <1>1, <1>2, <1>3 DEF Inv

\* A registration disturbs nothing of a build.
LEMMA RegisterInv ==
  ASSUME Inv, NEW x \in ExtractorNames, NEW e \in Extractors \cup {None},
         RegisterExtractor(x, e)
  PROVE  Inv'
<1>1. UNCHANGED <<build, config, extractor, rest, fields, failed>>
  BY DEF RegisterExtractor
<1>2. TypeOK'
  BY <1>1 DEF Inv, TypeOK, RegisterExtractor
<1>3. (ReadsLeft /\ NothingBefore /\ RefusesWhatItHonours)'
  BY <1>1 DEF Inv, ReadsLeft, StillToRead, NothingBefore, RefusesWhatItHonours, Honoured
<1>4. FieldsOfRead'
  BY <1>1 DEF Inv, FieldsOfRead, StillToRead, Honoured, Malformed, Given
<1> QED
  BY <1>2, <1>3, <1>4 DEF Inv

\* A build begins with the settings of its shape, all unread.
LEMMA BeginInv ==
  ASSUME Inv, NEW x \in ExtractorNames \cup {None}, NEW s \in Settings, NEW t \in Settings,
         NEW v \in RawValues(s), NEW w \in RawValues(t),
         NewOrchestrator(x, [Nothing EXCEPT ![s] = v, ![t] = w])
  PROVE  Inv'
<1>1. /\ build = "none" /\ build' = "reading"
      /\ config' = [Nothing EXCEPT ![s] = v, ![t] = w]
      /\ rest' = IF extractor' = None THEN CuratorReads ELSE LearnerReads
      /\ UNCHANGED <<registry, fields, failed>>
  BY DEF NewOrchestrator
<1>2. extractor' \in Extractors \cup {None}
  BY DEF NewOrchestrator, Inv, TypeOK
<1>3. fields = Nothing /\ failed = None
  BY <1>1 DEF Inv, NothingBefore
<1>4. /\ DOMAIN config' = Settings
      /\ \A r \in Settings : config'[r] = None \/ config'[r] \in RawValues(r)
  BY <1>1 DEF Nothing
<1>5. /\ rest' \in Seq(Settings) /\ rest' # <<>>
      /\ {rest'[i] : i \in DOMAIN rest'} = Honoured'
  BY <1>1, ReadsFacts DEF Honoured
<1>6. TypeOK'
  BY <1>1, <1>2, <1>4, <1>5 DEF Inv, TypeOK
<1>7. (ReadsLeft /\ NothingBefore)'
  BY <1>1, <1>5 DEF ReadsLeft, StillToRead, NothingBefore
<1>8. FieldsOfRead'
  BY <1>1, <1>3, <1>5 DEF FieldsOfRead, StillToRead, Nothing
<1>9. RefusesWhatItHonours'
  BY <1>1, <1>3 DEF RefusesWhatItHonours
<1> QED
  BY <1>6, <1>7, <1>8, <1>9 DEF Inv

\* A setting that is read becomes the field it stands for.
LEMMA ReadInv == ASSUME Inv, ReadSetting PROVE Inv'
<1> DEFINE s == Head(rest)
<1>1. /\ build = "reading" /\ ~Malformed(s)
      /\ fields' = [fields EXCEPT ![s] = Field(s, Given(s))]
      /\ rest' = Tail(rest)
      /\ build' = IF rest' = <<>> THEN "built" ELSE "reading"
      /\ UNCHANGED <<registry, config, extractor, failed>>
  BY DEF ReadSetting
<1>2. /\ rest \in Seq(Settings) /\ rest # <<>>
      /\ DOMAIN fields = Settings /\ StillToRead \subseteq Honoured
  BY <1>1 DEF Inv, TypeOK, ReadsLeft
<1>3. /\ s \in Settings /\ rest' \in Seq(Settings) /\ s \in StillToRead
      /\ \A r \in StillToRead : r = s \/ r \in StillToRead'
      /\ StillToRead' \subseteq StillToRead
  BY <1>1, <1>2, HeadFacts DEF StillToRead
<1> HIDE DEF s
<1>4. /\ DOMAIN fields' = Settings /\ fields'[s] = Field(s, Given(s))
      /\ \A r \in Settings \ {s} : fields'[r] = fields[r]
  BY <1>1, <1>2, <1>3
<1>5. /\ Honoured' = Honoured
      /\ \A r \in Settings : Malformed(r)' = Malformed(r) /\ Given(r)' = Given(r)
  BY <1>1 DEF Honoured, Malformed, Given
<1>6. TypeOK'
  <2>1. fields'[s] \in FieldType(s) \cup {None}
    BY <1>1, <1>3, <1>4, FieldGiven DEF Inv
  <2>2. \A r \in Settings : fields'[r] = None \/ fields'[r] \in FieldType(r)
    BY <1>4, <2>1 DEF Inv, TypeOK
  <2> QED
    BY <1>1, <1>3, <1>4, <2>2 DEF Inv, TypeOK
<1>7. (ReadsLeft /\ NothingBefore)'
  BY <1>1, <1>2, <1>3, <1>5 DEF ReadsLeft, NothingBefore
<1>8. \A r \in Honoured \ StillToRead' : ~Malformed(r) /\ fields'[r] = Field(r, Given(r))
  <2>1. Honoured \subseteq Settings
    BY DEF Honoured, Settings, IntSettings, DayWindows, BoolSettings, TextSettings
  <2> SUFFICES ASSUME NEW r \in Honoured \ StillToRead'
               PROVE  ~Malformed(r) /\ fields'[r] = Field(r, Given(r))
    OBVIOUS
  <2>2. CASE r = s
    BY <1>1, <1>4, <2>2
  <2>3. CASE r # s
    <3>1. r \in Honoured \ StillToRead /\ r \in Settings
      BY <1>3, <2>1, <2>3
    <3> QED
      BY <1>1, <1>4, <2>3, <3>1 DEF Inv, FieldsOfRead
  <2> QED
    BY <2>2, <2>3
<1>9. FieldsOfRead'
  <2>1. \A r \in Settings : fields'[r] # None =>
          ~Malformed(r)' /\ fields'[r] = Field(r, Given(r)')
    BY <1>1, <1>4, <1>5 DEF Inv, FieldsOfRead
  <2>2. \A r \in Honoured' \ StillToRead' : ~Malformed(r)' /\ fields'[r] = Field(r, Given(r)')
    <3>1. Honoured \subseteq Settings
      BY DEF Honoured, Settings, IntSettings, DayWindows, BoolSettings, TextSettings
    <3> QED
      BY <1>5, <1>8, <3>1
  <2> QED
    BY <2>1, <2>2 DEF FieldsOfRead
<1>10. RefusesWhatItHonours'
  <2>1. failed' # None => failed' \in Honoured' /\ config'[failed'] = Bad
    BY <1>1, <1>5 DEF Inv, RefusesWhatItHonours
  <2>2. ASSUME build' = "built", NEW r \in Honoured PROVE config[r] # Bad
    <3>1. rest' = <<>>
      BY <1>1, <2>2
    <3>2. StillToRead' = {}
      BY <3>1 DEF StillToRead
    <3>3. ~Malformed(r) /\ r \in Settings
      BY <1>8, <3>2 DEF Honoured, Settings, IntSettings, DayWindows, BoolSettings, TextSettings
    <3> QED
      BY <3>3, GivenFacts DEF Inv
  <2> QED
    BY <1>1, <1>5, <2>1, <2>2 DEF RefusesWhatItHonours
<1> QED
  BY <1>6, <1>7, <1>9, <1>10 DEF Inv

\* A malformed setting ends the build with nothing.
LEMMA RefuseInv == ASSUME Inv, RefuseSetting PROVE Inv'
<1> DEFINE s == Head(rest)
<1>1. /\ build = "reading" /\ Malformed(s) /\ build' = "refused" /\ failed' = s
      /\ rest' = <<>> /\ fields' = Nothing
      /\ UNCHANGED <<registry, config, extractor>>
  BY DEF RefuseSetting
<1>2. rest \in Seq(Settings) /\ rest # <<>> /\ StillToRead \subseteq Honoured
  BY <1>1 DEF Inv, TypeOK, ReadsLeft
<1>3. s \in StillToRead
  BY <1>2, HeadFacts DEF StillToRead
<1> HIDE DEF s
<1>4. s \in IntSettings /\ s \in Honoured /\ config[s] = Bad
  BY <1>1, <1>2, <1>3 DEF Malformed
<1>5. TypeOK'
  <2>1. <<>> \in Seq(Settings)
    OBVIOUS
  <2> QED
    BY <1>1, <1>4, <2>1 DEF Inv, TypeOK, Nothing
<1>6. (ReadsLeft /\ NothingBefore)'
  BY <1>1 DEF ReadsLeft, StillToRead, NothingBefore
<1>7. FieldsOfRead'
  BY <1>1 DEF FieldsOfRead, Nothing
<1>8. RefusesWhatItHonours'
  BY <1>1, <1>4 DEF RefusesWhatItHonours, Honoured
<1> QED
  BY <1>5, <1>6, <1>7, <1>8 DEF Inv

\* What a build rests on: settings read in order, each field what its setting stands
\* for, nothing kept of a build that was refused (register.go:113-181).
THEOREM PluginInvariant == Spec => []Inv
<1>1. Inv /\ [Next]_vars => Inv'
  <2> SUFFICES ASSUME Inv, [Next]_vars PROVE Inv'
    OBVIOUS
  <2>1. CASE UNCHANGED vars
    BY <2>1 DEF vars, Inv, TypeOK, ReadsLeft, StillToRead, NothingBefore, FieldsOfRead,
                RefusesWhatItHonours, Honoured, Malformed, Given
  <2> QED
    BY <2>1, RegisterInv, BeginInv, ReadInv, RefuseInv DEF Next
<1> QED
  BY <1>1, InitInv, PTL DEF Spec

\* A build fails exactly on a malformed integer its shape honours, and the error names
\* it (register.go:69-79 and 113-181).
THEOREM RefusalsAreHonoured == Spec => []RefusesWhatItHonours
<1>1. Inv => RefusesWhatItHonours
  BY DEF Inv
<1> QED
  BY <1>1, PluginInvariant, PTL

\* Every honoured setting that is set arrives, and a switch leaves its default only by
\* its own word (register.go:85-94, 113-181 and merge.go:39-57).
THEOREM NothingIsLost == Spec => []SettingsArrive
<1>1. Inv => SettingsArrive
  <2> SUFFICES ASSUME Inv, build = "built", NEW s \in Honoured
               PROVE  /\ s \in {"raw-archive", "learned-skills"} =>
                           fields[s] = (config[s] = "yes")
                      /\ s = "report-enabled" => fields[s] = (config[s] # "off")
                      /\ config[s] # None /\ s \notin BoolSettings => fields[s] # None
                      /\ s \in {"consolidate-every", "merge-min-nodes", "idle-days",
                                "idle-hours"} /\ config[s] # None => fields[s] = config[s]
                      /\ s = "merge-target" =>
                           fields[s] = IF config[s] \in {"all", "active"} THEN config[s]
                                       ELSE "stale"
    BY DEF SettingsArrive
  <2>1. s \in Settings /\ rest = <<>>
    BY DEF Inv, ReadsLeft, Honoured, Settings, IntSettings, DayWindows, BoolSettings,
           TextSettings
  <2>2. ~Malformed(s) /\ fields[s] = Field(s, Given(s))
    BY <2>1 DEF Inv, FieldsOfRead, StillToRead
  <2>3. /\ s \notin BoolSettings => ValueOf(s, Given(s))
        /\ s \in BoolSettings => Given(s) = config[s]
        /\ config[s] \in RawValues(s) \cup {None} /\ config[s] # Bad
    BY <2>1, <2>2, GivenFacts DEF Inv
  <2>4. s \notin BoolSettings => Given(s) = IF config[s] = None THEN Default(s) ELSE config[s]
    BY DEF Given
  <2>5. CASE s \in BoolSettings
    <3>1. s \notin {"consolidate-every", "merge-min-nodes", "idle-days", "idle-hours",
                    "merge-target"}
      BY <2>5 DEF BoolSettings
    <3> QED
      BY <2>2, <2>3, <2>5, <3>1, SwitchField
  <2>6. CASE s \in IntSettings
    <3>1. /\ s \notin BoolSettings \cup TextSettings
          /\ s \notin {"raw-archive", "learned-skills", "report-enabled", "merge-target"}
      BY <2>6 DEF IntSettings, DayWindows, BoolSettings, TextSettings
    <3>2. Given(s) \in Int
      BY <2>3, <2>6, <3>1, IntegerValue
    <3>3. /\ Field(s, Given(s)) # None
          /\ s \notin DayWindows \cup {"merge-max"} => Field(s, Given(s)) = Given(s)
      BY <2>6, <3>2, IntegerField, PluginAssumption
    <3>4. s \in {"consolidate-every", "merge-min-nodes", "idle-days", "idle-hours"} =>
            s \notin DayWindows \cup {"merge-max"}
      BY DEF DayWindows
    <3> QED
      BY <2>2, <2>4, <3>1, <3>3, <3>4
  <2>7. CASE s \in TextSettings
    <3>1. /\ s \notin BoolSettings
          /\ s \notin {"raw-archive", "learned-skills", "report-enabled",
                       "consolidate-every", "merge-min-nodes", "idle-days", "idle-hours"}
      BY <2>7 DEF IntSettings, DayWindows, BoolSettings, TextSettings
    <3>2. config[s] # None => Field(s, Given(s)) # None
      BY <2>3, <2>4, <2>7, <3>1, TextField
    <3>3. s = "merge-target" => Default(s) = "stale"
      BY DEF Default, IntSettings, DayWindows, BoolSettings
    <3>4. None \notin {"all", "active"}
      BY PluginAssumption
    <3>5. s = "merge-target" =>
            fields[s] = IF config[s] \in {"all", "active"} THEN config[s] ELSE "stale"
      BY <2>2, <2>3, <2>4, <2>7, <3>1, <3>3, <3>4, TextField
    <3> QED
      BY <2>2, <3>1, <3>2, <3>5
  <2> QED
    BY <2>1, <2>5, <2>6, <2>7 DEF Settings
<1> QED
  BY <1>1, PluginInvariant, PTL
=============================================================================
