---------------------------- MODULE SettingsProofs ----------------------------
(***************************************************************************)
(* Proofs about the settings files, for every number of users, documents   *)
(* and crashes: what a file holds that nobody is writing.                  *)
(***************************************************************************)
EXTENDS SettingsFile, SequenceTheorems, FiniteSetTheorems, TLAPS

\* What the proof needs of the types: what is written is a document.
SettingsTypes ==
    /\ DOMAIN disk = Files
    /\ DOMAIN step = Users
    /\ settings \in Seq(Documents)
    /\ g_settings \in 0 .. Len(settings)
    /\ using \in [Users -> 0 .. Len(settings)]
    /\ saving \in [Users -> Documents]
    /\ \A u \in Users : step[u] \in {"core", "relative"} => using[u] # 0

\* A file that is not torn has one writer at most, which found it empty.
WholeFile(f) ==
    /\ \A u, v \in Writers(f) : u = v
    /\ \A u \in Users : step[u] = f => disk[f] = <<>>
    /\ Writers(f) = {} => disk[f] \in Documents \cup {Absent}

FilesInv == SettingsTypes /\ \A f \in Files \ torn : WholeFile(f)

-------------------------------------------------------------------------------
LEMMA FilesInit == SettingsInit => FilesInv
<1> SUFFICES ASSUME SettingsInit PROVE FilesInv
  OBVIOUS
<1>1. settings \in Seq(Documents) /\ Len(settings) = 0
  BY EmptySeq DEF SettingsInit
<1>2. SettingsTypes
  BY <1>1, SettingsAssumption DEF SettingsInit, SettingsTypes, Files
<1>3. \A f \in Files : WholeFile(f)
  BY DEF SettingsInit, WholeFile, Writers, Files
<1>4. QED
  BY <1>2, <1>3 DEF FilesInv

\* A document written into an empty file is all of it.
LEMMA OverEmpty ==
    ASSUME NEW d \in Documents
    PROVE  Over(<<>>, d) = d
<1>1. Len(d) \in Nat /\ Len(<<>>) = 0
  BY SettingsAssumption
<1>2. QED
  BY <1>1 DEF Over

\* A file nothing happened to stays whole.
LEMMA OtherFile ==
    ASSUME NEW f, WholeFile(f), disk'[f] = disk[f],
           \A u \in Users : step'[u] = f <=> step[u] = f,
           f = "extra" => \A u \in Users : step'[u] = "openExtra" <=> step[u] = "openExtra"
    PROVE  WholeFile(f)'
  BY DEF WholeFile, Writers

\* Steps that use the settings in memory only.
LEMMA MemoryKeeps ==
    ASSUME FilesInv, SettingsTypes', UNCHANGED disk, torn \subseteq torn', NEW u \in Users,
           NEW to, step' = [step EXCEPT ![u] = to],
           {step[u], to} \subseteq {"idle", "create", "load"}
    PROVE  FilesInv'
<1>1. ASSUME NEW f \in Files \ torn' PROVE WholeFile(f)'
  <2>1. f \in Files \ torn /\ WholeFile(f)
    BY DEF FilesInv
  <2>2. \A v \in Users : /\ step'[v] = f <=> step[v] = f
                         /\ step'[v] = "openExtra" <=> step[v] = "openExtra"
    BY DEF FilesInv, SettingsTypes, Files
  <2>3. QED
    BY <2>1, <2>2, OtherFile
<1>2. QED
  BY <1>1 DEF FilesInv

-------------------------------------------------------------------------------
\* A document put in place of one of the settings, if there is such a one.
LEMMA SettingsExcept ==
    ASSUME NEW s \in Seq(Documents), NEW i \in 0 .. Len(s), NEW d \in Documents
    PROVE  [s EXCEPT ![i] = d] \in Seq(Documents) /\ Len([s EXCEPT ![i] = d]) = Len(s)
<1>1. Len(s) \in Nat /\ DOMAIN s = 1 .. Len(s) /\ s \in [1 .. Len(s) -> Documents]
  BY LenProperties
<1>2. CASE i \in 1 .. Len(s)
  BY <1>2, ExceptSeq
<1>3. CASE i = 0
  <2>1. i \notin DOMAIN s
    BY <1>1, <1>3
  <2>2. [s EXCEPT ![i] = d] = s
    BY <1>1, <2>1
  <2>3. QED
    BY <2>2
<1>4. QED
  BY <1>1, <1>2, <1>3

\* A user that gets an object, or changes one, keeps the types.
LEMMA UserTypes ==
    ASSUME SettingsTypes, NEW u \in Users,
           Ask(u) \/ AskFirst(u) \/ MakeSettings(u) \/ LoadSettings(u)
             \/ \E d \in Documents : FromString(u, d)
    PROVE  SettingsTypes'
<1>0. /\ settings \in Seq(Documents) /\ Len(settings) \in Nat
      /\ g_settings \in 0 .. Len(settings) /\ DOMAIN step = Users
      /\ using \in [Users -> 0 .. Len(settings)]
  BY LenProperties DEF SettingsTypes
<1>1. CASE Ask(u)
  BY <1>0, <1>1 DEF Ask, Idle, extras, SettingsTypes
<1>2. CASE AskFirst(u)
  BY <1>0, <1>2 DEF AskFirst, Goes, core, extras, SettingsTypes
<1>3. CASE MakeSettings(u)
  <2>1. /\ settings' \in Seq(Documents) /\ Len(settings') = Len(settings) + 1
    BY <1>0, <1>3, AppendProperties, SettingsAssumption DEF MakeSettings
  <2>2. /\ g_settings' = Len(settings') /\ using' = using /\ disk' = disk
        /\ saving' = saving /\ step' = [step EXCEPT ![u] = "load"]
    BY <1>3 DEF MakeSettings, Goes, extras
  <2>3. using' \in [Users -> 0 .. Len(settings')]
    BY <1>0, <2>1, <2>2
  <2>4. g_settings' \in 0 .. Len(settings')
    BY <1>0, <2>1, <2>2
  <2>5. QED
    BY <1>0, <2>1, <2>2, <2>3, <2>4 DEF SettingsTypes
<1>4. CASE LoadSettings(u)
  <2>1. settings' \in Seq(Documents) /\ Len(settings') = Len(settings)
    <3>1. \/ settings' = settings
          \/ /\ disk["core"] \in Documents
             /\ settings' = [settings EXCEPT ![g_settings] = disk["core"]]
      BY <1>4 DEF LoadSettings
    <3>2. QED
      BY <1>0, <3>1, SettingsExcept
  <2>2. /\ using' = [using EXCEPT ![u] = g_settings] /\ g_settings' = g_settings
        /\ step' = [step EXCEPT ![u] = "idle"] /\ disk' = disk /\ saving' = saving
        /\ step[u] = "load"
    BY <1>4 DEF LoadSettings, Goes, extras
  <2>3. QED
    BY <1>0, <2>1, <2>2 DEF SettingsTypes
<1>5. ASSUME NEW d \in Documents, FromString(u, d) PROVE SettingsTypes'
  <2>1. /\ settings' = [settings EXCEPT ![using[u]] = d] /\ g_settings' = g_settings
        /\ UNCHANGED <<using, step, disk, saving>>
    BY <1>5 DEF FromString, extras
  <2>2. using[u] \in 0 .. Len(settings)
    BY <1>0
  <2>3. settings' \in Seq(Documents) /\ Len(settings') = Len(settings)
    BY <1>0, <2>1, <2>2, SettingsExcept
  <2>4. QED
    BY <2>1, <2>3 DEF SettingsTypes
<1>6. QED
  BY <1>1, <1>2, <1>3, <1>4, <1>5

LEMMA UserKeeps ==
    ASSUME FilesInv, NEW u \in Users,
           Ask(u) \/ AskFirst(u) \/ MakeSettings(u) \/ LoadSettings(u)
             \/ \E d \in Documents : FromString(u, d)
    PROVE  FilesInv'
<1>1. SettingsTypes'
  BY UserTypes DEF FilesInv
<1>2. disk' = disk /\ torn' = torn
  BY DEF Ask, AskFirst, MakeSettings, LoadSettings, FromString
<1>3. CASE UNCHANGED step
  BY <1>1, <1>2, <1>3 DEF FilesInv, WholeFile, Writers
<1>4. CASE AskFirst(u)
  BY <1>1, <1>2, <1>4, MemoryKeeps DEF AskFirst, Idle, Goes
<1>5. CASE MakeSettings(u)
  BY <1>1, <1>2, <1>5, MemoryKeeps DEF MakeSettings, Goes
<1>6. CASE LoadSettings(u)
  BY <1>1, <1>2, <1>6, MemoryKeeps DEF LoadSettings, Goes
<1>7. QED
  BY <1>3, <1>4, <1>5, <1>6 DEF Ask, FromString

-------------------------------------------------------------------------------
\* A save that opens a file nobody writes becomes the one writer of an empty
\* file; another one tears it.
LEMMA OpenKeeps ==
    ASSUME FilesInv, NEW u \in Users, NEW f \in {"core", "relative"}, Open(u, f)
    PROVE  FilesInv'
<1>1. /\ step[u] = "idle" /\ using[u] # 0 /\ disk' = [disk EXCEPT ![f] = <<>>]
      /\ step' = [step EXCEPT ![u] = f] /\ f \in Files
      /\ torn' = IF Writers(f) = {} THEN torn \ {f} ELSE torn \cup {f}
      /\ UNCHANGED <<settings, g_settings, using, saving>>
  BY DEF Open, Idle, Goes, Overlapping, core, extras, Files
<1>2. SettingsTypes'
  BY <1>1 DEF FilesInv, SettingsTypes
<1>3. ASSUME NEW g \in Files \ torn', g # f PROVE WholeFile(g)'
  <2>1. WholeFile(g) /\ disk'[g] = disk[g]
    BY <1>1, <1>3 DEF FilesInv, SettingsTypes
  <2>2. \A v \in Users : /\ step'[v] = g <=> step[v] = g
                         /\ step'[v] = "openExtra" <=> step[v] = "openExtra"
    BY <1>1, <1>3 DEF FilesInv, SettingsTypes, Files
  <2>3. QED
    BY <2>1, <2>2, OtherFile
<1>4. ASSUME f \notin torn' PROVE WholeFile(f)'
  <2>1. Writers(f) = {}
    BY <1>1, <1>4
  <2>2. disk'[f] = <<>> /\ \A v \in Users : step'[v] = f <=> v = u
    BY <1>1, <2>1 DEF FilesInv, SettingsTypes, Writers
  <2>3. QED
    BY <2>2 DEF WholeFile, Writers
<1>5. QED
  BY <1>2, <1>3, <1>4 DEF FilesInv

\* The one writer writes the whole document, or the full disk tears the file.
LEMMA WrittenWhole ==
    ASSUME FilesInv, NEW u \in Users, NEW f \in Files, step[u] = f, NEW d \in Documents,
           step' = [step EXCEPT ![u] = "idle"], SettingsTypes',
           disk' = IF full THEN disk ELSE [disk EXCEPT ![f] = Over(@, d)],
           torn' = IF full THEN torn \cup {f} ELSE torn
    PROVE  FilesInv'
<1>1. ASSUME NEW g \in Files \ torn', g # f PROVE WholeFile(g)'
  <2>1. WholeFile(g) /\ disk'[g] = disk[g]
    BY <1>1 DEF FilesInv, SettingsTypes
  <2>2. \A v \in Users : /\ step'[v] = g <=> step[v] = g
                         /\ step'[v] = "openExtra" <=> step[v] = "openExtra"
    BY <1>1 DEF FilesInv, SettingsTypes, Files
  <2>3. QED
    BY <2>1, <2>2, OtherFile
<1>2. ASSUME f \notin torn' PROVE WholeFile(f)'
  <2>1. ~full /\ WholeFile(f)
    BY <1>2 DEF FilesInv
  <2>2. disk[f] = <<>> /\ \A v \in Users : v \in Writers(f) => v = u
    BY <2>1 DEF WholeFile, Writers
  <2>3. disk'[f] = d
    BY <2>1, <2>2, OverEmpty DEF FilesInv, SettingsTypes
  <2>4. \A v \in Users : step'[v] # f /\ ~(f = "extra" /\ step'[v] = "openExtra")
    BY <2>2 DEF FilesInv, SettingsTypes, Writers, Files
  <2>5. QED
    BY <2>3, <2>4 DEF WholeFile, Writers
<1>3. QED
  BY <1>1, <1>2 DEF FilesInv

LEMMA WriteKeeps ==
    ASSUME FilesInv, NEW u \in Users, Write(u) \/ WriteExtra(u)
    PROVE  FilesInv'
<1>1. CASE Write(u)
  <2>1. PICK f \in {"core", "relative"} : f = step[u]
    BY <1>1 DEF Write
  <2>2. PICK d : d = settings[using[u]]
    OBVIOUS
  <2>3. d \in Documents
    <3>1. using[u] \in 1 .. Len(settings) /\ settings \in Seq(Documents)
      BY <2>1, LenProperties DEF FilesInv, SettingsTypes
    <3>2. QED
      BY <2>2, <3>1, ElementOfSeq
  <2>4. /\ disk' = IF full THEN disk ELSE [disk EXCEPT ![f] = Over(@, d)]
        /\ torn' = IF full THEN torn \cup {f} ELSE torn
        /\ step' = [step EXCEPT ![u] = "idle"]
        /\ UNCHANGED <<settings, g_settings, using, saving>>
    BY <1>1, <2>1, <2>2 DEF Write, Goes, core, extras
  <2>5. SettingsTypes'
    BY <2>4 DEF FilesInv, SettingsTypes
  <2>6. f \in Files
    BY DEF Files
  <2>7. QED
    BY <2>1, <2>3, <2>4, <2>5, <2>6, WrittenWhole
<1>2. CASE WriteExtra(u)
  <2>1. PICK d : d = saving[u]
    OBVIOUS
  <2>2. d \in Documents
    BY <2>1 DEF FilesInv, SettingsTypes
  <2>3. /\ disk' = IF full THEN disk ELSE [disk EXCEPT !["extra"] = Over(@, d)]
        /\ torn' = IF full THEN torn \cup {"extra"} ELSE torn
        /\ step[u] = "extra" /\ step' = [step EXCEPT ![u] = "idle"]
        /\ saving' = [saving EXCEPT ![u] = Null]
        /\ UNCHANGED <<settings, g_settings, using>>
    BY <1>2, <2>1 DEF WriteExtra, Goes, core
  <2>4. SettingsTypes'
    BY <2>3, SettingsAssumption DEF FilesInv, SettingsTypes
  <2>5. "extra" \in Files
    BY DEF Files
  <2>6. QED
    BY <2>2, <2>3, <2>4, <2>5, WrittenWhole
<1>3. QED
  BY <1>1, <1>2

-------------------------------------------------------------------------------
\* The string of the user interface: a save holds its place as the one writer
\* from before it opens the file.
LEMMA CacheKeeps ==
    ASSUME FilesInv, NEW u \in Users, NEW d \in Documents, CacheExtra(u, d)
    PROVE  FilesInv'
<1>1. /\ step[u] = "idle" /\ step' = [step EXCEPT ![u] = "openExtra"]
      /\ saving' = [saving EXCEPT ![u] = d]
      /\ torn' = IF Writers("extra") = {} THEN torn \ {"extra"} ELSE torn \cup {"extra"}
      /\ UNCHANGED <<disk, settings, g_settings, using>>
  BY DEF CacheExtra, Idle, Goes, Overlapping, core
<1>2. SettingsTypes'
  BY <1>1 DEF FilesInv, SettingsTypes
<1>3. ASSUME NEW g \in Files \ torn', g # "extra" PROVE WholeFile(g)'
  <2>1. WholeFile(g)
    BY <1>1, <1>3 DEF FilesInv
  <2>2. \A v \in Users : step'[v] = g <=> step[v] = g
    BY <1>1, <1>3 DEF FilesInv, SettingsTypes, Files
  <2>3. QED
    BY <1>1, <1>3, <2>1, <2>2, OtherFile
<1>4. ASSUME "extra" \notin torn' PROVE WholeFile("extra")'
  <2>1. Writers("extra") = {}
    BY <1>1, <1>4
  <2>2. \A v \in Users : step'[v] # "extra" /\ (step'[v] = "openExtra" <=> v = u)
    BY <1>1, <2>1 DEF FilesInv, SettingsTypes, Writers
  <2>3. QED
    BY <2>2 DEF WholeFile, Writers
<1>5. QED
  BY <1>2, <1>3, <1>4 DEF FilesInv

LEMMA OpenExtraKeeps ==
    ASSUME FilesInv, NEW u \in Users, OpenExtra(u)
    PROVE  FilesInv'
<1>1. /\ step[u] = "openExtra" /\ step' = [step EXCEPT ![u] = "extra"]
      /\ disk' = [disk EXCEPT !["extra"] = <<>>]
      /\ UNCHANGED <<torn, settings, g_settings, using, saving>>
  BY DEF OpenExtra, Goes, core, extras
<1>2. SettingsTypes'
  BY <1>1 DEF FilesInv, SettingsTypes
<1>3. ASSUME NEW g \in Files \ torn', g # "extra" PROVE WholeFile(g)'
  <2>1. WholeFile(g) /\ disk'[g] = disk[g]
    BY <1>1, <1>3 DEF FilesInv, SettingsTypes
  <2>2. \A v \in Users : step'[v] = g <=> step[v] = g
    BY <1>1, <1>3 DEF FilesInv, SettingsTypes, Files
  <2>3. QED
    BY <1>3, <2>1, <2>2, OtherFile
<1>4. ASSUME "extra" \notin torn' PROVE WholeFile("extra")'
  <2>1. WholeFile("extra")
    BY <1>1, <1>4 DEF FilesInv, Files
  <2>2. \A v \in Users : v \in Writers("extra") <=> v = u
    BY <1>1, <2>1 DEF WholeFile, Writers
  <2>3. disk'["extra"] = <<>>
    BY <1>1 DEF FilesInv, SettingsTypes, Files
  <2>4. \A v \in Users : /\ step'[v] = "extra" <=> v = u
                         /\ step'[v] # "openExtra"
    BY <1>1, <2>2 DEF FilesInv, SettingsTypes, Writers
  <2>5. QED
    BY <2>3, <2>4 DEF WholeFile, Writers
<1>5. QED
  BY <1>2, <1>3, <1>4 DEF FilesInv

\* What changes neither the files nor who writes them.
LEMMA AsideKeeps ==
    ASSUME FilesInv,
           UNCHANGED <<disk, step, torn, settings, g_settings, using, saving>>
    PROVE  FilesInv'
  BY DEF FilesInv, SettingsTypes, WholeFile, Writers

\* A crash tears every file that is being written, and no other.
LEMMA CrashKeeps ==
    ASSUME FilesInv, Crash
    PROVE  FilesInv'
<1>1. /\ disk' = disk /\ step' = [v \in Users |-> "idle"]
      /\ torn' = torn \cup {f \in Files : Writers(f) # {}}
      /\ settings' = <<>> /\ g_settings' = 0
      /\ using' = [v \in Users |-> 0] /\ saving' = [v \in Users |-> Null]
  BY DEF Crash
<1>2. settings' \in Seq(Documents) /\ Len(settings') = 0
  BY <1>1, EmptySeq
<1>3. SettingsTypes'
  BY <1>1, <1>2, SettingsAssumption DEF FilesInv, SettingsTypes
<1>4. ASSUME NEW f \in Files \ torn' PROVE WholeFile(f)'
  <2>1. WholeFile(f) /\ Writers(f) = {} /\ f # "idle"
    BY <1>1, <1>4 DEF FilesInv, Files
  <2>2. QED
    BY <1>1, <2>1 DEF WholeFile, Writers
<1>5. QED
  BY <1>3, <1>4 DEF FilesInv

-------------------------------------------------------------------------------
LEMMA FilesStep == FilesInv /\ [SettingsNext \/ ExtraNext]_settingsVars => FilesInv'
<1> SUFFICES ASSUME FilesInv, [SettingsNext \/ ExtraNext]_settingsVars PROVE FilesInv'
  OBVIOUS
<1>1. CASE SettingsNext
  <2>1. ASSUME NEW u \in Users,
               Ask(u) \/ AskFirst(u) \/ MakeSettings(u) \/ LoadSettings(u)
                 \/ \E d \in Documents : FromString(u, d)
        PROVE  FilesInv'
    BY <2>1, UserKeeps
  <2>2. ASSUME NEW u \in Users, NEW f \in {"core", "relative"}, Open(u, f)
        PROVE  FilesInv'
    BY <2>2, OpenKeeps
  <2>3. ASSUME NEW u \in Users, Write(u) PROVE FilesInv'
    BY <2>3, WriteKeeps
  <2>4. CASE Environment
    BY <2>4, AsideKeeps DEF Environment, core, extras
  <2>5. QED
    BY <1>1, <2>1, <2>2, <2>3, <2>4, CrashKeeps DEF SettingsNext
<1>2. CASE ExtraNext
  <2>1. ASSUME NEW u \in Users, LoadExtra(u) \/ ReleaseExtra(u) \/ LoadExtraFile(u)
        PROVE  FilesInv'
    BY <2>1, AsideKeeps DEF LoadExtra, ReleaseExtra, LoadExtraFile, core
  <2>2. ASSUME NEW u \in Users, NEW d \in Documents, CacheExtra(u, d) PROVE FilesInv'
    BY <2>2, CacheKeeps
  <2>3. ASSUME NEW u \in Users, OpenExtra(u) PROVE FilesInv'
    BY <2>3, OpenExtraKeeps
  <2>4. ASSUME NEW u \in Users, WriteExtra(u) PROVE FilesInv'
    BY <2>4, WriteKeeps
  <2>5. CASE Environment
    BY <2>5, AsideKeeps DEF Environment, core, extras
  <2>6. QED
    BY <1>2, <2>1, <2>2, <2>3, <2>4, <2>5, CrashKeeps DEF ExtraNext
<1>3. CASE UNCHANGED settingsVars
  BY <1>3, AsideKeeps DEF settingsVars, core, extras
<1>4. QED
  BY <1>1, <1>2, <1>3

(***************************************************************************)
(* However saves of SaveImpl and DasSaveExtraStringForUi, crashes and full *)
(* disks interleave, for all users and documents: a file nobody is writing *)
(* is a whole document, unless its last saves crashed, failed or met.      *)
(***************************************************************************)
THEOREM QuietFilesAreWhole == SettingsSpec => []QuietFileIsADocument
<1>1. FilesInv => QuietFileIsADocument
  BY DEF FilesInv, WholeFile, QuietFileIsADocument
<1>2. QED
  BY <1>1, FilesInit, FilesStep, PTL DEF SettingsSpec

-------------------------------------------------------------------------------
(***************************************************************************)
(* The objects.  A user makes one only after it found none, so that there  *)
(* are no more than users that are past making theirs.                     *)
(***************************************************************************)
Makers == {u \in Users : step[u] = "create"}

ObjectsInv ==
    /\ directory \in {"there", "missing", "blocked"} /\ full \in BOOLEAN
    /\ directory = "blocked" => disk["core"] = Absent /\ \A u \in Users : step[u] # "core"
    /\ g_settings = 0 => Len(settings) = 0
    /\ \A u \in Users : step[u] = "load" => g_settings # 0
    /\ Len(settings) <= Cardinality(Users \ Makers)
    /\ pathSet \subseteq 1 .. Len(settings)
    /\ torn \subseteq Files

LEMMA UsersPast ==
    /\ Cardinality(Users \ Makers) \in Nat
    /\ Cardinality(Users \ Makers) <= Cardinality(Users) /\ Cardinality(Users) \in Nat
    /\ Cardinality(Users \ Makers)' \in Nat
<1>1. IsFiniteSet(Users)
  BY SettingsAssumption
<1>2. /\ Users \ Makers \subseteq Users /\ (Users \ Makers)' \subseteq Users
  OBVIOUS
<1>3. QED
  BY <1>1, <1>2, FS_Subset, FS_CardinalityType

LEMMA ObjectsInit == SettingsInit => ObjectsInv
<1> SUFFICES ASSUME SettingsInit PROVE ObjectsInv
  OBVIOUS
<1>1. Len(settings) = 0 /\ 0 <= Cardinality(Users \ Makers)
  BY UsersPast DEF SettingsInit
<1>2. QED
  BY <1>1 DEF SettingsInit, ObjectsInv, Files

\* Steps that make no object and begin no load.
LEMMA ObjectsKeep ==
    ASSUME ObjectsInv, Len(settings') = Len(settings), g_settings' = g_settings,
           pathSet' \subseteq 1 .. Len(settings), torn' \subseteq Files,
           \A u \in Users : step'[u] = "create" <=> step[u] = "create",
           \A u \in Users : step'[u] = "load" => step[u] = "load",
           directory' \in {"there", "missing", "blocked"}, full' \in BOOLEAN,
           directory' = "blocked" =>
               /\ directory = "blocked" /\ disk'["core"] = disk["core"]
               /\ \A u \in Users : step'[u] = "core" => step[u] = "core"
    PROVE  ObjectsInv'
<1>1. Makers' = Makers
  BY DEF Makers
<1>2. QED
  BY <1>1 DEF ObjectsInv

LEMMA ObjectsOfUser ==
    ASSUME SettingsTypes, ObjectsInv, NEW u \in Users,
           Ask(u) \/ AskFirst(u) \/ MakeSettings(u) \/ LoadSettings(u)
             \/ \E d \in Documents : FromString(u, d)
    PROVE  ObjectsInv'
<1>1. /\ settings \in Seq(Documents) /\ Len(settings) \in Nat
      /\ g_settings \in 0 .. Len(settings) /\ DOMAIN step = Users
      /\ using \in [Users -> 0 .. Len(settings)]
  BY LenProperties DEF SettingsTypes
<1>2. CASE Ask(u)
  BY <1>2, ObjectsKeep DEF Ask, world, ObjectsInv
<1>3. CASE AskFirst(u)
  <2>1. /\ Len(settings') = 0 /\ g_settings' = 0 /\ Len(settings) = 0 /\ pathSet' = pathSet
        /\ step' = [step EXCEPT ![u] = "create"] /\ step[u] = "idle"
        /\ UNCHANGED <<disk, directory, full, torn>> /\ g_settings = 0
    BY <1>3 DEF AskFirst, Idle, Goes, core, world, ObjectsInv
  <2>2. 0 <= Cardinality(Users \ Makers)'
    BY UsersPast
  <2>3. /\ \A v \in Users : step'[v] = "load" => step[v] = "load"
        /\ \A v \in Users : step'[v] = "core" => step[v] = "core"
    BY <1>1, <2>1
  <2>4. QED
    BY <2>1, <2>2, <2>3 DEF ObjectsInv
<1>4. CASE MakeSettings(u)
  <2>1. /\ step[u] = "create" /\ settings' = Append(settings, Null)
        /\ g_settings' = Len(settings') /\ step' = [step EXCEPT ![u] = "load"]
        /\ UNCHANGED <<disk, directory, full, torn, pathSet>>
    BY <1>4 DEF MakeSettings, Goes, world
  <2>2. Len(settings') = Len(settings) + 1 /\ g_settings' # 0
    BY <1>1, <2>1, AppendProperties, SettingsAssumption
  <2>3. Makers' = Makers \ {u} /\ u \in Makers
    BY <1>1, <2>1 DEF Makers
  <2>4. Cardinality(Users \ Makers)' = Cardinality(Users \ Makers) + 1
    <3>1. (Users \ Makers)' = (Users \ Makers) \cup {u} /\ u \notin Users \ Makers
      BY <2>3
    <3>2. IsFiniteSet(Users \ Makers)
      BY SettingsAssumption, FS_Difference
    <3>3. QED
      BY <3>1, <3>2, FS_AddElement
  <2>5. pathSet' \subseteq 1 .. Len(settings')
    BY <1>1, <2>1, <2>2 DEF ObjectsInv
  <2>6. \A v \in Users : step'[v] = "core" => step[v] = "core"
    BY <1>1, <2>1
  <2>7. Len(settings') <= Cardinality(Users \ Makers)'
    BY <1>1, <2>2, <2>4, UsersPast DEF ObjectsInv
  <2>8. QED
    BY <1>1, <2>1, <2>2, <2>5, <2>6, <2>7 DEF ObjectsInv
<1>5. CASE LoadSettings(u)
  <2>1. /\ step[u] = "load" /\ step' = [step EXCEPT ![u] = "idle"]
        /\ pathSet' \subseteq pathSet \cup {g_settings} /\ g_settings' = g_settings
        /\ UNCHANGED <<disk, full, torn>>
        /\ directory' = IF directory = "blocked" THEN "blocked" ELSE "there"
        /\ \/ settings' = settings
           \/ settings' = [settings EXCEPT ![g_settings] = disk["core"]]
    BY <1>5 DEF LoadSettings, Goes
  <2>2. Len(settings') = Len(settings)
    BY <1>1, <2>1
  <2>3. g_settings \in 1 .. Len(settings)
    BY <1>1, <2>1 DEF ObjectsInv
  <2>4. pathSet' \subseteq 1 .. Len(settings)
    BY <2>1, <2>3 DEF ObjectsInv
  <2>5. \A v \in Users : v # u => step'[v] = step[v]
    BY <1>1, <2>1
  <2>6. step'[u] = "idle"
    BY <1>1, <2>1
  <2>7. /\ \A v \in Users : step'[v] = "create" <=> step[v] = "create"
        /\ \A v \in Users : step'[v] = "load" => step[v] = "load"
        /\ \A v \in Users : step'[v] = "core" => step[v] = "core"
    BY <2>1, <2>5, <2>6
  <2>8. QED
    BY <2>1, <2>2, <2>4, <2>7, ObjectsKeep DEF ObjectsInv
<1>6. ASSUME NEW d \in Documents, FromString(u, d) PROVE ObjectsInv'
  <2>1. Len(settings') = Len(settings)
    BY <1>1, <1>6 DEF FromString
  <2>2. QED
    BY <1>6, <2>1, ObjectsKeep DEF FromString, world, ObjectsInv
<1>7. QED
  BY <1>2, <1>3, <1>4, <1>5, <1>6

\* Saves and the extra string change files and who writes them.
LEMMA ObjectsOfSave ==
    ASSUME SettingsTypes, ObjectsInv, NEW u \in Users,
           \/ \E f \in {"core", "relative"} : Open(u, f)
           \/ Write(u) \/ WriteExtra(u) \/ OpenExtra(u)
           \/ \E d \in Documents : CacheExtra(u, d)
    PROVE  ObjectsInv'
<1>1. DOMAIN step = Users /\ DOMAIN disk = Files /\ torn \subseteq Files
  BY DEF SettingsTypes, ObjectsInv
<1>2. PICK to \in {"idle", "core", "relative", "openExtra", "extra"} :
          /\ step' = [step EXCEPT ![u] = to]
          /\ step[u] \in {"idle", "core", "relative", "openExtra", "extra"}
          /\ UNCHANGED <<settings, g_settings, pathSet, directory, full>>
          /\ to = "core" => directory = "there"
          /\ directory = "blocked" => disk'["core"] = disk["core"]
          /\ torn' \subseteq Files
  <2>1. ASSUME NEW f \in {"core", "relative"}, Open(u, f)
        PROVE  /\ step' = [step EXCEPT ![u] = f] /\ step[u] = "idle"
               /\ UNCHANGED <<settings, g_settings, pathSet, directory, full>>
               /\ f = "core" => directory = "there"
               /\ directory = "blocked" => disk'["core"] = disk["core"]
               /\ torn' \subseteq Files
    <3>1. /\ step' = [step EXCEPT ![u] = f] /\ step[u] = "idle"
          /\ UNCHANGED <<settings, g_settings, pathSet, directory, full>>
          /\ f = "core" => directory = "there"
          /\ disk' = [disk EXCEPT ![f] = <<>>]
          /\ torn' \subseteq torn \cup {f}
      BY <2>1 DEF Open, Idle, Goes, CanOpen, Overlapping, world, core
    <3>2. f # "core" => disk'["core"] = disk["core"]
      BY <1>1, <3>1 DEF Files
    <3>3. QED
      BY <1>1, <3>1, <3>2 DEF Files
  <2>2. CASE Write(u)
    <3>1. /\ step' = [step EXCEPT ![u] = "idle"] /\ step[u] \in {"core", "relative"}
          /\ UNCHANGED <<settings, g_settings, pathSet, directory, full>>
          /\ \/ disk' = disk
             \/ disk' = [disk EXCEPT ![step[u]] = Over(@, settings[using[u]])]
          /\ torn' \subseteq torn \cup {step[u]}
      BY <2>2 DEF Write, Goes, world, core
    <3>2. directory = "blocked" => disk'["core"] = disk["core"]
      BY <1>1, <3>1 DEF ObjectsInv, Files
    <3>3. QED
      BY <1>1, <3>1, <3>2 DEF Files
  <2>3. CASE WriteExtra(u)
    <3>1. /\ step' = [step EXCEPT ![u] = "idle"] /\ step[u] = "extra"
          /\ UNCHANGED <<settings, g_settings, pathSet, directory, full>>
          /\ \/ disk' = disk
             \/ disk' = [disk EXCEPT !["extra"] = Over(@, saving[u])]
          /\ torn' \subseteq torn \cup {"extra"}
      BY <2>3 DEF WriteExtra, Goes, world, core
    <3>2. QED
      BY <1>1, <3>1 DEF Files
  <2>4. CASE OpenExtra(u)
    <3>1. /\ step' = [step EXCEPT ![u] = "extra"] /\ step[u] = "openExtra"
          /\ UNCHANGED <<settings, g_settings, pathSet, directory, full, torn>>
          /\ disk' = [disk EXCEPT !["extra"] = <<>>]
      BY <2>4 DEF OpenExtra, Goes, world, core
    <3>2. QED
      BY <1>1, <3>1 DEF Files
  <2>5. ASSUME NEW d \in Documents, CacheExtra(u, d)
        PROVE  /\ step' = [step EXCEPT ![u] = "openExtra"] /\ step[u] = "idle"
               /\ UNCHANGED <<settings, g_settings, pathSet, directory, full, disk>>
               /\ torn' \subseteq Files
    BY <1>1, <2>5 DEF CacheExtra, Idle, Goes, Overlapping, world, core, Files
  <2>6. QED
    BY <2>1, <2>2, <2>3, <2>4, <2>5
<1>3. /\ \A v \in Users : step'[v] = "create" <=> step[v] = "create"
      /\ \A v \in Users : step'[v] = "load" => step[v] = "load"
  BY <1>1, <1>2
<1>4. directory = "blocked" => \A v \in Users : step'[v] = "core" => step[v] = "core"
  BY <1>1, <1>2
<1>5. QED
  BY <1>2, <1>3, <1>4, ObjectsKeep DEF ObjectsInv

LEMMA ObjectsStep ==
    FilesInv /\ ObjectsInv /\ [SettingsNext \/ ExtraNext]_settingsVars => ObjectsInv'
<1> SUFFICES ASSUME FilesInv, ObjectsInv, [SettingsNext \/ ExtraNext]_settingsVars
             PROVE  ObjectsInv'
  OBVIOUS
<1>1. SettingsTypes
  BY DEF FilesInv
<1>2. CASE UNCHANGED settingsVars
  BY <1>2, ObjectsKeep DEF settingsVars, world, core, ObjectsInv
<1>3. ASSUME NEW u \in Users,
             Ask(u) \/ AskFirst(u) \/ MakeSettings(u) \/ LoadSettings(u)
               \/ \E d \in Documents : FromString(u, d)
      PROVE  ObjectsInv'
  BY <1>1, <1>3, ObjectsOfUser
<1>4. ASSUME NEW u \in Users,
             \/ \E f \in {"core", "relative"} : Open(u, f)
             \/ Write(u) \/ WriteExtra(u) \/ OpenExtra(u)
             \/ \E d \in Documents : CacheExtra(u, d)
      PROVE  ObjectsInv'
  BY <1>1, <1>4, ObjectsOfSave
<1>5. ASSUME NEW u \in Users, LoadExtra(u) \/ ReleaseExtra(u) \/ LoadExtraFile(u)
      PROVE  ObjectsInv'
  BY <1>5, ObjectsKeep DEF LoadExtra, ReleaseExtra, LoadExtraFile, world, core, ObjectsInv
<1>6. CASE Environment
  BY <1>6, ObjectsKeep DEF Environment, core, ObjectsInv
<1>7. CASE Crash
  <2>1. /\ UNCHANGED <<disk, directory, full>> /\ settings' = <<>> /\ pathSet' = {}
        /\ g_settings' = 0 /\ step' = [v \in Users |-> "idle"]
        /\ torn' \subseteq torn \cup Files
    BY <1>7 DEF Crash
  <2>2. Len(settings') = 0 /\ 0 <= Cardinality(Users \ Makers)'
    BY <2>1, UsersPast
  <2>3. QED
    BY <2>1, <2>2 DEF ObjectsInv
<1>8. QED
  BY <1>2, <1>3, <1>4, <1>5, <1>6, <1>7 DEF SettingsNext, ExtraNext

\* The settings keep their types, however calls and crashes interleave: there are no
\* more objects than users, and no file where the directory could not be made.
THEOREM SettingsTypeCorrect == SettingsSpec => []SettingsTypeOK
<1>1. FilesInv /\ ObjectsInv => SettingsTypeOK
  <2> SUFFICES ASSUME FilesInv, ObjectsInv PROVE SettingsTypeOK
    OBVIOUS
  <2>1. /\ Len(settings) \in Nat /\ DOMAIN settings = 1 .. Len(settings)
        /\ \A i \in 1 .. Len(settings) : settings[i] \in Documents
    BY LenProperties, ElementOfSeq DEF FilesInv, SettingsTypes
  <2>2. Len(settings) <= Cardinality(Users)
    BY <2>1, UsersPast DEF ObjectsInv
  <2>3. QED
    BY <2>1, <2>2 DEF FilesInv, SettingsTypes, ObjectsInv, SettingsTypeOK
<1>2. QED
  BY <1>1, FilesInit, FilesStep, ObjectsInit, ObjectsStep, PTL DEF SettingsSpec
===============================================================================
