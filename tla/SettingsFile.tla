------------------------------ MODULE SettingsFile ------------------------------
(***************************************************************************)
(* The core settings (DasSettings) and the string the user interface keeps *)
(* beside them, in memory and on disk (IDasSettingsImpl.cpp).  Users are   *)
(* threads of the process; a crash ends it between any two steps and what  *)
(* is on disk stays.  The two halves share nothing but the disk.           *)
(*                                                                         *)
(* A document is a sequence, so that one written over a longer one leaves  *)
(* the rest of it behind.                                                  *)
(***************************************************************************)
EXTENDS Naturals, Sequences, FiniteSets

CONSTANTS
    Users,      \* threads that use the settings
    Documents,  \* what they set, Null among them
    Null,       \* the settings of a new object
    MaxCrashes  \* bound on the crashes of a behaviour

Files == {"core", "relative", "extra"}
Absent == <<"absent">>

ASSUME SettingsAssumption ==
    /\ Null \in Documents /\ <<>> \notin Documents /\ Absent \notin Documents
    /\ \A d \in Documents : Len(d) \in Nat
    /\ MaxCrashes \in Nat /\ IsFiniteSet(Users)

VARIABLES
    disk,       \* what each file holds
    directory,  \* of the core settings: "there", "missing" or "blocked"
    full,       \* writes fail
    g_settings, \* the number of the object in use, 0 for none
    settings,   \* settings_ of each object made
    pathSet,    \* the objects whose path_ was set
    using,      \* the object each user got
    step,       \* where each user is; a file's name: it has that file open
    extra,      \* g_p_ui_extra_settings_json_string, or Absent
    saving,     \* the string each user saves as the extra one
    lent,       \* the extra string was answered without a count
    dangling,   \* ... and the count it lacked has been dropped
    torn,       \* files whose last saves crashed, failed or overlapped
    crashes

world == <<directory, full, crashes>>
core == <<g_settings, settings, pathSet, using>>
extras == <<extra, saving, lent, dangling>>
settingsVars == <<disk, world, core, extras, step, torn>>

SettingsTypeOK ==
    /\ DOMAIN disk = Files
    /\ directory \in {"there", "missing", "blocked"} /\ full \in BOOLEAN
    /\ directory = "blocked" => disk["core"] = Absent
    /\ g_settings \in 0 .. Len(settings) /\ Len(settings) <= Cardinality(Users)
    /\ \A i \in DOMAIN settings : settings[i] \in Documents
    /\ pathSet \subseteq DOMAIN settings
    /\ \A u \in Users : using[u] \in 0 .. Len(settings)
    /\ torn \subseteq Files

SettingsInit ==
    /\ disk = [f \in Files |-> Absent]
    /\ directory \in {"missing", "blocked"} /\ full = FALSE
    /\ g_settings = 0 /\ settings = <<>> /\ pathSet = {}
    /\ using = [u \in Users |-> 0] /\ step = [u \in Users |-> "idle"]
    /\ extra = Absent /\ saving = [u \in Users |-> Null]
    /\ lent = FALSE /\ dangling = FALSE
    /\ torn = {} /\ crashes = 0

-------------------------------------------------------------------------------
Idle(u) == step[u] = "idle"
Goes(u, s) == step' = [step EXCEPT ![u] = s]
Writers(f) == {u \in Users : step[u] = f \/ (f = "extra" /\ step[u] = "openExtra")}

\* A stream writes at its own position, the start, and truncates nothing.
Over(old, new) ==
    IF Len(new) >= Len(old) THEN new ELSE new \o SubSeq(old, Len(new) + 1, Len(old))

\* GetIDasSettingsForUi while there is an object.
Ask(u) ==
    /\ Idle(u) /\ g_settings # 0
    /\ using' = [using EXCEPT ![u] = g_settings]
    /\ UNCHANGED <<disk, world, g_settings, settings, pathSet, step, extras, torn>>

\* ... and while there is none: the test and the assignment are not one step.
AskFirst(u) ==
    /\ Idle(u) /\ g_settings = 0
    /\ Goes(u, "create")
    /\ UNCHANGED <<disk, world, core, extras, torn>>

MakeSettings(u) ==
    /\ step[u] = "create"
    /\ settings' = Append(settings, Null)
    /\ g_settings' = Len(settings')
    /\ Goes(u, "load")
    /\ UNCHANGED <<disk, world, pathSet, using, extras, torn>>

(***************************************************************************)
(* LoadSettings: only where the directory could NOT be made does it go on  *)
(* to set path_ and to read the file.  Its result is not looked at.        *)
(***************************************************************************)
LoadSettings(u) ==
    /\ step[u] = "load"
    /\ directory' = IF directory = "blocked" THEN "blocked" ELSE "there"
    /\ IF directory = "blocked"
       THEN /\ pathSet' = pathSet \cup {g_settings}
            /\ settings' = IF disk["core"] \in Documents
                           THEN [settings EXCEPT ![g_settings] = disk["core"]] ELSE settings
       ELSE UNCHANGED <<pathSet, settings>>
    /\ using' = [using EXCEPT ![u] = g_settings]
    /\ Goes(u, "idle")
    /\ UNCHANGED <<disk, full, crashes, g_settings, extras, torn>>

\* A text that cannot be parsed leaves the settings as they are.
FromString(u, d) ==
    /\ Idle(u) /\ using[u] # 0
    /\ settings' = [settings EXCEPT ![using[u]] = d]
    /\ UNCHANGED <<disk, world, g_settings, pathSet, using, step, extras, torn>>

\* path_ is empty until it is set, and no stream opens an empty path.
CanOpen(u, f) == f = "core" => using[u] \in pathSet /\ directory = "there"
Overlapping(f) == IF Writers(f) = {} THEN torn \ {f} ELSE torn \cup {f}

\* A faulty variant: the old content stays under the new; no action uses it.
OpenKeeping(u, f) ==
    /\ Idle(u) /\ using[u] # 0 /\ CanOpen(u, f)
    /\ disk' = IF disk[f] = Absent THEN [disk EXCEPT ![f] = <<>>] ELSE disk
    /\ Goes(u, f)
    /\ torn' = Overlapping(f)
    /\ UNCHANGED <<world, core, extras>>

\* SaveImpl: opening truncates, before the mutex is taken; a failure to is answered.
Open(u, f) ==
    /\ Idle(u) /\ using[u] # 0 /\ CanOpen(u, f)
    /\ disk' = [disk EXCEPT ![f] = <<>>]
    /\ Goes(u, f)
    /\ torn' = Overlapping(f)
    /\ UNCHANGED <<world, core, extras>>

\* The stream's exceptions are off again: a write that fails goes unnoticed.
Write(u) ==
    /\ step[u] \in {"core", "relative"}
    /\ disk' = IF full THEN disk
               ELSE [disk EXCEPT ![step[u]] = Over(@, settings[using[u]])]
    /\ torn' = IF full THEN torn \cup {step[u]} ELSE torn
    /\ Goes(u, "idle")
    /\ UNCHANGED <<world, core, extras>>

-------------------------------------------------------------------------------
\* The pointer answered from memory is not counted for the caller.
LoadExtra(u) ==
    /\ Idle(u) /\ extra # Absent /\ ~dangling
    /\ lent' = TRUE
    /\ UNCHANGED <<disk, world, core, step, extra, saving, dangling, torn>>

\* The caller releases what it was answered.
ReleaseExtra(u) ==
    /\ Idle(u) /\ lent /\ ~dangling
    /\ dangling' = TRUE
    /\ UNCHANGED <<disk, world, core, step, extra, saving, lent, torn>>

\* The first load keeps the string for the next one and answers none.
LoadExtraFile(u) ==
    /\ Idle(u) /\ extra = Absent
    /\ disk["extra"] # Absent
    /\ extra' = disk["extra"]
    /\ UNCHANGED <<disk, world, core, step, saving, lent, dangling, torn>>

\* DasSaveExtraStringForUi keeps the string before it tries to write it.
CacheExtra(u, d) ==
    /\ Idle(u) /\ ~dangling
    /\ extra' = d /\ lent' = FALSE
    /\ saving' = [saving EXCEPT ![u] = d]
    /\ Goes(u, "openExtra")
    /\ torn' = Overlapping("extra")
    /\ UNCHANGED <<disk, world, core, dangling>>

OpenExtra(u) ==
    /\ step[u] = "openExtra"
    /\ disk' = [disk EXCEPT !["extra"] = <<>>]
    /\ Goes(u, "extra")
    /\ UNCHANGED <<world, core, extras, torn>>

\* Here the stream's exceptions are still on: a failure is answered.
WriteExtra(u) ==
    /\ step[u] = "extra"
    /\ disk' = IF full THEN disk ELSE [disk EXCEPT !["extra"] = Over(@, saving[u])]
    /\ torn' = IF full THEN torn \cup {"extra"} ELSE torn
    /\ saving' = [saving EXCEPT ![u] = Null]
    /\ Goes(u, "idle")
    /\ UNCHANGED <<world, core, extra, lent, dangling>>

-------------------------------------------------------------------------------
\* Somebody else makes the directory, or fills the disk and frees it again.
Environment ==
    /\ \/ directory = "blocked" /\ directory' = "there" /\ UNCHANGED full
       \/ full' = ~full /\ UNCHANGED directory
    /\ UNCHANGED <<disk, core, extras, step, torn, crashes>>

\* The process ends and starts again; files being written stay as they are.
Crash ==
    /\ crashes < MaxCrashes
    /\ crashes' = crashes + 1
    /\ torn' = torn \cup {f \in Files : Writers(f) # {}}
    /\ g_settings' = 0 /\ settings' = <<>> /\ pathSet' = {}
    /\ using' = [u \in Users |-> 0] /\ step' = [u \in Users |-> "idle"]
    /\ extra' = Absent /\ saving' = [u \in Users |-> Null]
    /\ lent' = FALSE /\ dangling' = FALSE
    /\ UNCHANGED <<disk, directory, full>>

SettingsNext ==
    \/ \E u \in Users :
         \/ Ask(u) \/ AskFirst(u) \/ MakeSettings(u) \/ LoadSettings(u)
         \/ \E d \in Documents : FromString(u, d)
         \/ \E f \in {"core", "relative"} : Open(u, f)
         \/ Write(u)
    \/ Environment \/ Crash

ExtraNext ==
    \/ \E u \in Users :
         \/ LoadExtra(u) \/ ReleaseExtra(u) \/ LoadExtraFile(u)
         \/ \E d \in Documents : CacheExtra(u, d)
         \/ OpenExtra(u) \/ WriteExtra(u)
    \/ Environment \/ Crash

SettingsSpec == SettingsInit /\ [][SettingsNext \/ ExtraNext]_settingsVars

-------------------------------------------------------------------------------
(***************************************************************************)
(* A settings file that nobody is writing is one whole document, unless a  *)
(* crash, a full disk or an overlapping save of it came between: SaveImpl  *)
(* and DasSaveExtraStringForUi write whole documents into empty files.     *)
(***************************************************************************)
QuietFileIsADocument ==
    \A f \in Files \ torn : Writers(f) = {} => disk[f] \in Documents \cup {Absent}

(***************************************************************************)
(* What IDasSettings.h says of saving, that DAS_S_OK means it succeeded: a *)
(* save that has opened its file alone, which from then on answers         *)
(* DAS_S_OK, has written the settings when it returns.                     *)
(***************************************************************************)
SavedIsWritten ==
    [][\A u \in Users, f \in {"core", "relative"} :
         step[u] = f /\ step'[u] = "idle" /\ Writers(f) = {u} /\ using'[u] # 0
            => disk'[f] = settings[using[u]]]_settingsVars
===============================================================================
