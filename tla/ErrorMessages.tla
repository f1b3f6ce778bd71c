----------------------------- MODULE ErrorMessages -----------------------------
(***************************************************************************)
(* How an error code gets its explanation: the default locale              *)
(* (GlobalLocale), the error lens plugins fill (DasBasicErrorLensImpl),    *)
(* the table of the predefined codes (DasResultTranslator, i18n), the      *)
(* functions DasGetErrorMessage and DasGetPredefinedErrorMessage with      *)
(* their SWIG overloads, and DasException::Throw, which asks them.         *)
(*                                                                         *)
(* A locale is a string OBJECT: the lens's map hashes the characters but   *)
(* compares the pointers, while the table compares the characters.  Calls  *)
(* are atomic: g_locale and the lens have no lock, the callers no second   *)
(* thread that sets them.  Null strings are accepted as the default locale *)
(* and as explanations; they are dereferenced when they are used.          *)
(***************************************************************************)
EXTENDS Naturals

CONSTANTS
    Locales,    \* string objects that name a locale
    LangOf,     \* the characters of each
    InTable,    \* predefined codes the table explains
    NotInTable, \* predefined codes it does not
    Own,        \* codes plugins define, not below DAS_E_RESERVED
    Texts,      \* explanations a plugin may register
    Nothing     \* no string: a null pointer

Codes == InTable \cup NotInTable \cup Own

\* What a map of the lens has for a code nobody registered.
NoEntry == "no entry"

ASSUME ErrorMessagesAssumption ==
    /\ LangOf \in [Locales -> STRING]
    /\ \E l \in Locales : LangOf[l] = "en"
    /\ Nothing \notin Texts \cup Locales \cup {"failed", "explained", NoEntry}
    /\ NoEntry \notin Texts

VARIABLES
    locale,     \* g_locale
    lens,       \* map_ of the error lens
    answer,     \* the last answer: who gave it, for which code, how
    down        \* a null string was dereferenced

messageVars == <<locale, lens, answer, down>>

\* What may be said: a text of a plugin, of the table, or why there is none.
Said == Texts \cup {Nothing, "failed", "explained"}
NoAnswer == [by |-> "nobody", code |-> Nothing, result |-> "ok", text |-> Nothing]

MessagesTypeOK ==
    /\ locale \in Locales \cup {Nothing}
    /\ lens \in [Locales -> [Codes -> Texts \cup {Nothing, NoEntry}]]
    /\ answer \in [by : {"nobody", "lens", "swig", "table", "exception"},
                   code : Codes \cup {Nothing}, text : Said,
                   result : Codes \cup {"ok", "range", "thread", "guid", "none"}]
    /\ down \in BOOLEAN

MessagesInit ==
    /\ locale = CHOOSE l \in Locales : LangOf[l] = "en"
    /\ lens = [l \in Locales |-> [c \in Codes |-> NoEntry]]
    /\ answer = NoAnswer /\ down = FALSE

-------------------------------------------------------------------------------
SetDefaultLocale(l) == ~down /\ locale' = l /\ UNCHANGED <<lens, answer, down>>

RegisterErrorMessage(l, c, t) ==
    /\ ~down /\ lens' = [lens EXCEPT ![l][c] = t]
    /\ UNCHANGED <<locale, answer, down>>

HasEntry(l) == \E c \in Codes : lens[l][c] # NoEntry
Answered(by, c, result, text) ==
    answer' = [by |-> by, code |-> c, result |-> result, text |-> text]

(***************************************************************************)
(* DasBasicErrorLensImpl::GetErrorMessage as a set of outcomes.  The entry *)
(* of the locale object decides alone where there is one; else any entry   *)
(* that knows the code, in the order of the hash table; where none does,   *)
(* success without a string.  A null explanation is dereferenced like the  *)
(* string of such a success (FindErrorMessage).                            *)
(***************************************************************************)
Found(t) == [result |-> "ok", text |-> t]

\* A faulty variant: any explanation of the locale; no action uses it.
LensMessagesAnyCode(c) ==
    IF HasEntry(locale)
    THEN {Found(lens[locale][d]) : d \in {d \in Codes : lens[locale][d] # NoEntry}}
    ELSE {Found(Nothing)}

LensMessages(c) ==
    LET others == {l \in Locales : lens[l][c] # NoEntry}
    IN  IF HasEntry(locale)
        THEN IF lens[locale][c] # NoEntry THEN {Found(lens[locale][c])}
             ELSE {[result |-> "range", text |-> Nothing]}
        ELSE IF others # {} THEN {Found(lens[l][c]) : l \in others}
        ELSE {Found(Nothing)}

\* ErrorLensManager::GetErrorMessage; has: a lens is registered for the guid.
AskLens(c, has) ==
    IF has THEN LensMessages(c) ELSE {[result |-> "range", text |-> Nothing]}

(***************************************************************************)
(* DasGetErrorMessage through PluginManager::GetErrorMessage.  guid:       *)
(* GetGuid succeeds; where it does not, the SWIG overload asks all the     *)
(* same, for the guid it has not got.                                      *)
(* A success without a string is dereferenced for its reference, and so is *)
(* a null default locale, before anything is asked.                        *)
(***************************************************************************)
NoLocale == locale = Nothing

GetErrorMessage(c, guid, has, vm) ==
    IF ~vm THEN {[result |-> "thread", text |-> Nothing]}
    ELSE IF NoLocale THEN {Found(Nothing)}
    ELSE AskLens(c, guid /\ has)

NullSuccess(o) == o.result = "ok" /\ o.text = Nothing

DasGetErrorMessage(c, guid, has, vm) ==
    /\ ~down /\ UNCHANGED <<locale, lens>>
    /\ \E o \in IF guid THEN GetErrorMessage(c, guid, has, vm) ELSE {[result |-> "guid", text |-> Nothing]} :
          /\ Answered("lens", c, o.result, o.text)
          /\ down' = NullSuccess(o)

\* The overload for SWIG keeps the string to itself: value is not assigned.
DasGetErrorMessageSwig(c, guid, has, vm) ==
    /\ ~down /\ UNCHANGED <<locale, lens>>
    /\ \E o \in GetErrorMessage(c, guid, has, vm) :
          /\ Answered("swig", c, o.result, Nothing)
          /\ down' = NullSuccess(o)

-------------------------------------------------------------------------------
(***************************************************************************)
(* TranslateError: the table of the locale, English for a locale without   *)
(* one; where it fails it makes a string that says so.                     *)
(***************************************************************************)
Tables == {"en", "zh-cn"}
TranslateError(c) ==
    IF c \in InTable THEN [result |-> "ok", text |-> "explained"]
    ELSE [result |-> IF LangOf[locale] \in Tables THEN "range" ELSE "none", text |-> "failed"]

(***************************************************************************)
(* GetErrorMessageAndAutoFallBack has its test the wrong way round: a      *)
(* success becomes an error whose code is DAS_S_OK, and a failure a        *)
(* success with the string that says what failed.  Nothing is retried.     *)
(***************************************************************************)
GetErrorMessageAndAutoFallBack(c) ==
    LET r == TranslateError(c)
    IN  IF r.result = "ok" THEN Found(Nothing) ELSE Found(r.text)

Predefined(c) ==
    IF NoLocale THEN Found(Nothing)
    ELSE IF c \in Own THEN [result |-> "range", text |-> Nothing]
    ELSE GetErrorMessageAndAutoFallBack(c)

DasGetPredefinedErrorMessage(c) ==
    /\ ~down /\ down' = NoLocale
    /\ Answered("table", c, Predefined(c).result, Predefined(c).text)
    /\ UNCHANGED <<locale, lens>>

(***************************************************************************)
(* DasException::Throw with and without the object that failed.  Where     *)
(* there is no explanation the exception carries the error of asking for   *)
(* one, not the error that is thrown; a null text is formatted as nothing. *)
(***************************************************************************)
Thrown(c, o) ==
    Answered("exception", c, IF o.result = "ok" THEN c ELSE o.result,
             IF o.result = "ok" THEN o.text ELSE "failed")

Throw(c) ==
    /\ ~down /\ down' = NoLocale
    /\ Thrown(c, Predefined(c))
    /\ UNCHANGED <<locale, lens>>

ThrowFor(c, guid, has, vm) ==
    /\ ~down /\ UNCHANGED <<locale, lens>>
    /\ \E o \in IF guid THEN GetErrorMessage(c, guid, has, vm) ELSE {[result |-> "guid", text |-> Nothing]} :
          Thrown(c, o) /\ down' = NullSuccess(o)

MessagesNext ==
    \/ \E l \in Locales \cup {Nothing} : SetDefaultLocale(l)
    \/ \E l \in Locales, c \in Codes, t \in Texts \cup {Nothing} :
          RegisterErrorMessage(l, c, t)
    \/ \E c \in Codes :
          \/ DasGetPredefinedErrorMessage(c)
          \/ Throw(c)
          \/ \E guid, has, vm \in BOOLEAN :
                \/ DasGetErrorMessage(c, guid, has, vm)
                \/ DasGetErrorMessageSwig(c, guid, has, vm)
                \/ ThrowFor(c, guid, has, vm)

MessagesSpec == MessagesInit /\ [][MessagesNext]_messageVars

-------------------------------------------------------------------------------
(***************************************************************************)
(* Asking for an explanation brings the host down only where a null string *)
(* was set as the locale or registered for the code, or where nobody       *)
(* explained the code: a lens with an explanation of it in any locale is   *)
(* found though the default locale is another.  (PluginManager dereferences*)
(* the string of a success, IDasBasicErrorLensImpl answers one without.)   *)
(***************************************************************************)
Registered(c) == {lens[l][c] : l \in Locales} \ {NoEntry}

CrashNeedsUnexplained ==
    [][down' /\ ~down =>
          \/ NoLocale
          \/ Nothing \in Registered(answer'.code)
          \/ Registered(answer'.code) = {} /\ ~HasEntry(locale)]_messageVars
===============================================================================
