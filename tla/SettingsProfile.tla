---------------------------- MODULE SettingsProfile ----------------------------
(***************************************************************************)
(* The input bindings of the demo: InterfaceState's TryRebind and          *)
(* LoadConfiguration, and the profile settings.ini they are kept in.       *)
(*                                                                         *)
(* An input is a key or a mouse button; a profile is its version and the   *)
(* input it binds to each action it names. The other settings are saved in *)
(* the same file and left out. The process may end at any moment.          *)
(***************************************************************************)
EXTENDS Naturals, Sequences, FiniteSets, Functions

CONSTANTS
    Action,                  \* the remappable actions
    Input,                   \* what IsValidBinding accepts
    Reserved,                \* what it refuses: Enter, Escape
    Defaults,                \* InterfaceState::InterfaceState
    AddedInVersion2,         \* the actions version 1 did not have, in order
    AddedInVersion3,         \* those version 2 did not have either
    MigrationFallbackKeys,
    Profiles                 \* bound: the profiles a first start may find

PartialBindings == UNION {[S -> Input] : S \in SUBSET Action}
Profile == [version : 0 .. 4, bindings : PartialBindings]

ASSUME ActionAssumption ==
    /\ IsFiniteSet(Action) /\ Input \intersect Reserved = {}
    /\ Defaults \in [Action -> Input] /\ IsInjective(Defaults)
    /\ AddedInVersion2 \in Seq(Action) /\ AddedInVersion3 \in Seq(Action)
ASSUME FallbackAssumption ==     \* 21 keys for 18 actions
    /\ MigrationFallbackKeys \in Seq(Input)
    /\ Cardinality(Range(MigrationFallbackKeys)) >= Cardinality(Action)
ASSUME ProfilesAssumption == Profiles \subseteq Profile

NoProfile == [version |-> 0, bindings |-> << >>]     \* there is no such file

VARIABLES
    pc,           \* "Off", "Loading", "Running", "Saving", "Writing", "Replacing"
    live,         \* m_bindings
    bindings,     \* LoadConfiguration's local copy
    bindingSeen,  \* the actions read or migrated so far
    pending,      \* the migrateBinding calls still to come
    profile,      \* settings.ini
    temporary,    \* settings.ini.tmp
    feedback,     \* what became of the last load or save
    own           \* history: the profile is one the program wrote

loadVars == <<bindings, bindingSeen, pending>>
fileVars == <<profile, temporary, own>>
vars == <<pc, live, loadVars, fileVars, feedback>>

Missing(version) ==
    (IF version = 1 THEN AddedInVersion2 ELSE << >>) \o
    (IF version < 3 THEN AddedInVersion3 ELSE << >>)

(* What some version of the program wrote: every action it knew, and no     *)
(* input twice.                                                             *)
WellFormed(p) ==
    /\ p.version \in 1 .. 4 /\ IsInjective(p.bindings)
    /\ DOMAIN p.bindings = Action \ Range(Missing(p.version))

Unfinished == [version |-> 4, bindings |-> << >>]    \* a file cut short
Serialized == [version |-> 4, bindings |-> live]     \* SerializeConfiguration

Init ==
    /\ profile \in Profiles /\ own = WellFormed(profile)
    /\ pc = "Off" /\ live = Defaults /\ feedback = "None"
    /\ bindings = Defaults /\ bindingSeen = {} /\ pending = << >>
    /\ temporary = NoProfile

(* LoadConfiguration's locals are gone once it returns.                     *)
ForgetLoad == bindings' = Defaults /\ bindingSeen' = {} /\ pending' = << >>

-----------------------------------------------------------------------------
(* Boot: LoadInterfaceConfiguration                                         *)

BootWithoutProfile ==
    /\ pc = "Off" /\ profile = NoProfile
    /\ pc' = "Running" /\ live' = Defaults /\ feedback' = "NotFound"
    /\ UNCHANGED <<loadVars, fileVars>>

ReadFails ==                     \* reported as rejected; told apart for OwnProfileLoads
    /\ pc = "Off" /\ profile # NoProfile
    /\ pc' = "Running" /\ live' = Defaults /\ feedback' = "Unreadable"
    /\ UNCHANGED <<loadVars, fileVars>>

(* The lines of the file are read; what it does not name keeps its default. *)
ReadProfile ==
    /\ pc = "Off" /\ profile # NoProfile
    /\ pc' = "Loading" /\ live' = Defaults
    /\ bindings' = [a \in Action |->
          IF a \in DOMAIN profile.bindings THEN profile.bindings[a] ELSE Defaults[a]]
    /\ bindingSeen' = DOMAIN profile.bindings
    /\ pending' = Missing(profile.version)
    /\ UNCHANGED <<fileVars, feedback>>

IsUsedBefore(a, i) ==            \* mutant: only looks at what the file names
    \E b \in DOMAIN profile.bindings : bindings[b] = i
IsUsed(a, i) ==
    \E b \in bindingSeen \ {a} : bindings[b] = i

FirstUnused(a, i) ==
    \E n \in DOMAIN MigrationFallbackKeys :
        /\ i = MigrationFallbackKeys[n] /\ ~IsUsed(a, i)
        /\ \A m \in 1 .. n - 1 : IsUsed(a, MigrationFallbackKeys[m])

(* migrateBinding: an action the file does not name keeps its default if    *)
(* nobody seen has it, and otherwise takes the first fallback key that is   *)
(* free; if none is, the load gives up, leaving the action unseen.          *)
KeepsBinding(a) == a \in bindingSeen \/ ~IsUsed(a, bindings[a])

MigrateBinding ==
    /\ pc = "Loading" /\ pending # << >>
    /\ LET a == Head(pending)
           usable == IF KeepsBinding(a) THEN {bindings[a]} ELSE {i \in Input : FirstUnused(a, i)}
       IN  IF usable = {} THEN pending' = << >> /\ UNCHANGED <<bindings, bindingSeen>>
           ELSE /\ \E i \in usable : bindings' = [bindings EXCEPT ![a] = i]
                /\ bindingSeen' = bindingSeen \union {a} /\ pending' = Tail(pending)
    /\ UNCHANGED <<pc, live, fileVars, feedback>>

(* The version and every action must have been seen, and no input twice.    *)
Accepts == profile.version # 0 /\ bindingSeen = Action /\ IsInjective(bindings)

WhatWasRead == bindings          \* mutant: binds while it reads
LiveAfterLoad == IF Accepts THEN bindings ELSE live

FinishLoad ==
    /\ pc = "Loading" /\ pending = << >>
    /\ live' = LiveAfterLoad /\ feedback' = IF Accepts THEN "Loaded" ELSE "Rejected"
    /\ pc' = "Running" /\ ForgetLoad /\ UNCHANGED fileVars

-----------------------------------------------------------------------------
(* Running: TryRebind and SaveInterfaceConfiguration                        *)

RebindUnchecked(a, i) == i \in Input     \* mutant: takes an input twice
RebindAnything(a, i) == \A b \in Action \ {a} : live[b] # i    \* mutant: Enter too
CanRebind(a, i) == i \in Input /\ \A b \in Action \ {a} : live[b] # i

Rebind(a, i) ==
    /\ pc = "Running" /\ CanRebind(a, i)
    /\ live' = [live EXCEPT ![a] = i] /\ pc' = "Saving"
    /\ UNCHANGED <<loadVars, fileVars, feedback>>

RejectBinding(a, i) ==
    /\ pc = "Running" /\ ~CanRebind(a, i)
    /\ feedback' = "BindingRejected" /\ UNCHANGED <<pc, live, loadVars, fileVars>>

ChangeSetting ==
    /\ pc = "Running" /\ pc' = "Saving"
    /\ UNCHANGED <<live, loadVars, fileVars, feedback>>

(* The temporary file is truncated and written.                             *)
BeginWriteInPlace ==             \* mutant: truncates the profile itself
    /\ profile' = Unfinished /\ UNCHANGED <<temporary, own>>
TruncateFile ==
    /\ temporary' = Unfinished /\ UNCHANGED <<profile, own>>

BeginWrite ==
    /\ pc = "Saving" /\ pc' = "Writing" /\ TruncateFile
    /\ UNCHANGED <<live, loadVars, feedback>>

FinishWrite ==
    /\ pc = "Writing" /\ pc' = "Replacing" /\ temporary' = Serialized
    /\ UNCHANGED <<live, loadVars, profile, own, feedback>>

(* MoveFileExW replaces the profile in one go.                              *)
Replace ==
    /\ pc = "Replacing"
    /\ profile' = temporary /\ temporary' = NoProfile /\ own' = TRUE
    /\ pc' = "Running" /\ feedback' = "Saved" /\ UNCHANGED <<live, loadVars>>

SaveFails ==
    /\ \/ pc = "Saving" /\ UNCHANGED temporary          \* no directory
       \/ pc \in {"Saving", "Writing", "Replacing"} /\ temporary' = NoProfile
    /\ pc' = "Running" /\ feedback' = "SaveFailed"
    /\ UNCHANGED <<live, loadVars, profile, own>>

(* The process ends, or is ended, anywhere; the files stay as they are.     *)
Stop ==
    /\ pc # "Off" /\ pc' = "Off"
    /\ live' = Defaults /\ ForgetLoad /\ feedback' = "None" /\ UNCHANGED fileVars

Next ==
    \/ BootWithoutProfile \/ ReadFails \/ ReadProfile \/ MigrateBinding \/ FinishLoad
    \/ \E a \in Action, i \in Input \union Reserved : Rebind(a, i) \/ RejectBinding(a, i)
    \/ ChangeSetting \/ BeginWrite \/ FinishWrite \/ Replace \/ SaveFails
    \/ Stop

Spec == Init /\ [][Next]_vars

-----------------------------------------------------------------------------
(* Properties *)

TypeOK ==
    /\ pc \in {"Off", "Loading", "Running", "Saving", "Writing", "Replacing"}
    /\ live \in [Action -> Input] /\ bindings \in [Action -> Input]
    /\ bindingSeen \in SUBSET Action /\ pending \in Seq(Action)
    /\ profile \in Profile /\ temporary \in Profile /\ own \in BOOLEAN
    /\ feedback \in {"None", "NotFound", "Unreadable", "Loaded", "Rejected", "BindingRejected",
                     "Saved", "SaveFailed"}

(* TryRebind and the last test of LoadConfiguration: whatever is loaded,    *)
(* migrated or captured, no input ever stands for two actions.              *)
CollisionFree == IsInjective(live)

(* README: older profiles migrate "while preserving existing user remaps";  *)
(* what was just saved is what is played with; and of a profile that was    *)
(* turned down, however much of it had been read or migrated, nothing is.   *)
UserRemapsKept ==
    pc = "Running" =>
        /\ feedback \in {"Loaded", "Saved"} =>
              \A a \in DOMAIN profile.bindings : live[a] = profile.bindings[a]
        /\ feedback = "Rejected" => live = Defaults

(* migrateBinding finds a free key for every action an older version lacked,*)
(* so a profile the program wrote, in any version, is never rejected.       *)
OwnProfileLoads == own => feedback # "Rejected"

(* SaveInterfaceConfiguration writes beside the profile: a save that fails  *)
(* or is cut short leaves the profile whole.                                *)
SavedProfileStays == own => WellFormed(profile)

=============================================================================
