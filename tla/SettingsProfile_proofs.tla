------------------------ MODULE SettingsProfile_proofs ------------------------
(* Proofs about the bindings and their profile: every property the runs     *)
(* check, for any actions, inputs and older versions.                       *)
EXTENDS SettingsProfile, FiniteSetTheorems, TLAPS

(* While a profile is loaded the defaults are live and what it names has    *)
(* been read; one the program wrote stays free of collisions, and no action *)
(* is missed.                                                               *)
LoadInv ==
    pc = "Loading" =>
        /\ live = Defaults
        /\ DOMAIN profile.bindings \subseteq bindingSeen
        /\ \A a \in DOMAIN profile.bindings : bindings[a] = profile.bindings[a]
        /\ own => /\ bindingSeen \union Range(pending) = Action
                  /\ \A a, b \in bindingSeen : bindings[a] = bindings[b] => a = b

(* The temporary file holds the bindings that replace the profile.          *)
SaveInv == pc = "Replacing" => temporary = Serialized

ProfileInv ==
    /\ TypeOK /\ CollisionFree /\ UserRemapsKept /\ OwnProfileLoads /\ SavedProfileStays
    /\ LoadInv /\ SaveInv

-----------------------------------------------------------------------------
(* Files *)

(* A file without bindings is a profile.                                    *)
LEMMA EmptyProfiles == NoProfile \in Profile /\ Unfinished \in Profile
<1>1. << >> \in [{} -> Input]
  OBVIOUS
<1>2. << >> \in PartialBindings
  BY <1>1 DEF PartialBindings
<1> QED
  BY <1>2 DEF Profile, NoProfile, Unfinished

(* What a profile binds, it binds to inputs and names actions.              *)
LEMMA ProfileBindings ==
    ASSUME NEW p \in Profile
    PROVE  /\ DOMAIN p.bindings \subseteq Action
           /\ \A a \in DOMAIN p.bindings : p.bindings[a] \in Input
<1>1. PICK S \in SUBSET Action : p.bindings \in [S -> Input]
  BY DEF Profile, PartialBindings
<1> QED
  BY <1>1

(* The list of missing actions of every version.                            *)
LEMMA MissingType ==
    ASSUME NEW v \in 0 .. 4
    PROVE  Missing(v) \in Seq(Action) /\ (v = 4 => Missing(v) = << >>)
BY ActionAssumption DEF Missing

(* What is saved while no input stands for two actions is well formed.      *)
LEMMA SerializedWellFormed ==
    ASSUME live \in [Action -> Input], CollisionFree
    PROVE  Serialized \in Profile /\ WellFormed(Serialized)
<1>1. live \in PartialBindings
  BY DEF PartialBindings
<1>2. Serialized \in Profile
  BY <1>1 DEF Serialized, Profile
<1>3. Range(Missing(4)) = {}
  BY MissingType DEF Range
<1> QED
  BY <1>2, <1>3 DEF Serialized, WellFormed, CollisionFree

-----------------------------------------------------------------------------
(* Fallback keys *)

(* There are as many fallback keys as actions, so one is always left for an *)
(* action that was not seen, and one of those left comes first.             *)
LEMMA SomeKeyIsFree ==
    ASSUME NEW a \in Action, bindingSeen \in SUBSET Action
    PROVE  \E i \in Range(MigrationFallbackKeys) : ~IsUsed(a, i)
<1> DEFINE Keys == Range(MigrationFallbackKeys)
           Others == Action \ {a}
<1>1. MigrationFallbackKeys \in Surjection(1 .. Len(MigrationFallbackKeys), Keys)
  BY FallbackAssumption DEF Surjection, Range
<1>2. IsFiniteSet(1 .. Len(MigrationFallbackKeys))
  BY FallbackAssumption, FS_Interval
<1>3. IsFiniteSet(Keys)
  BY <1>1, <1>2, FS_Surjection
<1>4. /\ IsFiniteSet(Others)
      /\ Cardinality(Others) = Cardinality(Action) - 1
  BY ActionAssumption, FS_RemoveElement
<1>5. Cardinality(Others) < Cardinality(Keys)
  <2>1. Cardinality(Keys) \in Nat /\ Cardinality(Action) \in Nat
    BY <1>3, ActionAssumption, FS_CardinalityType
  <2> QED
    BY <1>4, <2>1, FallbackAssumption
<1> SUFFICES ASSUME \A i \in Keys : IsUsed(a, i)
             PROVE  FALSE
  OBVIOUS
<1> DEFINE user == [i \in Keys |-> CHOOSE b \in Others : bindings[b] = i]
<1>6. \A i \in Keys : user[i] \in Others /\ bindings[user[i]] = i
  BY DEF IsUsed
<1>7. user \in [Keys -> Others]
  BY <1>6
<1> HIDE DEF user, Keys, Others
<1>8. \E x, y \in Keys : x # y /\ user[x] = user[y]
  BY <1>3, <1>4, <1>5, <1>7, FS_PigeonHole
<1> QED
  BY <1>6, <1>8

(* So migrateBinding always has a binding to give.                         *)
LEMMA FirstUnusedExists ==
    ASSUME NEW a \in Action, bindingSeen \in SUBSET Action
    PROVE  \E i \in Input : FirstUnused(a, i)
<1> DEFINE Free == {n \in DOMAIN MigrationFallbackKeys : ~IsUsed(a, MigrationFallbackKeys[n])}
<1>1. Free \subseteq Nat /\ Free # {}
  BY SomeKeyIsFree, FallbackAssumption DEF Range
<1>2. PICK n \in Free : \A m \in Free : ~ (<<m, n>> \in OpToRel(<, Nat))
  <2> HIDE DEF Free
  <2> QED
    BY <1>1, NatLessThanWellFounded, WFMin
<1>3. \A m \in Free : ~ (m < n)
  BY <1>1, <1>2 DEF OpToRel
<1>4. /\ n \in DOMAIN MigrationFallbackKeys /\ n \in Nat
      /\ MigrationFallbackKeys[n] \in Input
      /\ \A m \in 1 .. n - 1 : m \in DOMAIN MigrationFallbackKeys /\ m < n
  BY FallbackAssumption
<1> QED
  BY <1>3, <1>4 DEF FirstUnused

-----------------------------------------------------------------------------
(* The invariant *)

(* The program starts with its defaults and whatever file there is.         *)
LEMMA ProfileInit == Init => ProfileInv
<1> SUFFICES ASSUME Init PROVE ProfileInv
  OBVIOUS
<1>1. TypeOK
  BY ActionAssumption, ProfilesAssumption, EmptyProfiles DEF Init, TypeOK, WellFormed
<1>2. CollisionFree
  BY ActionAssumption DEF Init, CollisionFree
<1> QED
  BY <1>1, <1>2 DEF Init, ProfileInv, UserRemapsKept, OwnProfileLoads, SavedProfileStays,
                    LoadInv, SaveInv

(* The default bindings have their type and no collision.                   *)
LEMMA DefaultsFree == Defaults \in [Action -> Input] /\ IsInjective(Defaults)
BY ActionAssumption

(* Booting: the lines are read; those that keep their default are not seen. *)
LEMMA ProfileBoot ==
    ASSUME ProfileInv, BootWithoutProfile \/ ReadFails \/ ReadProfile
    PROVE  ProfileInv'
<1> USE DEF ProfileInv
<1>1. CASE BootWithoutProfile \/ ReadFails
  BY <1>1, DefaultsFree DEF BootWithoutProfile, ReadFails, loadVars, fileVars, TypeOK,
     CollisionFree, UserRemapsKept, OwnProfileLoads, SavedProfileStays, WellFormed, LoadInv, SaveInv
<1>2. CASE ReadProfile
  <2>1. profile \in Profile /\ profile' = profile /\ profile.version \in 0 .. 4
    BY <1>2 DEF ReadProfile, fileVars, TypeOK, Profile
  <2>2. /\ DOMAIN profile.bindings \subseteq Action
        /\ \A a \in DOMAIN profile.bindings : profile.bindings[a] \in Input
    BY <2>1, ProfileBindings
  <2>3. bindings' \in [Action -> Input] /\ bindingSeen' \in SUBSET Action
    BY <1>2, <2>2, DefaultsFree DEF ReadProfile
  <2>4. pending' \in Seq(Action)
    BY <1>2, <2>1, MissingType DEF ReadProfile
  <2>5. TypeOK'
    BY <1>2, <2>3, <2>4, DefaultsFree DEF ReadProfile, fileVars, TypeOK
  <2>6. LoadInv'
    <3>1. /\ DOMAIN profile.bindings = bindingSeen'
          /\ \A a \in DOMAIN profile.bindings : bindings'[a] = profile.bindings[a]
          /\ live' = Defaults
      BY <1>2, <2>2 DEF ReadProfile
    <3>2. CASE own
      <4>1. /\ IsInjective(profile.bindings)
            /\ bindingSeen' = Action \ Range(pending') /\ pending' \in Seq(Action)
        BY <1>2, <2>4, <3>1, <3>2 DEF ReadProfile, SavedProfileStays, WellFormed
      <4>2. bindingSeen' \union Range(pending') = Action
        BY <4>1 DEF Range
      <4>3. \A a, b \in bindingSeen' : bindings'[a] = bindings'[b] => a = b
        BY <3>1, <4>1 DEF IsInjective
      <4> QED
        BY <2>1, <3>1, <4>2, <4>3 DEF LoadInv
    <3>3. CASE ~own
      BY <1>2, <2>1, <3>1, <3>3 DEF LoadInv, ReadProfile, fileVars
    <3> QED
      BY <3>2, <3>3, <1>2 DEF TypeOK
  <2> QED
    BY <1>2, <2>5, <2>6, DefaultsFree DEF ReadProfile, fileVars, CollisionFree, UserRemapsKept,
       OwnProfileLoads, SavedProfileStays, WellFormed, SaveInv
<1> QED
  BY <1>1, <1>2

(* A migration step: the action gets an input nobody seen has, and keeps    *)
(* the one it was read with.                                                *)
LEMMA ProfileMigrate ==
    ASSUME ProfileInv, MigrateBinding
    PROVE  ProfileInv'
<1> USE DEF ProfileInv
<1> DEFINE a == Head(pending)
<1>1. /\ a \in Action /\ Tail(pending) \in Seq(Action)
      /\ Range(pending) = {a} \union Range(Tail(pending))
  <2>1. pending \in Seq(Action) /\ pending # << >>
    BY DEF MigrateBinding, TypeOK
  <2>2. a = pending[1] /\ 1 \in DOMAIN pending
    BY <2>1
  <2>3. \A n \in DOMAIN Tail(pending) : n + 1 \in DOMAIN pending /\ Tail(pending)[n] = pending[n + 1]
    BY <2>1
  <2>4. \A n \in DOMAIN pending : n = 1 \/ (n - 1 \in DOMAIN Tail(pending) /\ Tail(pending)[n - 1] = pending[n])
    BY <2>1
  <2> QED
    BY <2>1, <2>2, <2>3, <2>4 DEF Range
<1>2. PICK i \in Input :
        /\ KeepsBinding(a) => i = bindings[a]
        /\ a \in bindingSeen \/ ~IsUsed(a, i)
        /\ bindings' = [bindings EXCEPT ![a] = i]
        /\ bindingSeen' = bindingSeen \union {a} /\ pending' = Tail(pending)
  <2> DEFINE usable == IF KeepsBinding(a) THEN {bindings[a]}
                       ELSE {i \in Input : FirstUnused(a, i)}
  <2>1. usable # {}
    BY <1>1, FirstUnusedExists DEF TypeOK
  <2>2. usable \subseteq Input
    BY <1>1 DEF TypeOK
  <2>3. \E i \in usable : /\ bindings' = [bindings EXCEPT ![a] = i]
                          /\ bindingSeen' = bindingSeen \union {a} /\ pending' = Tail(pending)
    BY <2>1 DEF MigrateBinding
  <2>4. \A i \in usable : /\ KeepsBinding(a) => i = bindings[a]
                          /\ a \in bindingSeen \/ ~IsUsed(a, i)
    BY DEF KeepsBinding, FirstUnused
  <2> HIDE DEF usable, a
  <2> QED
    BY <2>2, <2>3, <2>4
<1>3. UNCHANGED <<pc, live, fileVars, feedback>> /\ pc = "Loading"
  BY DEF MigrateBinding
<1> HIDE DEF a
<1>4. TypeOK'
  BY <1>1, <1>2, <1>3 DEF TypeOK, fileVars
<1>5. \A b \in Action : bindings'[b] = IF b = a THEN i ELSE bindings[b]
  BY <1>2 DEF TypeOK
<1>6. LoadInv'
  <2>1. DOMAIN profile.bindings \subseteq Action
    BY ProfileBindings DEF TypeOK
  <2>2. /\ DOMAIN profile.bindings \subseteq bindingSeen'
        /\ \A b \in DOMAIN profile.bindings : bindings'[b] = profile.bindings[b]
    BY <1>2, <1>3, <1>5, <2>1 DEF LoadInv, KeepsBinding
  <2>3. own => bindingSeen' \union Range(pending') = Action
    BY <1>1, <1>2, <1>3 DEF LoadInv
  <2>4. own => \A b, c \in bindingSeen' : bindings'[b] = bindings'[c] => b = c
    BY <1>1, <1>2, <1>3, <1>5 DEF LoadInv, IsUsed, TypeOK, KeepsBinding
  <2> QED
    BY <1>3, <2>2, <2>3, <2>4 DEF LoadInv, fileVars
<1> QED
  BY <1>3, <1>4, <1>6 DEF fileVars, CollisionFree, UserRemapsKept, OwnProfileLoads,
     SavedProfileStays, WellFormed, SaveInv

(* The end of a load: what the program wrote is accepted.                   *)
LEMMA ProfileFinishLoad ==
    ASSUME ProfileInv, FinishLoad
    PROVE  ProfileInv'
<1> USE DEF ProfileInv
<1>1. own => Accepts
  <2>1. pc = "Loading" /\ Range(pending) = {}
    BY DEF FinishLoad, Range
  <2>2. own => bindingSeen = Action /\ \A a, b \in Action : bindings[a] = bindings[b] => a = b
    BY <2>1 DEF LoadInv
  <2> QED
    BY <2>2 DEF Accepts, SavedProfileStays, WellFormed, IsInjective, TypeOK
<1>2. TypeOK'
  BY DefaultsFree DEF FinishLoad, LiveAfterLoad, ForgetLoad, fileVars, TypeOK
<1>3. CollisionFree'
  BY DEF FinishLoad, LiveAfterLoad, Accepts, CollisionFree
<1>4. UserRemapsKept'
  BY DEF FinishLoad, LiveAfterLoad, fileVars, UserRemapsKept, LoadInv
<1> QED
  BY <1>1, <1>2, <1>3, <1>4 DEF FinishLoad, ForgetLoad, fileVars, OwnProfileLoads,
     SavedProfileStays, WellFormed, LoadInv, SaveInv

(* TryRebind takes an input that no other action has.                       *)
LEMMA ProfileRebind ==
    ASSUME ProfileInv, NEW a \in Action, NEW i \in Input \union Reserved,
           Rebind(a, i) \/ RejectBinding(a, i)
    PROVE  ProfileInv'
<1> USE DEF ProfileInv
<1>1. CASE Rebind(a, i)
  <2>1. i \in Input /\ live' = [live EXCEPT ![a] = i]
    BY <1>1 DEF Rebind, CanRebind
  <2>2. \A b \in Action : live'[b] = IF b = a THEN i ELSE live[b]
    BY <2>1 DEF TypeOK
  <2>3. live' \in [Action -> Input]
    BY <2>1 DEF TypeOK
  <2>4. CollisionFree'
    BY <1>1, <2>2, <2>3 DEF Rebind, CanRebind, CollisionFree, IsInjective, TypeOK
  <2> QED
    BY <1>1, <2>3, <2>4 DEF Rebind, loadVars, fileVars, TypeOK, UserRemapsKept,
       OwnProfileLoads, SavedProfileStays, WellFormed, LoadInv, SaveInv
<1>2. CASE RejectBinding(a, i)
  BY <1>2 DEF RejectBinding, loadVars, fileVars, TypeOK, CollisionFree, UserRemapsKept,
     OwnProfileLoads, SavedProfileStays, WellFormed, LoadInv, SaveInv, Serialized
<1> QED
  BY <1>1, <1>2

(* Saving: the profile is replaced by the bindings it was written from.     *)
LEMMA ProfileSave ==
    ASSUME ProfileInv, ChangeSetting \/ BeginWrite \/ FinishWrite \/ Replace \/ SaveFails
    PROVE  ProfileInv'
<1> USE DEF ProfileInv
<1>1. CASE ChangeSetting
  BY <1>1 DEF ChangeSetting, loadVars, fileVars, TypeOK, CollisionFree, UserRemapsKept,
     OwnProfileLoads, SavedProfileStays, WellFormed, LoadInv, SaveInv
<1>2. CASE BeginWrite
  BY <1>2, EmptyProfiles DEF BeginWrite, TruncateFile, loadVars, TypeOK, CollisionFree,
     UserRemapsKept, OwnProfileLoads, SavedProfileStays, WellFormed, LoadInv, SaveInv
<1>3. CASE FinishWrite
  <2>1. Serialized \in Profile /\ Serialized' = Serialized
    BY <1>3, SerializedWellFormed DEF FinishWrite, TypeOK, Serialized
  <2> QED
    BY <1>3, <2>1 DEF FinishWrite, loadVars, TypeOK, CollisionFree, UserRemapsKept,
       OwnProfileLoads, SavedProfileStays, WellFormed, LoadInv, SaveInv
<1>4. CASE Replace
  <2>1. profile' = Serialized /\ Serialized \in Profile /\ WellFormed(Serialized)
    BY <1>4, SerializedWellFormed DEF Replace, SaveInv, TypeOK
  <2>2. SavedProfileStays'
    BY <2>1 DEF SavedProfileStays, WellFormed
  <2>3. UserRemapsKept'
    BY <1>4, <2>1 DEF Replace, UserRemapsKept, Serialized
  <2> QED
    BY <1>4, <2>1, <2>2, <2>3, EmptyProfiles DEF Replace, loadVars, TypeOK, CollisionFree,
       OwnProfileLoads, LoadInv, SaveInv
<1>5. CASE SaveFails
  BY <1>5, EmptyProfiles DEF SaveFails, loadVars, TypeOK, CollisionFree, UserRemapsKept,
     OwnProfileLoads, SavedProfileStays, WellFormed, LoadInv, SaveInv
<1> QED
  BY <1>1, <1>2, <1>3, <1>4, <1>5

(* The end of the process, and the steps that change nothing.               *)
LEMMA ProfileStop ==
    ASSUME ProfileInv, Stop \/ UNCHANGED vars
    PROVE  ProfileInv'
<1> USE DEF ProfileInv
<1>1. CASE Stop
  BY <1>1, DefaultsFree DEF Stop, ForgetLoad, fileVars, TypeOK, CollisionFree, UserRemapsKept,
     OwnProfileLoads, SavedProfileStays, WellFormed, LoadInv, SaveInv
<1>2. CASE UNCHANGED vars
  BY <1>2 DEF vars, loadVars, fileVars, TypeOK, CollisionFree, UserRemapsKept,
     OwnProfileLoads, SavedProfileStays, WellFormed, LoadInv, SaveInv, Serialized
<1> QED
  BY <1>1, <1>2

-----------------------------------------------------------------------------
(* Theorems *)

(* The invariant holds in every state of every run of the program.          *)
THEOREM ProfileInvariance == Spec => []ProfileInv
<1>1. Init => ProfileInv
  BY ProfileInit
<1>2. ProfileInv /\ [Next]_vars => ProfileInv'
  <2> SUFFICES ASSUME ProfileInv, [Next]_vars PROVE ProfileInv'
    OBVIOUS
  <2> QED
    BY ProfileBoot, ProfileMigrate, ProfileFinishLoad, ProfileRebind, ProfileSave, ProfileStop
    DEF Next
<1> QED
  BY <1>1, <1>2, PTL DEF Spec

(* Whatever is loaded, migrated, rebound and saved, every action has one    *)
(* input, and every file is a profile (LoadConfiguration,                   *)
(* SaveInterfaceConfiguration).                                             *)
THEOREM ProfileTypes == Spec => []TypeOK
BY ProfileInvariance, PTL DEF ProfileInv

(* TryRebind and LoadConfiguration: no input ever stands for two actions.   *)
THEOREM BindingsNeverCollide == Spec => []CollisionFree
BY ProfileInvariance, PTL DEF ProfileInv

(* migrateBinding: an older profile keeps the user's remaps.                *)
THEOREM RemapsSurvive == Spec => []UserRemapsKept
BY ProfileInvariance, PTL DEF ProfileInv

(* LoadConfiguration never rejects a profile that some version wrote, when  *)
(* there are as many fallback keys as actions.                              *)
THEOREM OwnProfilesLoad == Spec => []OwnProfileLoads
BY ProfileInvariance, PTL DEF ProfileInv

(* SaveInterfaceConfiguration never damages the profile it replaces.        *)
THEOREM ProfileStaysWhole == Spec => []SavedProfileStays
BY ProfileInvariance, PTL DEF ProfileInv

=============================================================================
