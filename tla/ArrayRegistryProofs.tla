------------------------ MODULE ArrayRegistryProofs ------------------------
(***************************************************************************)
(* Proofs about the array registry of ArrayRegistry: type correctness and  *)
(* that an idle registry is exactly the one the last good config produced. *)
(***************************************************************************)
EXTENDS ArrayRegistry, WellFoundedInduction, TLAPS

-----------------------------------------------------------------------------
(***************************************************************************)
(* Lemmas on Min and Max of FiniteSetsExt, which GetPowerStoreArrays uses  *)
(* for the entry at which the loop stops, for the first default and for    *)
(* the last entry of a GlobalID or an IP.                                  *)
(***************************************************************************)

\* A nonempty set of naturals has a least element, and Min picks it.
LEMMA MinOfNats ==
    ASSUME NEW S \in SUBSET Nat, S # {}
    PROVE  Min(S) \in S /\ \A y \in S : Min(S) <= y
<1>1. \E x \in S : \A y \in S : ~(<<y, x>> \in OpToRel(<, Nat))
  BY NatLessThanWellFounded, WFMin
<1>2. \A x, y \in Nat : y < x => <<y, x>> \in OpToRel(<, Nat)
  BY DEF OpToRel
<1>3. \E x \in S : \A y \in S : x <= y
  <2>1. PICK x \in S : \A y \in S : ~(<<y, x>> \in OpToRel(<, Nat))
    BY <1>1
  <2>2. \A y \in S : ~(y < x)
    BY <2>1, <1>2
  <2>. QED
    BY <2>2
<1>. QED
  BY <1>3 DEF Min

\* A nonempty set of naturals below n has a greatest element, and Max
\* picks it.
LEMMA MaxOfBoundedNats ==
    ASSUME NEW n \in Nat, NEW S \in SUBSET (0..n), S # {}
    PROVE  Max(S) \in S /\ \A y \in S : y <= Max(S)
<1> DEFINE T == {n - i : i \in S}
<1>1. T \in SUBSET Nat /\ T # {}
  <2>1. \A i \in S : n - i \in Nat
    OBVIOUS
  <2>. QED
    BY <2>1 DEF T
<1>2. Min(T) \in T /\ \A y \in T : Min(T) <= y
  BY <1>1, MinOfNats
<1>3. \E x \in S : \A y \in S : x >= y
  <2>1. PICK i \in S : Min(T) = n - i
    BY <1>2
  <2>2. \A y \in S : n - i <= n - y
    BY <1>2, <2>1
  <2>. QED
    BY <2>2
<1>. QED
  BY <1>3 DEF Max


-----------------------------------------------------------------------------
(***************************************************************************)
(* GetPowerStoreArrays always returns a registry: the loop of lines        *)
(* 329-393 adds an entry only after its GlobalID, its client and its IP    *)
(* have all been obtained.                                                 *)
(***************************************************************************)

\* The entries the loop has gone through before it stops are all complete
\* array entries, with a GlobalID and an IP.
LEMMA LoadedEntries ==
    ASSUME NEW c \in Seq(Entry \cup {NilEntry})
    PROVE  /\ StopIndex(c) \in 1..(Len(c) + 1)
           /\ \A i \in Loaded(c) : /\ i \in 1..Len(c)
                                   /\ c[i] \in Entry
                                   /\ c[i].gid \in GIDs
                                   /\ c[i].host \in Hosts
<1> DEFINE stops == {i \in 1..Len(c) : c[i] = NilEntry \/ EntryFails(c[i])}
<1>1. \A i \in 1..Len(c) \ stops :
          c[i] \in Entry /\ c[i].gid \in GIDs /\ c[i].host \in Hosts
  BY DEF EntryFails, Entry
<1>2. /\ StopIndex(c) \in 1..(Len(c) + 1)
      /\ \A i \in 1..(StopIndex(c) - 1) : i \in 1..Len(c) \ stops
  <2>1. CASE stops = {}
    BY <2>1 DEF StopIndex
  <2>2. CASE stops # {}
    <3>0. stops \in SUBSET Nat
      OBVIOUS
    <3>1. Min(stops) \in stops /\ \A y \in stops : Min(stops) <= y
      BY <2>2, <3>0, MinOfNats
    <3>2. StopIndex(c) = Min(stops)
      BY <2>2 DEF StopIndex
    <3>3. Min(stops) \in 1..Len(c)
      BY <3>1
    <3>4. \A i \in 1..(Min(stops) - 1) : i \notin stops
      BY <3>1
    <3>5. Len(c) \in Nat /\ Min(stops) \in Nat
      BY <3>3
    <3>6. \A i \in 1..(Min(stops) - 1) : i \in 1..Len(c)
      BY <3>3, <3>5
    <3>. QED
      BY <3>2, <3>3, <3>4, <3>6
  <2>. QED
    BY <2>1, <2>2
<1>. QED
  BY <1>1, <1>2 DEF Loaded

\* The last loaded entry with a given field value is a loaded entry.
LEMMA LastWithLoaded ==
    ASSUME NEW c \in Seq(Entry \cup {NilEntry}), NEW fld, NEW v,
           \E i \in Loaded(c) : c[i][fld] = v
    PROVE  LastWith(c, fld, v) \in Loaded(c)
<1> DEFINE S == {i \in Loaded(c) : c[i][fld] = v}
<1>1. Len(c) \in Nat /\ S \in SUBSET (0..Len(c)) /\ S # {}
  BY LoadedEntries
<1>2. Max(S) \in S
  BY <1>1, MaxOfBoundedNats
<1>. QED
  BY <1>2 DEF LastWith

\* BuildRegistry builds a GlobalID map, an IP index and a default of the
\* registry's types from a non-empty list.
LEMMA BuildRegistryType ==
    ASSUME NEW c \in Seq(Entry \cup {NilEntry}), Len(c) > 0
    PROVE  BuildRegistry(c) \in Registry
<1> DEFINE done == Loaded(c)
           flagged == {i \in done : c[i].isDefault}
           A == [g \in {c[i].gid : i \in done} |-> c[LastWith(c, "gid", g)]]
           I == [h \in {c[i].host : i \in done} |-> c[LastWith(c, "host", h)].gid]
           D == IF flagged # {} THEN c[Min(flagged)]
                ELSE IF c[1] = NilEntry THEN NoArray ELSE c[1]
<1>1. BuildRegistry(c) = [arrays |-> A, ip |-> I, default |-> D]
  BY DEF BuildRegistry
<1>2. A \in [{c[i].gid : i \in done} -> Entry]
  <2>1. \A g \in {c[i].gid : i \in done} : LastWith(c, "gid", g) \in done
    BY LastWithLoaded
  <2>. QED
    BY <2>1, LoadedEntries
<1>3. {c[i].gid : i \in done} \in SUBSET GIDs
  BY LoadedEntries
<1>4. A \in UNION {[G -> Entry] : G \in SUBSET GIDs}
  BY <1>2, <1>3
<1>5. I \in [{c[i].host : i \in done} -> GIDs]
  <2>1. \A h \in {c[i].host : i \in done} : LastWith(c, "host", h) \in done
    BY LastWithLoaded
  <2>. QED
    BY <2>1, LoadedEntries
<1>6. {c[i].host : i \in done} \in SUBSET Hosts
  BY LoadedEntries
<1>7. I \in UNION {[H -> GIDs] : H \in SUBSET Hosts}
  BY <1>5, <1>6
<1>8. D \in Entry \cup {NoArray}
  <2>1. CASE flagged # {}
    <3>1. flagged \in SUBSET Nat
      BY LoadedEntries
    <3>2. Min(flagged) \in done
      BY <2>1, <3>1, MinOfNats
    <3>. QED
      BY <2>1, <3>2, LoadedEntries
  <2>2. CASE flagged = {}
    <3>1. c[1] \in Entry \cup {NilEntry}
      OBVIOUS
    <3>. QED
      BY <2>2, <3>1
  <2>. QED
    BY <2>1, <2>2
<1>9. [arrays |-> A, ip |-> I, default |-> D] \in Registry
  BY <1>4, <1>7, <1>8, Zenon DEF Registry
<1>. QED
  BY <1>1, <1>9

\* The empty registry UpdateArrays may install is a registry.
LEMMA EmptyRegistryType == EmptyRegistry \in Registry
<1>1. [g \in {} |-> NoArray] \in [{} -> Entry]
  OBVIOUS
<1>2. [h \in {} |-> NoGID] \in [{} -> GIDs]
  OBVIOUS
<1>. QED
  BY <1>1, <1>2 DEF EmptyRegistry, Registry

\* Whatever the file holds, GetPowerStoreArrays returns a registry.
LEMMA GetPowerStoreArraysType ==
    ASSUME NEW f \in Files
    PROVE  GetPowerStoreArrays(f).reg \in Registry
<1>1. CASE f = BadFile \/ Len(f) = 0
  BY <1>1, EmptyRegistryType DEF GetPowerStoreArrays
<1>2. CASE f # BadFile /\ Len(f) # 0
  <2>1. f \in Seq(Entry \cup {NilEntry}) /\ Len(f) > 0
    BY <1>2, ConstantsAssumption DEF Files, ConstantsAssumption
  <2>. QED
    BY <1>2, <2>1, BuildRegistryType, EmptyRegistryType DEF GetPowerStoreArrays
<1>. QED
  BY <1>1, <1>2

-----------------------------------------------------------------------------
(***************************************************************************)
(* The inductive invariant.  RegistryMatchesLastGoodConfig alone is not    *)
(* inductive: while UpdateArrays is between its three critical sections    *)
(* the registry is part old and part new, and what holds there is that     *)
(* the registry it is publishing is the one of the last good config and    *)
(* that the sections already run have installed their part of it.         *)
(***************************************************************************)
IInv ==
    /\ TypeOK
    /\ upc = "idle" => Reg = LoadedRegistry
    /\ upc # "idle" => pending = LoadedRegistry
    /\ upc \in {"setIP", "setDefault"} => arrays = pending.arrays
    /\ upc = "setDefault" => ipToArray = pending.ip

\* What a handler reads out of a registry has the type of an array entry or
\* of a GlobalID.
LEMMA RegistryParts ==
    ASSUME NEW reg \in Registry
    PROVE  /\ \A g \in DOMAIN reg.arrays : g \in GIDs /\ reg.arrays[g] \in Entry
           /\ \A h \in DOMAIN reg.ip : h \in Hosts /\ reg.ip[h] \in GIDs
           /\ reg.default \in Entry \cup {NoArray}
           /\ reg = [arrays |-> reg.arrays, ip |-> reg.ip, default |-> reg.default]
<1>1. PICK G \in SUBSET GIDs : reg.arrays \in [G -> Entry]
  BY DEF Registry
<1>2. PICK H \in SUBSET Hosts : reg.ip \in [H -> GIDs]
  BY DEF Registry
<1>. QED
  BY <1>1, <1>2 DEF Registry

\* The initial state satisfies the inductive invariant.
LEMMA InitIInv == Init => IInv
<1> SUFFICES ASSUME Init PROVE IInv
  OBVIOUS
<1>1. EmptyRegistry \in Registry
  BY EmptyRegistryType
<1>2. Reg = EmptyRegistry
  BY DEF Init, Reg, EmptyRegistry
<1>3. edits \in 0..MaxEdits
  BY ConstantsAssumption DEF Init, ConstantsAssumption
<1>4. /\ rpc \in [Readers -> {"idle", "parse", "lookup"}]
      /\ rhandle \in [Readers -> Handles]
      /\ rdefault \in [Readers -> Entry \cup {NoArray}]
      /\ rgid \in [Readers -> GIDs \cup {NoGID}]
      /\ rresult \in [Readers -> Results \cup {NoResult}]
  BY DEF Init, Handles
<1>5. /\ file \in Files /\ dirty \in BOOLEAN
      /\ upc \in {"idle", "setArrays", "setIP", "setDefault"}
      /\ pending \in Registry /\ lastGood \in Files
      /\ published \subseteq Registry
  BY <1>1 DEF Init, Files
<1>6. TypeOK
  BY <1>1, <1>2, <1>3, <1>4, <1>5 DEF TypeOK
<1>. QED
  BY <1>2, <1>6 DEF Init, IInv, LoadedRegistry

\* Every step of the updater, of the operator and of the handlers keeps the
\* inductive invariant.
LEMMA NextIInv == IInv /\ [Next]_vars => IInv'
<1> SUFFICES ASSUME IInv, [Next]_vars PROVE IInv'
  OBVIOUS
<1> USE DEF updVars, regVars, rdrVars
<1>0. /\ TypeOK
      /\ upc = "idle" => Reg = LoadedRegistry
      /\ upc # "idle" => pending = LoadedRegistry
      /\ upc \in {"setIP", "setDefault"} => arrays = pending.arrays
      /\ upc = "setDefault" => ipToArray = pending.ip
  BY DEF IInv
<1>a. Reg \in Registry /\ pending \in Registry
  BY <1>0 DEF TypeOK
<1>1. CASE EditConfig
  <2>a. file' \in Files
    BY <1>1 DEF EditConfig
  <2>b. edits' \in 0..MaxEdits
    BY <1>0, <1>1, ConstantsAssumption DEF EditConfig, TypeOK, ConstantsAssumption
  <2>1. TypeOK'
    BY <1>0, <1>1, <2>a, <2>b DEF EditConfig, TypeOK, Reg
  <2>. QED
    BY <1>0, <1>1, <2>1 DEF EditConfig, IInv, Reg, LoadedRegistry
<1>2. CASE UpdateArraysFail
  <2>1. TypeOK'
    BY <1>0, <1>2 DEF UpdateArraysFail, TypeOK, Reg
  <2>. QED
    BY <1>0, <1>2, <2>1 DEF UpdateArraysFail, IInv, Reg, LoadedRegistry
<1>3. CASE UpdateArraysLoad
  <2>1. pending' \in Registry
    BY <1>0, <1>3, GetPowerStoreArraysType DEF UpdateArraysLoad, TypeOK
  <2>2. TypeOK'
    BY <1>0, <1>3, <2>1 DEF UpdateArraysLoad, TypeOK, Reg
  <2>3. file # BadFile
    BY <1>3 DEF UpdateArraysLoad, GetPowerStoreArrays
  <2>4. pending' = LoadedRegistry'
    BY <1>3, <2>3 DEF UpdateArraysLoad, LoadedRegistry
  <2>. QED
    BY <1>3, <2>2, <2>4 DEF UpdateArraysLoad, IInv
<1>4. CASE SetArrays
  <2>1. Reg' \in Registry
    BY <1>0, <1>a, <1>4, RegistryParts DEF SetArrays, Reg, Registry
  <2>2. TypeOK'
    BY <1>0, <1>4, <2>1 DEF SetArrays, TypeOK
  <2>. QED
    BY <1>0, <1>4, <2>2 DEF SetArrays, IInv, LoadedRegistry
<1>5. CASE SetIPToArray
  <2>1. Reg' \in Registry
    BY <1>0, <1>a, <1>5, RegistryParts DEF SetIPToArray, Reg, Registry
  <2>2. TypeOK'
    BY <1>0, <1>5, <2>1 DEF SetIPToArray, TypeOK
  <2>. QED
    BY <1>0, <1>5, <2>2 DEF SetIPToArray, IInv, LoadedRegistry
<1>6. CASE SetDefaultArray
  <2>1. Reg' = pending
    BY <1>0, <1>a, <1>6, RegistryParts DEF SetDefaultArray, Reg
  <2>2. TypeOK'
    BY <1>0, <1>a, <1>6, <2>1 DEF SetDefaultArray, TypeOK
  <2>. QED
    BY <1>0, <1>6, <2>1, <2>2 DEF SetDefaultArray, IInv, LoadedRegistry
<1>7. ASSUME NEW r \in Readers, ReadDefault(r) PROVE IInv'
  <2>1. defaultArray \in Entry \cup {NoArray}
    BY <1>a, RegistryParts DEF Reg
  <2>2. TypeOK'
    BY <1>0, <1>7, <2>1 DEF ReadDefault, TypeOK, Reg
  <2>. QED
    BY <1>0, <1>7, <2>2 DEF ReadDefault, IInv, Reg, LoadedRegistry
<1>8. ASSUME NEW r \in Readers, ParseVolumeID(r) PROVE IInv'
  <2>1. \A h \in DOMAIN ipToArray : ipToArray[h] \in GIDs
    BY <1>a, RegistryParts DEF Reg
  <2>2. rdefault[r] \in Entry \cup {NoArray} /\ rhandle[r] \in Handles
    BY <1>0 DEF TypeOK
  <2>3. rgid' \in [Readers -> GIDs \cup {NoGID}]
    BY <1>0, <1>8, <2>1, <2>2 DEF ParseVolumeID, TypeOK, Handles, Entry
  <2>4. rresult' \in [Readers -> Results \cup {NoResult}]
    BY <1>0, <1>8 DEF ParseVolumeID, TypeOK, Results, Panic
  <2>5. TypeOK'
    BY <1>0, <1>8, <2>3, <2>4 DEF ParseVolumeID, TypeOK, Reg
  <2>. QED
    BY <1>0, <1>8, <2>5 DEF ParseVolumeID, IInv, Reg, LoadedRegistry
<1>9. ASSUME NEW r \in Readers, LookupArray(r) PROVE IInv'
  <2>1. \A g \in DOMAIN arrays : arrays[g] \in Entry
    BY <1>a, RegistryParts DEF Reg
  <2>2. rresult' \in [Readers -> Results \cup {NoResult}]
    BY <1>0, <1>9, <2>1 DEF LookupArray, TypeOK, Results, Found, NotFound
  <2>3. TypeOK'
    BY <1>0, <1>9, <2>2 DEF LookupArray, TypeOK, Reg
  <2>. QED
    BY <1>0, <1>9, <2>3 DEF LookupArray, IInv, Reg, LoadedRegistry
<1>10. CASE UNCHANGED vars
  BY <1>0, <1>10 DEF vars, updVars, regVars, rdrVars, IInv, TypeOK, Reg,
                     LoadedRegistry
<1>. QED
  BY <1>1, <1>2, <1>3, <1>4, <1>5, <1>6, <1>7, <1>8, <1>9, <1>10
     DEF Next, Updater

-----------------------------------------------------------------------------
\* The inductive invariant holds in every reachable state.
THEOREM IInvHolds == Spec => []IInv
<1>1. Init => IInv
  BY InitIInv
<1>2. IInv /\ [Next]_vars => IInv'
  BY NextIInv
<1>. QED
  BY <1>1, <1>2, PTL DEF Spec

\* Type correctness: the registry, UpdateArrays' pending state and every
\* handler's DefaultArray(), arrayID and result always have their types.
THEOREM TypeCorrect == Spec => []TypeOK
<1>1. IInv => TypeOK
  BY DEF IInv
<1>. QED
  BY IInvHolds, <1>1, PTL

\* Whenever no UpdateArrays is running, the arrays map, IPToArray and the
\* default array are all three those of the last config that loaded without
\* error (RegistryMatchesLastGoodConfig, for every set of arrays, hosts,
\* configs and handlers).
THEOREM RegistryConsistent == Spec => []RegistryMatchesLastGoodConfig
<1>1. IInv => RegistryMatchesLastGoodConfig
  BY DEF IInv, RegistryMatchesLastGoodConfig
<1>. QED
  BY IInvHolds, <1>1, PTL

-----------------------------------------------------------------------------
(***************************************************************************)
(* The default array of a loaded registry.                                 *)
(***************************************************************************)
\* BuildRegistry on a list that GetPowerStoreArrays accepts (its loop ran
\* off the end or stopped at a null element) sets a default exactly when it
\* loads an array: the first flagged entry, else the first element, which
\* is loaded whenever anything is.
LEMMA BuildRegistryDefault ==
    ASSUME NEW c \in Seq(Entry \cup {NilEntry}), Len(c) > 0,
           StopIndex(c) > Len(c) \/ c[StopIndex(c)] = NilEntry
    PROVE  BuildRegistry(c).default = NoArray <=> DOMAIN BuildRegistry(c).arrays = {}
<1> DEFINE done == Loaded(c)
           flagged == {i \in done : c[i].isDefault}
<1>1. /\ BuildRegistry(c).default = IF flagged # {} THEN c[Min(flagged)]
                                    ELSE IF c[1] = NilEntry THEN NoArray ELSE c[1]
      /\ DOMAIN BuildRegistry(c).arrays = {c[i].gid : i \in done}
  BY DEF BuildRegistry
<1>2. StopIndex(c) \in 1..(Len(c) + 1) /\ done = 1..(StopIndex(c) - 1)
  BY LoadedEntries DEF Loaded
<1>3. CASE StopIndex(c) = 1
  <2>1. done = {} /\ flagged = {}
    BY <1>2, <1>3
  <2>2. c[1] = NilEntry
    BY <1>3
  <2> QED BY <1>1, <2>1, <2>2
<1>4. CASE StopIndex(c) # 1
  <2>1. 1 \in done
    BY <1>2, <1>4
  <2>2. c[1] \in Entry
    BY <2>1, LoadedEntries
  <2>3. flagged # {} => c[Min(flagged)] \in Entry
    <3>1. flagged \in SUBSET Nat
      BY LoadedEntries
    <3> QED BY <3>1, MinOfNats, LoadedEntries
  <2>4. NoArray \notin Entry /\ NilEntry \notin Entry
    BY ConstantsAssumption DEF ConstantsAssumption
  <2> QED BY <1>1, <2>1, <2>2, <2>3, <2>4
<1> QED BY <1>3, <1>4

\* Whatever the file holds, the registry GetPowerStoreArrays returns has a
\* default exactly when it has an array.
LEMMA GetPowerStoreArraysDefault ==
    ASSUME NEW f \in Files
    PROVE  LET R == GetPowerStoreArrays(f).reg
           IN  R.default = NoArray <=> DOMAIN R.arrays = {}
<1>1. EmptyRegistry.default = NoArray /\ DOMAIN EmptyRegistry.arrays = {}
  BY DEF EmptyRegistry
<1>2. CASE f = BadFile \/ Len(f) = 0
  BY <1>1, <1>2 DEF GetPowerStoreArrays
<1>3. CASE f # BadFile /\ Len(f) # 0
  <2>1. f \in Seq(Entry \cup {NilEntry}) /\ Len(f) > 0
    BY <1>3, ConstantsAssumption DEF Files, ConstantsAssumption
  <2>2. CASE StopIndex(f) <= Len(f) /\ f[StopIndex(f)] # NilEntry
    BY <1>1, <1>3, <2>2 DEF GetPowerStoreArrays
  <2>3. CASE ~(StopIndex(f) <= Len(f) /\ f[StopIndex(f)] # NilEntry)
    <3>1. StopIndex(f) \in 1..(Len(f) + 1)
      BY <2>1, LoadedEntries
    <3>2. StopIndex(f) > Len(f) \/ f[StopIndex(f)] = NilEntry
      BY <2>3, <3>1, <2>1
    <3>3. GetPowerStoreArrays(f).reg = BuildRegistry(f)
      BY <1>3, <2>3 DEF GetPowerStoreArrays
    <3> QED BY <2>1, <3>2, <3>3, BuildRegistryDefault
  <2> QED BY <2>2, <2>3
<1> QED BY <1>2, <1>3

\* Between reloads, the default array that ParseVolumeID dereferences for a
\* bare legacy volume ID (part_001 line 445) is nil only when the registry
\* holds no array (DefaultSetWhenArraysLoaded), for every set of arrays,
\* hosts, configs and handlers.
THEOREM DefaultSet == Spec => []DefaultSetWhenArraysLoaded
<1>1. IInv => DefaultSetWhenArraysLoaded
  <2> SUFFICES ASSUME IInv, upc = "idle"
               PROVE  defaultArray = NoArray <=> DOMAIN arrays = {}
    BY DEF DefaultSetWhenArraysLoaded
  <2>1. defaultArray = LoadedRegistry.default /\ arrays = LoadedRegistry.arrays
    BY DEF IInv, Reg
  <2>2. lastGood \in Files
    BY DEF IInv, TypeOK
  <2>3. CASE lastGood = BadFile
    BY <2>1, <2>3 DEF LoadedRegistry, EmptyRegistry
  <2>4. CASE lastGood # BadFile
    BY <2>1, <2>2, <2>4, GetPowerStoreArraysDefault DEF LoadedRegistry
  <2> QED BY <2>3, <2>4
<1>. QED
  BY IInvHolds, <1>1, PTL

-----------------------------------------------------------------------------
(***************************************************************************)
(* Refinement of the atomic config register ConfigRegistry.  Under IInv    *)
(* the registry as a whole (Reg between reloads, pending during one) is   *)
(* the registry of the last good config, so only UpdateArraysLoad, which  *)
(* changes that config, changes it.                                       *)
(***************************************************************************)
AReg == IF upc = "idle" THEN Reg ELSE pending

LEMMA ARegIsLoaded == IInv => AReg = LoadedRegistry
BY DEF IInv, AReg

\* Every step of the operator, the updater and the handlers is an edit, an
\* atomic reload, or leaves the file, the registry as a whole and the
\* pending change as they were.
LEMMA StepRefines == IInv /\ [Next]_vars => [Atomic!Next]_Atomic!vars
<1> SUFFICES ASSUME IInv, [Next]_vars PROVE [Atomic!Next]_Atomic!vars
  OBVIOUS
<1> USE DEF updVars, regVars, rdrVars, Atomic!vars
<1>1. AReg = LoadedRegistry /\ AReg' = LoadedRegistry'
  <2>1. IInv'
    BY NextIInv
  <2>2. AReg' = LoadedRegistry'
    BY <2>1 DEF IInv, AReg
  <2> QED BY <2>2, ARegIsLoaded
<1>2. ASSUME lastGood' = lastGood PROVE AReg' = AReg
  BY <1>1, <1>2 DEF LoadedRegistry
<1>3. CASE EditConfig
  <2>1. \E f \in Files \ {file} : file' = f
    BY <1>3 DEF EditConfig
  <2>2. dirty' = TRUE /\ AReg' = AReg
    BY <1>2, <1>3 DEF EditConfig
  <2> QED BY <2>1, <2>2 DEF Atomic!Next, Atomic!Edit, AReg
<1>4. CASE UpdateArraysFail
  <2>1. dirty /\ dirty' = FALSE /\ file' = file /\ ~GetPowerStoreArrays(file).ok
    BY <1>4 DEF UpdateArraysFail
  <2>2. AReg' = AReg
    BY <1>2, <1>4 DEF UpdateArraysFail
  <2> QED BY <2>1, <2>2 DEF Atomic!Next, Atomic!Reload, AReg
<1>5. CASE UpdateArraysLoad
  <2>1. /\ dirty /\ dirty' = FALSE /\ file' = file /\ GetPowerStoreArrays(file).ok
        /\ AReg' = GetPowerStoreArrays(file).reg
    BY <1>5 DEF UpdateArraysLoad, AReg
  <2> QED BY <2>1 DEF Atomic!Next, Atomic!Reload, AReg
<1>6. CASE SetArrays \/ SetIPToArray \/ SetDefaultArray
  <2>1. lastGood' = lastGood /\ file' = file /\ dirty' = dirty
    BY <1>6 DEF SetArrays, SetIPToArray, SetDefaultArray
  <2> QED BY <1>2, <2>1 DEF AReg
<1>7. ASSUME NEW r \in Readers, ReadDefault(r) \/ ParseVolumeID(r) \/ LookupArray(r)
      PROVE  [Atomic!Next]_Atomic!vars
  <2>1. lastGood' = lastGood /\ file' = file /\ dirty' = dirty
    BY <1>7 DEF ReadDefault, ParseVolumeID, LookupArray
  <2> QED BY <1>2, <2>1 DEF AReg
<1>8. CASE UNCHANGED vars
  BY <1>8 DEF vars, Reg
<1> QED BY <1>3, <1>4, <1>5, <1>6, <1>7, <1>8 DEF Next, Updater

\* UpdateArrays' three critical sections together implement an atomic
\* reload of the config file (the safety part of ImplementsConfigRegistry),
\* for every set of arrays, hosts, configs and handlers.
THEOREM AtomicReload == Spec => Atomic!Safety
<1>1. Init => Atomic!Init
  BY DEF Init, Atomic!Init, Reg, EmptyRegistry
<1>. QED
  BY <1>1, StepRefines, IInvHolds, PTL DEF Spec, Atomic!Safety

=============================================================================
