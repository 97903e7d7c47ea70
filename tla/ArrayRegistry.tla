--------------------------- MODULE ArrayRegistry ---------------------------
(***************************************************************************)
(* The registry of PowerStore arrays of package array (src/unnamed/        *)
(* part_001): the Locker's arrays map and default array, the package-level *)
(* IPToArray index, UpdateArrays that reloads all three from the config    *)
(* file, and a request handler that resolves the array of a volume handle  *)
(* from them (CreateRemoteVolume and the other controller handlers).       *)
(*                                                                         *)
(* UpdateArrays publishes the new state with three separate critical       *)
(* sections (SetArrays, setIPToArray, SetDefaultArray), and a handler      *)
(* reads DefaultArray(), IPToArray and Arrays() at three different times,  *)
(* so each of these is an action of its own.                               *)
(***************************************************************************)
EXTENDS Integers, Sequences, FiniteSets, FiniteSetsExt

CONSTANTS
    GIDs,          \* the GlobalIDs an array entry of the config may carry
    Hosts,         \* the IPs / host names found in the entries' endpoints
    NoGID,         \* the empty GlobalID ""
    BadEndpoint,   \* an endpoint from which no IP or host can be taken
    NilEntry,      \* a null element of the YAML list "arrays"
    NoArray,       \* a nil *PowerStoreArray
    BadFile,       \* a config file that cannot be read or unmarshalled
    Configs,       \* the array lists the config file may hold
    Readers,       \* concurrent request handlers
    MaxEdits       \* bound on the edits of the config file

\* One element of the YAML list "arrays" (PowerStoreArray, lines 260-273),
\* reduced to the fields the registry is built from.  clientOK says whether
\* gopowerstore.NewClientWithArgs succeeds for the entry's endpoint.
Entry == [gid : GIDs \cup {NoGID}, host : Hosts \cup {BadEndpoint},
          isDefault : BOOLEAN, clientOK : BOOLEAN]

Files == Configs \cup {BadFile}

\* The volume handles a handler resolves: a bare legacy ID, a legacy
\* handle carrying an IP, and a handle carrying a GlobalID.
Handles == {[kind |-> "bare"]}
           \cup [kind : {"ip"}, host : Hosts]
           \cup [kind : {"gid"}, gid : GIDs]

ASSUME ConstantsAssumption ==
    /\ NoGID \notin GIDs
    /\ BadEndpoint \notin Hosts
    /\ NilEntry \notin Entry
    /\ NoArray \notin Entry
    /\ BadFile \notin Seq(Entry \cup {NilEntry})
    /\ Configs \subseteq Seq(Entry \cup {NilEntry})
    /\ MaxEdits \in Nat

\* The state of the registry: Locker.arrays, IPToArray, Locker.defaultArray.
Registry == [arrays : UNION {[G -> Entry] : G \in SUBSET GIDs},
             ip : UNION {[H -> GIDs] : H \in SUBSET Hosts},
             default : Entry \cup {NoArray}]

EmptyRegistry == [arrays |-> [g \in {} |-> NoArray],
                  ip |-> [h \in {} |-> NoGID],
                  default |-> NoArray]

(***************************************************************************)
(* GetPowerStoreArrays (lines 298-395).  The loop stops at the first null  *)
(* element, returning what it has built with a nil error (line 332); an    *)
(* entry without GlobalID (334), whose client cannot be created (351) or   *)
(* whose endpoint yields no IP (369-380) fails the whole call.  A later    *)
(* entry overwrites an earlier one with the same GlobalID or IP (386-387); *)
(* the default is the first entry flagged isDefault, else the first        *)
(* element of the list (326, 388-391).                                     *)
(***************************************************************************)
EntryFails(e) == e.gid = NoGID \/ ~e.clientOK \/ e.host = BadEndpoint

StopIndex(c) ==
    LET stops == {i \in 1..Len(c) : c[i] = NilEntry \/ EntryFails(c[i])}
    IN  IF stops = {} THEN Len(c) + 1 ELSE Min(stops)

Loaded(c) == 1..(StopIndex(c) - 1)

LastWith(c, field, v) == Max({i \in Loaded(c) : c[i][field] = v})

\* Mutant: the default is only an entry flagged isDefault.
BuildRegistryNoFallback(c) ==
    LET done == Loaded(c)
        flagged == {i \in done : c[i].isDefault}
    IN  [arrays |-> [g \in {c[i].gid : i \in done} |-> c[LastWith(c, "gid", g)]],
         ip |-> [h \in {c[i].host : i \in done} |-> c[LastWith(c, "host", h)].gid],
         default |-> IF flagged # {} THEN c[Min(flagged)] ELSE NoArray]

BuildRegistry(c) ==
    LET done == Loaded(c)
        flagged == {i \in done : c[i].isDefault}
    IN  [arrays |-> [g \in {c[i].gid : i \in done} |-> c[LastWith(c, "gid", g)]],
         ip |-> [h \in {c[i].host : i \in done} |-> c[LastWith(c, "host", h)].gid],
         default |-> IF flagged # {} THEN c[Min(flagged)]
                     ELSE IF c[1] = NilEntry THEN NoArray ELSE c[1]]

GetPowerStoreArrays(f) ==
    IF f = BadFile THEN [ok |-> FALSE, reg |-> EmptyRegistry]
    ELSE IF Len(f) = 0 THEN [ok |-> TRUE, reg |-> EmptyRegistry]
    ELSE IF StopIndex(f) <= Len(f) /\ f[StopIndex(f)] # NilEntry
         THEN [ok |-> FALSE, reg |-> EmptyRegistry]
    ELSE [ok |-> TRUE, reg |-> BuildRegistry(f)]

\* The outcomes of resolving a handle: an array, "failed to find array"
\* (line 1458), or a nil dereference.
Found(e) == [kind |-> "found", array |-> e]
NotFound == [kind |-> "notFound"]
Panic == [kind |-> "panic"]
NoResult == [kind |-> "none"]
Results == {Found(e) : e \in Entry} \cup {NotFound, Panic}

\* What a handler obtains for handle h when it reads all of registry reg:
\* ParseVolumeID (lines 438-480) then s.Arrays()[arrayID].
ResolveIn(reg, h) ==
    LET gid == CASE h.kind = "bare" -> IF reg.default = NoArray THEN NoGID
                                        ELSE reg.default.gid
                 [] h.kind = "ip"   -> IF h.host \in DOMAIN reg.ip
                                        THEN reg.ip[h.host] ELSE NoGID
                 [] h.kind = "gid"  -> h.gid
    IN  CASE h.kind = "bare" /\ reg.default = NoArray -> Panic
          [] gid \in DOMAIN reg.arrays                -> Found(reg.arrays[gid])
          [] OTHER                                    -> NotFound

VARIABLES
    file,          \* content of the config file
    edits,         \* edits made to the file so far
    dirty,         \* a config change not yet handled by UpdateArrays
    arrays,        \* Locker.arrays
    ipToArray,     \* package variable IPToArray
    defaultArray,  \* Locker.defaultArray
    upc,           \* where the running UpdateArrays is
    pending,       \* the registry UpdateArrays is publishing
    lastGood,      \* history: the last file content that loaded without error
    published,     \* history: the registries UpdateArrays has completed
    rpc,           \* where each handler is
    rhandle,       \* the handle each handler resolves
    rdefault,      \* DefaultArray() as the handler read it
    rgid,          \* arrayID as ParseVolumeID returned it
    rresult        \* what the handler resolved

updVars == <<file, edits, dirty, upc, pending, lastGood, published>>
regVars == <<arrays, ipToArray, defaultArray>>
rdrVars == <<rpc, rhandle, rdefault, rgid, rresult>>
vars == <<updVars, regVars, rdrVars>>

Reg == [arrays |-> arrays, ip |-> ipToArray, default |-> defaultArray]

\* The registry the last successful load of the file produced.
LoadedRegistry == IF lastGood = BadFile THEN EmptyRegistry
                  ELSE GetPowerStoreArrays(lastGood).reg

TypeOK ==
    /\ file \in Files
    /\ edits \in 0..MaxEdits
    /\ dirty \in BOOLEAN
    /\ Reg \in Registry
    /\ upc \in {"idle", "setArrays", "setIP", "setDefault"}
    /\ pending \in Registry
    /\ lastGood \in Files
    /\ published \subseteq Registry
    /\ rpc \in [Readers -> {"idle", "parse", "lookup"}]
    /\ rhandle \in [Readers -> Handles]
    /\ rdefault \in [Readers -> Entry \cup {NoArray}]
    /\ rgid \in [Readers -> GIDs \cup {NoGID}]
    /\ rresult \in [Readers -> Results \cup {NoResult}]

\* The zero Locker before BeforeServe's first UpdateArrays; that first call
\* is the pending change.
Init ==
    /\ file \in Files
    /\ edits = 0
    /\ dirty = TRUE
    /\ arrays = EmptyRegistry.arrays
    /\ ipToArray = EmptyRegistry.ip
    /\ defaultArray = NoArray
    /\ upc = "idle"
    /\ pending = EmptyRegistry
    /\ lastGood = BadFile
    /\ published = {EmptyRegistry}
    /\ rpc = [r \in Readers |-> "idle"]
    /\ rhandle = [r \in Readers |-> [kind |-> "bare"]]
    /\ rdefault = [r \in Readers |-> NoArray]
    /\ rgid = [r \in Readers |-> NoGID]
    /\ rresult = [r \in Readers |-> NoResult]

\* The operator edits the config file; the watcher will call UpdateArrays.
EditConfig ==
    /\ edits < MaxEdits
    /\ \E f \in Files \ {file} : file' = f
    /\ edits' = edits + 1
    /\ dirty' = TRUE
    /\ UNCHANGED <<upc, pending, lastGood, published, regVars, rdrVars>>

\* Mutant: the error check is lost, so a reload may be dropped as if the
\* file had failed to parse.
UpdateArraysFailUnchecked ==
    /\ upc = "idle" /\ dirty
    /\ dirty' = FALSE
    /\ UNCHANGED <<file, edits, upc, pending, lastGood, published,
                   regVars, rdrVars>>

\* UpdateArrays (lines 245-250): read and parse the file; on error return
\* before touching the registry.
UpdateArraysFail ==
    /\ upc = "idle" /\ dirty
    /\ ~GetPowerStoreArrays(file).ok
    /\ dirty' = FALSE
    /\ UNCHANGED <<file, edits, upc, pending, lastGood, published,
                   regVars, rdrVars>>

UpdateArraysLoad ==
    /\ upc = "idle" /\ dirty
    /\ GetPowerStoreArrays(file).ok
    /\ pending' = GetPowerStoreArrays(file).reg
    /\ lastGood' = file
    /\ dirty' = FALSE
    /\ upc' = "setArrays"
    /\ UNCHANGED <<file, edits, published, regVars, rdrVars>>

\* s.SetArrays(arrays) (lines 217-221, 251).
SetArrays ==
    /\ upc = "setArrays"
    /\ arrays' = pending.arrays
    /\ upc' = "setIP"
    /\ UNCHANGED <<file, edits, dirty, pending, lastGood, published,
                   ipToArray, defaultArray, rdrVars>>

\* Mutant: UpdateArrays forgets to install the new IP index.
SetIPToArrayForgotten ==
    /\ upc = "setIP"
    /\ upc' = "setDefault"
    /\ UNCHANGED <<file, edits, dirty, pending, lastGood, published,
                   arrays, ipToArray, defaultArray, rdrVars>>

\* setIPToArray(matcher) (lines 238-242, 252).
SetIPToArray ==
    /\ upc = "setIP"
    /\ ipToArray' = pending.ip
    /\ upc' = "setDefault"
    /\ UNCHANGED <<file, edits, dirty, pending, lastGood, published,
                   arrays, defaultArray, rdrVars>>

\* s.SetDefaultArray(defaultArray) (lines 231-235, 253-254).
SetDefaultArray ==
    /\ upc = "setDefault"
    /\ defaultArray' = pending.default
    /\ upc' = "idle"
    /\ published' = published \cup {pending}
    /\ UNCHANGED <<file, edits, dirty, pending, lastGood, arrays, ipToArray,
                   rdrVars>>

(***************************************************************************)
(* A handler resolving the array of volume handle h (CreateRemoteVolume,   *)
(* Dockerfile lines 1435-1458): s.DefaultArray() is read as the argument   *)
(* of ParseVolumeID, ParseVolumeID reads IPToArray, then s.Arrays() is     *)
(* indexed with the arrayID it returned.                                   *)
(***************************************************************************)
ReadDefault(r) ==
    /\ rpc[r] = "idle"
    /\ \E h \in Handles : rhandle' = [rhandle EXCEPT ![r] = h]
    /\ rdefault' = [rdefault EXCEPT ![r] = defaultArray]
    /\ rresult' = [rresult EXCEPT ![r] = NoResult]
    /\ rpc' = [rpc EXCEPT ![r] = "parse"]
    /\ UNCHANGED <<updVars, regVars, rgid>>

\* ParseVolumeID's arrayID: the default's GlobalID for a bare ID (445),
\* IPToArray[ip] for an IP (473-475), the field itself otherwise (477).
\* A bare ID with a nil default dereferences nil and panics.
ParseVolumeID(r) ==
    /\ rpc[r] = "parse"
    /\ \/ /\ rhandle[r].kind = "bare" /\ rdefault[r] = NoArray
          /\ rresult' = [rresult EXCEPT ![r] = Panic]
          /\ rpc' = [rpc EXCEPT ![r] = "idle"]
          /\ UNCHANGED rgid
       \/ /\ ~(rhandle[r].kind = "bare" /\ rdefault[r] = NoArray)
          /\ rgid' = [rgid EXCEPT ![r] =
                CASE rhandle[r].kind = "bare" -> rdefault[r].gid
                  [] rhandle[r].kind = "ip" ->
                        IF rhandle[r].host \in DOMAIN ipToArray
                        THEN ipToArray[rhandle[r].host] ELSE NoGID
                  [] rhandle[r].kind = "gid" -> rhandle[r].gid]
          /\ rpc' = [rpc EXCEPT ![r] = "lookup"]
          /\ UNCHANGED rresult
    /\ UNCHANGED <<updVars, regVars, rhandle, rdefault>>

\* Mutant: the ok of the map lookup is not checked and the nil array of a
\* missing key is used.
LookupArrayUnchecked(r) ==
    /\ rpc[r] = "lookup"
    /\ rresult' = [rresult EXCEPT ![r] =
                     IF rgid[r] \in DOMAIN arrays THEN Found(arrays[rgid[r]])
                     ELSE Found(NoArray)]
    /\ rpc' = [rpc EXCEPT ![r] = "idle"]
    /\ UNCHANGED <<updVars, regVars, rhandle, rdefault, rgid>>

\* arr, ok := s.Arrays()[arrayID] (1455-1459).
LookupArray(r) ==
    /\ rpc[r] = "lookup"
    /\ rresult' = [rresult EXCEPT ![r] =
                     IF rgid[r] \in DOMAIN arrays THEN Found(arrays[rgid[r]])
                     ELSE NotFound]
    /\ rpc' = [rpc EXCEPT ![r] = "idle"]
    /\ UNCHANGED <<updVars, regVars, rhandle, rdefault, rgid>>

Updater == UpdateArraysFail \/ UpdateArraysLoad \/ SetArrays
           \/ SetIPToArray \/ SetDefaultArray

Next ==
    \/ EditConfig
    \/ Updater
    \/ \E r \in Readers : ReadDefault(r) \/ ParseVolumeID(r) \/ LookupArray(r)

\* The watcher runs UpdateArrays for every change, and an UpdateArrays that
\* has started runs to completion.
Spec == Init /\ [][Next]_vars /\ WF_vars(Updater)

-----------------------------------------------------------------------------
(***************************************************************************)
(* Properties.                                                             *)
(***************************************************************************)

\* Whenever no UpdateArrays is running, the arrays map, the IP index and the
\* default array are all three those of the last config that loaded
\* without error: a failed reload leaves the registry as it was, and a
\* successful one replaces all of it.
RegistryMatchesLastGoodConfig ==
    upc = "idle" => Reg = LoadedRegistry

\* Once the config file stops changing, UpdateArrays eventually leaves the
\* registry as the file describes, if the file loads.
EventuallyReflectsFile ==
    <>[](/\ upc = "idle"
         /\ GetPowerStoreArrays(file).ok => Reg = GetPowerStoreArrays(file).reg)

\* A handler resolves a volume handle to what some whole registry would give
\* it, one that UpdateArrays completed or the one it is publishing: it never
\* acts on a mixture of the registry before and after a reload (spec
\* section 3: readers never observe a registry that mixes pre- and
\* post-reload state).
ResolvedAsSomePublished ==
    \A r \in Readers :
        rresult[r] # NoResult =>
            rresult[r] \in {ResolveIn(p, rhandle[r]) : p \in published \cup {pending}}

\* After a reload that returned no error, every array of the config file is
\* in the registry (spec 4.1: a config that fails to parse is refused as a
\* whole).
AllConfiguredArraysLoaded ==
    upc = "idle" /\ lastGood # BadFile =>
        \A i \in 1..Len(lastGood) :
            lastGood[i] # NilEntry => lastGood[i].gid \in DOMAIN arrays

\* The default array that ParseVolumeID dereferences for a bare legacy
\* volume ID (line 445) is nil, between reloads, only when the registry
\* holds no array at all: a config with arrays always yields a default,
\* flagged or first.
DefaultSetWhenArraysLoaded ==
    upc = "idle" => (defaultArray = NoArray <=> DOMAIN arrays = {})

\* The registry as a whole: the one installed between reloads, the one
\* being published while UpdateArrays runs.
Atomic == INSTANCE ConfigRegistry
            WITH config <- file,
                 registry <- (IF upc = "idle" THEN Reg ELSE pending),
                 stale <- dirty,
                 Load <- GetPowerStoreArrays,
                 Empty <- EmptyRegistry

\* UpdateArrays (lines 244-255) implements an atomic reload of the config:
\* the three critical sections together install the registry of the
\* content read, a failed load leaves the registry alone, and every change
\* of the file is reloaded.
ImplementsConfigRegistry == Atomic!Spec

=============================================================================
