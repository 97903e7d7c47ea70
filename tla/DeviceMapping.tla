---------------------------- MODULE DeviceMapping ---------------------------
(***************************************************************************)
(* The volume-to-device mapping files of the node (base.go:296-317): one  *)
(* file tmpDir/volID per staged volume, holding the device name.          *)
(* createMapping is fs.WriteFile, which opens the file with O_TRUNC and   *)
(* then writes: the write may fail, or the node restart, between the two, *)
(* leaving an empty file behind.  The container orchestrator has at most *)
(* one stage call of a volume in flight (CSI), so a volume has at most one *)
(* createMapping in progress; getMapping and deleteMapping may run at any  *)
(* point of it, and the node may restart at any point.                     *)
(***************************************************************************)
EXTENDS Naturals

CONSTANTS
    Vols,       \* volume IDs
    Devices     \* device names

Absent == "absent"
Empty == "empty"
NoDevice == "none"

\* What getMapping returns: the device, or the error of ReadFile or of
\* the emptiness check.
Results == [ok : {TRUE}, dev : Devices] \cup [ok : {FALSE}, err : {"notExist", "noDevice"}]
NoResult == [ok |-> FALSE, err |-> "none"]

VARIABLES
    files,     \* the content of each mapping file
    writing,   \* the device a createMapping of the volume is writing, or NoDevice
    result,    \* the last result of getMapping for each volume
    created    \* history: the device of the last createMapping that returned nil
vars == <<files, writing, result, created>>

TypeOK ==
    /\ files \in [Vols -> {Absent, Empty} \cup Devices]
    /\ writing \in [Vols -> Devices \cup {NoDevice}]
    /\ result \in [Vols -> Results \cup {NoResult}]
    /\ created \in [Vols -> Devices \cup {NoDevice}]

Init ==
    /\ files = [v \in Vols |-> Absent]
    /\ writing = [v \in Vols |-> NoDevice]
    /\ result = [v \in Vols |-> NoResult]
    /\ created = [v \in Vols |-> NoDevice]

\* createMapping: WriteFile opens tmpDir/volID, creating or truncating it.
CreateMappingOpen(v, d) ==
    /\ writing[v] = NoDevice
    /\ files' = [files EXCEPT ![v] = Empty]
    /\ writing' = [writing EXCEPT ![v] = d]
    /\ UNCHANGED <<result, created>>

\* ... then writes the device name and returns nil,
CreateMappingWrite(v) ==
    /\ writing[v] # NoDevice
    /\ files' = [files EXCEPT ![v] = writing[v]]
    /\ created' = [created EXCEPT ![v] = writing[v]]
    /\ writing' = [writing EXCEPT ![v] = NoDevice]
    /\ UNCHANGED result

\* ... or the write fails and createMapping returns its error.
CreateMappingFail(v) ==
    /\ writing[v] # NoDevice
    /\ writing' = [writing EXCEPT ![v] = NoDevice]
    /\ UNCHANGED <<files, result, created>>

\* The node plugin restarts: calls in progress end, the files stay.
Restart ==
    /\ \E v \in Vols : writing[v] # NoDevice
    /\ writing' = [v \in Vols |-> NoDevice]
    /\ UNCHANGED <<files, result, created>>

\* getMapping without the check for an empty file.
ReadMappingUnchecked(f) ==
    IF f = Absent THEN [ok |-> FALSE, err |-> "notExist"]
    ELSE [ok |-> TRUE, dev |-> IF f = Empty THEN NoDevice ELSE f]
\* getMapping: ReadFile's error, "no device name in mapping", or the device.
ReadMapping(f) ==
    IF f = Absent THEN [ok |-> FALSE, err |-> "notExist"]
    ELSE IF f = Empty THEN [ok |-> FALSE, err |-> "noDevice"]
    ELSE [ok |-> TRUE, dev |-> f]

GetMapping(v) ==
    /\ result' = [result EXCEPT ![v] = ReadMapping(files[v])]
    /\ UNCHANGED <<files, writing, created>>

\* deleteMapping: Remove, with a missing file counted as success.
DeleteMapping(v) ==
    /\ files' = [files EXCEPT ![v] = Absent]
    /\ created' = [created EXCEPT ![v] = NoDevice]
    /\ UNCHANGED <<writing, result>>

Next ==
    \/ \E v \in Vols, d \in Devices : CreateMappingOpen(v, d)
    \/ \E v \in Vols : \/ CreateMappingWrite(v) \/ CreateMappingFail(v)
                       \/ GetMapping(v) \/ DeleteMapping(v)
    \/ Restart

Spec == Init /\ [][Next]_vars

(***************************************************************************)
(* Properties.                                                             *)
(***************************************************************************)
\* getMapping (base.go:302-310) yields a device only when it is the one the
\* last successful createMapping of the volume wrote and no deleteMapping
\* came after it: a mapping emptied by a failed write or a restart after the
\* truncation is an error, never a device.
MappingIsLastCreated ==
    [][\A v \in Vols : result'[v] # result[v] /\ result'[v].ok
                         => result'[v].dev = created[v]]_vars

=============================================================================
