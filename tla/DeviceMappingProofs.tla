------------------------- MODULE DeviceMappingProofs -------------------------
(***************************************************************************)
(* Proofs about the volume-to-device mapping files (DeviceMapping), for    *)
(* every set of volumes and devices.                                      *)
(***************************************************************************)
EXTENDS DeviceMapping, TLAPS

\* A mapping file with a device name in it holds the device of the last
\* createMapping of that volume that returned nil.
FileIsLastCreated ==
    \A v \in Vols : files[v] \notin {Absent, Empty} => files[v] = created[v]

IInv == TypeOK /\ FileIsLastCreated

LEMMA InitIInv == Init => IInv
BY DEF Init, IInv, TypeOK, FileIsLastCreated, NoResult, Results

LEMMA NextIInv == IInv /\ [Next]_vars => IInv'
<1> SUFFICES ASSUME IInv, [Next]_vars PROVE IInv'
    OBVIOUS
<1> USE DEF IInv, TypeOK, FileIsLastCreated
<1>1. ASSUME NEW v \in Vols, NEW d \in Devices, CreateMappingOpen(v, d) PROVE IInv'
    BY <1>1 DEF CreateMappingOpen
<1>2. ASSUME NEW v \in Vols, CreateMappingWrite(v) PROVE IInv'
    BY <1>2 DEF CreateMappingWrite
<1>3. ASSUME NEW v \in Vols, CreateMappingFail(v) PROVE IInv'
    BY <1>3 DEF CreateMappingFail
<1>4. ASSUME NEW v \in Vols, GetMapping(v) PROVE IInv'
    <2>1. ReadMapping(files[v]) \in Results
        BY DEF ReadMapping, Results
    <2> QED BY <1>4, <2>1 DEF GetMapping
<1>5. ASSUME NEW v \in Vols, DeleteMapping(v) PROVE IInv'
    BY <1>5 DEF DeleteMapping
<1>6. CASE Restart
    BY <1>6 DEF Restart
<1>7. CASE UNCHANGED vars
    BY <1>7 DEF vars
<1> QED BY <1>1, <1>2, <1>3, <1>4, <1>5, <1>6, <1>7 DEF Next

\* The invariant holds in every reachable state.
THEOREM IInvHolds == Spec => []IInv
BY InitIInv, NextIInv, PTL DEF Spec

\* Type correctness of the mapping files, the writes in progress and the
\* answers of getMapping, whatever writes fail and whenever the node restarts.
THEOREM TypeCorrect == Spec => []TypeOK
BY IInvHolds, PTL DEF IInv

\* getMapping (base.go:300-309) yields only the device of the last
\* createMapping that returned nil, for every set of volumes and devices.
THEOREM GetMappingReturnsLastCreated == Spec => MappingIsLastCreated
<1>1. IInv /\ [Next]_vars
        => [\A v \in Vols : result'[v] # result[v] /\ result'[v].ok
                              => result'[v].dev = created[v]]_vars
    <2> SUFFICES ASSUME IInv, [Next]_vars, NEW v \in Vols,
                        result'[v] # result[v], result'[v].ok
                 PROVE  result'[v].dev = created[v]
        OBVIOUS
    <2>1. PICK u \in Vols : GetMapping(u)
        BY DEF Next, vars, CreateMappingOpen, CreateMappingWrite, CreateMappingFail,
               DeleteMapping, Restart
    <2>2. u = v /\ result'[v] = ReadMapping(files[v])
        BY <2>1 DEF GetMapping, IInv, TypeOK
    <2>3. files[v] \notin {Absent, Empty} /\ result'[v].dev = files[v]
        BY <2>2 DEF ReadMapping
    <2> QED BY <2>3 DEF IInv, FileIsLastCreated
<1> QED BY <1>1, IInvHolds, PTL DEF Spec, MappingIsLastCreated
=============================================================================
