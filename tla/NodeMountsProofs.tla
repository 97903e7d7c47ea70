-------------------------- MODULE NodeMountsProofs --------------------------
(***************************************************************************)
(* Proofs about consistentRead in NodeMounts: type correctness, and that  *)
(* it gives up only after procMountsRetries + 1 reads no two consecutive  *)
(* of which ran with the mount table at rest.                             *)
(*                                                                         *)
(* The argument: a ReadFile during which the table did not change returns *)
(* the table (ReadIsTable).  So when no write happened since the previous *)
(* ReadFile began, that one also read the table, oldContent is the table, *)
(* and the comparison succeeds; the give-up branch is only reached with a *)
(* write in every window, which is what the history variables record.    *)
(*                                                                         *)
(* Second, that a query during which the table never changed answers from *)
(* the table: QInv ties held = {file} to windows free of writes.          *)
(***************************************************************************)
EXTENDS NodeMounts, SequenceTheorems, FiniteSetTheorems, TLAPS

\* What the first read of a ReadFile returns from table f.
Prefix(f) == SubSeq(f, 1, IF Chunk < Len(f) THEN Chunk ELSE Len(f))

\* The inductive invariant.
IInv ==
    /\ TypeOK
    /\ rpc = "begin" => nreads <= Retries
    /\ rpc = "end" => 1 <= nreads /\ nreads <= Retries + 1
    /\ rpc # "idle" => ~quiet
    /\ rpc = "begin" /\ nreads >= 1 /\ ~winCur => old = file
    /\ rpc = "end" /\ ~winCur => part = Prefix(file)
    /\ rpc = "end" /\ nreads > 1 /\ ~winPrev => old = file /\ ~winCur
    /\ got.status = "gaveUp" => nreads = Retries + 1 /\ ~quiet

(***************************************************************************)
(* What the history says of a call whose table never changed.  Every      *)
(* mount or unmount during a call adds the new table to held, and a new   *)
(* table differs from the old one, so held = {file} means that no write   *)
(* happened in the call: not in the running ReadFile's window, and not in *)
(* the previous one.                                                       *)
(***************************************************************************)
QInv ==
    /\ rpc # "idle" => file \in held
    /\ rpc = "end" /\ winCur => held # {file}
    /\ rpc = "end" /\ nreads > 1 /\ winPrev => held # {file}
    /\ rpc = "begin" /\ nreads >= 1 /\ winCur => held # {file}

(***************************************************************************)
(* Lemmas about the tables and the reads.                                  *)
(***************************************************************************)
LEMMA ChunkPositive == Chunk \in Nat \ {0} /\ Retries \in Nat /\ MaxWrites \in Nat
BY NodeMountsAssumption DEF NodeMountsAssumption

\* The empty table, and the result of a consistentRead not yet returned.
LEMMA EmptyTable == <<>> \in Tables /\ NoResult \in Results
<1>1. <<>> \in Tables
    BY EmptySeq DEF Tables
<1> QED BY <1>1 DEF NoResult, Results

\* The tables the kernel can list at start are sequences of entries.
LEMMA MountTablesType == MountTables \subseteq Tables
<1> SUFFICES ASSUME NEW S \in SUBSET Entries, NEW f \in SetToSeqs(S)
             PROVE  f \in Seq(Entries)
    BY DEF MountTables, Tables
<1>1. Cardinality(S) \in Nat
    BY FS_Subset, FS_CardinalityType, NodeMountsAssumption DEF NodeMountsAssumption
<1>2. f \in [1..Cardinality(S) -> Entries]
    BY DEF SetToSeqs
<1> QED BY <1>1, <1>2, SeqDef

\* The first read returns a table of at most Chunk lines.
LEMMA PrefixType ==
    ASSUME NEW f \in Tables
    PROVE  /\ Prefix(f) \in Tables
           /\ Len(Prefix(f)) = IF Chunk < Len(f) THEN Chunk ELSE Len(f)
<1> DEFINE k == IF Chunk < Len(f) THEN Chunk ELSE Len(f)
<1>1. k \in 0..Len(f)
    BY ChunkPositive
<1>2. \A i \in 1..k : f[i] \in Entries
    BY <1>1 DEF Tables
<1> QED BY <1>1, <1>2, SubSeqProperties DEF Prefix, Tables

\* A ReadFile during which the table did not change returns the table.
LEMMA ReadIsTable ==
    ASSUME NEW f \in Tables
    PROVE  (IF Prefix(f) = <<>> THEN <<>>
            ELSE Prefix(f) \o SubSeq(f, Len(Prefix(f)) + 1, Len(f))) = f
<1> DEFINE k == IF Chunk < Len(f) THEN Chunk ELSE Len(f)
<1>1. Len(Prefix(f)) = k /\ k \in 0..Len(f)
    BY PrefixType, ChunkPositive
<1>2. CASE Prefix(f) = <<>>
    <2>1. k = 0
        BY <1>1, <1>2
    <2>2. Len(f) = 0
        BY <2>1, ChunkPositive DEF Tables
    <2> QED BY <1>2, <2>2, EmptySeq DEF Tables
<1>3. CASE Prefix(f) # <<>>
    <2>0. /\ f \in Seq(Entries)
          /\ 1 \in 1..Len(f) + 1 /\ k \in 1 - 1..Len(f) /\ Len(f) \in k..Len(f)
        BY <1>1 DEF Tables
    <2>1. SubSeq(f, 1, k) \o SubSeq(f, k + 1, Len(f)) = SubSeq(f, 1, Len(f))
        BY <2>0, ConcatAdjacentSubSeq
    <2> QED BY <1>1, <1>3, <2>1, SubSeqFull DEF Prefix, Tables
<1> QED BY <1>2, <1>3

\* Removing the line of an unmounted entry leaves a table.
LEMMA RemoveAtType ==
    ASSUME NEW f \in Tables, NEW i \in 1..Len(f)
    PROVE  RemoveAt(f, i) \in Tables
<1>1. SubSeq(f, 1, i - 1) \in Tables /\ SubSeq(f, i + 1, Len(f)) \in Tables
    BY SubSeqProperties DEF Tables
<1> QED BY <1>1, ConcatProperties DEF RemoveAt, Tables

\* Every query answers with a code of the handler.
LEMMA QueryAnswerCode ==
    ASSUME NEW q \in Queries, NEW t
    PROVE  QueryAnswer(q, t).code \in {"OK", "FailedPrecondition"}
<1>1. q.kind \in {"target", "published", "stagedDev", "remnant"}
    BY DEF Queries
<1> QED BY <1>1, Zenon DEF QueryAnswer

(***************************************************************************)
(* The invariant is inductive.                                             *)
(***************************************************************************)
LEMMA InitIInv == Init => IInv
<1> SUFFICES ASSUME Init PROVE IInv
    OBVIOUS
<1>1. file \in Tables
    BY MountTablesType DEF Init
<1>2. query \in Queries /\ got \in Results
    BY EmptyTable DEF Init
<1>3. TypeOK
    <2>1. writes \in 0..MaxWrites /\ nreads \in 0..(Retries + 1)
        BY ChunkPositive DEF Init
    <2>2. part \in Tables /\ old \in Tables /\ held \in SUBSET Tables
        BY EmptyTable DEF Init
    <2>3. answer.code \in {"none", "OK", "Internal", "FailedPrecondition"}
        BY DEF Init, NoAnswer
    <2>4. rpc \in {"idle", "begin", "end"} /\ winPrev \in BOOLEAN /\ winCur \in BOOLEAN
          /\ quiet \in BOOLEAN
        BY DEF Init
    <2> QED BY <1>1, <1>2, <2>1, <2>2, <2>3, <2>4 DEF TypeOK
<1> QED BY <1>3 DEF Init, IInv, NoResult

\* The content a ReadFile ends with, as ReadFileEnd computes it.
Data == IF part = <<>> THEN <<>> ELSE part \o SubSeq(file, Len(part) + 1, Len(file))

LEMMA DataType ==
    ASSUME TypeOK
    PROVE  /\ Data \in Tables
           /\ rpc = "end" /\ part = Prefix(file) => Data = file
<1>1. SubSeq(file, Len(part) + 1, Len(file)) \in Tables
    BY SubSeqProperties DEF TypeOK, Tables
<1>2. Data \in Tables
    BY <1>1, ConcatProperties, EmptySeq DEF Data, TypeOK, Tables
<1>3. part = Prefix(file) => Data = file
    BY ReadIsTable DEF Data, TypeOK
<1> QED BY <1>2, <1>3

LEMMA NextIInv == IInv /\ [Next]_vars => IInv'
<1> SUFFICES ASSUME IInv, [Next]_vars PROVE IInv'
    OBVIOUS
<1> USE ChunkPositive DEF vars, readerVars, historyVars
<1>0. TypeOK
    BY DEF IInv
<1>1. CASE StartCall
    <2>1. TypeOK'
        <3>1. query' \in Queries /\ got' \in Results
            BY <1>1, EmptyTable DEF StartCall
        <3>2. held' \in SUBSET Tables
            BY <1>0, <1>1 DEF StartCall, TypeOK
        <3>3. nreads' \in 0..(Retries + 1)
            BY <1>1 DEF StartCall
        <3>4. answer'.code \in {"none", "OK", "Internal", "FailedPrecondition"}
            BY <1>1 DEF StartCall, NoAnswer
        <3> QED BY <3>1, <3>2, <3>3, <3>4, <1>0, <1>1 DEF StartCall, TypeOK
    <2> QED BY <2>1, <1>1 DEF StartCall, IInv, NoResult
<1>2. CASE ReadFileBegin
    <2>1. part' = Prefix(file)
        BY <1>2 DEF ReadFileBegin, Prefix
    <2>2. TypeOK'
        <3>1. part' \in Tables
            BY <1>0, <2>1, PrefixType DEF TypeOK
        <3>2. nreads' \in 0..(Retries + 1)
            BY <1>0, <1>2 DEF ReadFileBegin, IInv, TypeOK
        <3> QED BY <3>1, <3>2, <1>0, <1>2 DEF ReadFileBegin, TypeOK
    <2>3. got.status # "gaveUp"
        BY <1>2 DEF ReadFileBegin, IInv
    <2> QED BY <1>0, <1>2, <2>1, <2>2, <2>3 DEF ReadFileBegin, IInv, TypeOK, Prefix
<1>3. CASE ReadFileEnd
    <2> DEFINE data == Data
    <2>0. /\ data \in Tables
          /\ ~winCur => data = file
          /\ rpc = "end" /\ 1 <= nreads /\ nreads <= Retries + 1 /\ ~quiet
        BY <1>0, <1>3, DataType DEF ReadFileEnd, IInv
    <2>1. ReadFileEnd <=>
            /\ rpc = "end"
            /\ \/ Finish("readError", <<>>) /\ UNCHANGED <<old, quiet>>
               \/ /\ nreads = 1
                  /\ old' = data
                  /\ IF 0 < Retries THEN rpc' = "begin" /\ UNCHANGED <<got, answer>>
                                    ELSE Finish("gaveUp", <<>>)
                  /\ UNCHANGED quiet
               \/ /\ nreads > 1
                  /\ quiet' = (quiet \/ ~winPrev)
                  /\ IF data = old
                       THEN Finish("ok", data) /\ UNCHANGED old
                       ELSE /\ ReplaceOldContent(data)
                            /\ IF RetryLeft(nreads)
                                 THEN rpc' = "begin" /\ UNCHANGED <<got, answer>>
                                 ELSE Finish("gaveUp", <<>>)
            /\ UNCHANGED <<file, writes, query, nreads, part, held, winPrev, winCur>>
        BY DEF ReadFileEnd, Data, bytesEqual
    <2>2. ASSUME NEW st, NEW t \in Tables, Finish(st, t),
                 st \in {"ok", "readError", "gaveUp"}
          PROVE  /\ got' \in Results
                 /\ answer'.code \in {"OK", "Internal", "FailedPrecondition"}
                 /\ rpc' = "idle" /\ got'.status = st
        BY <2>2, <1>0, QueryAnswerCode DEF Finish, Results, MountsError, TypeOK
    <2>3. CASE Finish("readError", <<>>) /\ UNCHANGED <<old, quiet>>
        <3>1. /\ got' \in Results
              /\ answer'.code \in {"OK", "Internal", "FailedPrecondition"}
              /\ rpc' = "idle" /\ got'.status = "readError"
            BY <2>3, <2>2, EmptySeq DEF Tables
        <3> QED BY <3>1, <2>1, <2>3, <1>0, <1>3 DEF IInv, TypeOK
    <2>4. CASE /\ nreads = 1
               /\ old' = data
               /\ IF 0 < Retries THEN rpc' = "begin" /\ UNCHANGED <<got, answer>>
                                 ELSE Finish("gaveUp", <<>>)
               /\ UNCHANGED quiet
        <3>1. CASE 0 < Retries
            <4>1. got.status # "gaveUp"
                BY <2>0, <2>4, <3>1 DEF IInv
            <4> QED BY <3>1, <4>1, <2>0, <2>1, <2>4, <1>0, <1>3 DEF IInv, TypeOK
        <3>3. CASE ~(0 < Retries)
            <4>1. /\ got' \in Results
                  /\ answer'.code \in {"OK", "Internal", "FailedPrecondition"}
                  /\ rpc' = "idle" /\ got'.status = "gaveUp"
                BY <2>4, <3>3, <2>2, EmptySeq DEF Tables
            <4> QED BY <3>3, <4>1, <2>0, <2>1, <2>4, <1>0, <1>3 DEF IInv, TypeOK
        <3> QED BY <3>1, <3>3
    <2>5. CASE /\ nreads > 1
               /\ quiet' = (quiet \/ ~winPrev)
               /\ IF data = old
                    THEN Finish("ok", data) /\ UNCHANGED old
                    ELSE /\ ReplaceOldContent(data)
                         /\ IF RetryLeft(nreads)
                              THEN rpc' = "begin" /\ UNCHANGED <<got, answer>>
                              ELSE Finish("gaveUp", <<>>)
        <3>1. CASE data = old
            <4>1. /\ got' \in Results
                  /\ answer'.code \in {"OK", "Internal", "FailedPrecondition"}
                  /\ rpc' = "idle" /\ got'.status = "ok"
                BY <2>0, <2>5, <3>1, <2>2
            <4> QED BY <3>1, <4>1, <2>0, <2>1, <2>5, <1>0, <1>3 DEF IInv, TypeOK
        <3>3. CASE data # old
            <4>1. winPrev /\ quiet' = FALSE
                BY <3>3, <2>0, <2>5, <1>3 DEF IInv
            <4>2. old' = data
                BY <3>3, <2>5 DEF ReplaceOldContent
            <4>3. CASE RetryLeft(nreads)
                <5>1. rpc' = "begin" /\ nreads <= Retries /\ got.status # "gaveUp"
                    BY <1>0, <3>3, <4>3, <2>0, <2>5 DEF RetryLeft, IInv, TypeOK
                <5> QED BY <5>1, <3>3, <4>1, <4>2, <4>3, <2>0, <2>1, <2>5, <1>0, <1>3
                        DEF IInv, TypeOK
            <4>4. CASE ~RetryLeft(nreads)
                <5>1. /\ got' \in Results
                      /\ answer'.code \in {"OK", "Internal", "FailedPrecondition"}
                      /\ rpc' = "idle" /\ got'.status = "gaveUp"
                    BY <3>3, <4>4, <2>5, <2>2, EmptySeq DEF Tables
                <5>2. nreads = Retries + 1
                    BY <1>0, <4>4, <2>0 DEF RetryLeft, TypeOK
                <5> QED BY <5>1, <5>2, <4>1, <4>2, <2>0, <2>1, <1>0, <1>3 DEF IInv, TypeOK
            <4> QED BY <4>3, <4>4
        <3> QED BY <3>1, <3>3
    <2> QED BY <2>1, <2>3, <2>4, <2>5, <1>3
<1>4. ASSUME NEW e \in Entries, NEW f \in Tables,
             file' = f, writes < MaxWrites, writes' = writes + 1,
             Record(f), UNCHANGED readerVars
      PROVE  IInv'
    <2>1. CASE rpc = "idle"
        BY <2>1, <1>4, <1>0 DEF Record, IInv, TypeOK
    <2>2. CASE rpc # "idle"
        <3>1. held' \in SUBSET Tables /\ winPrev' /\ winCur' /\ quiet' = quiet
            BY <2>2, <1>4, <1>0 DEF Record, TypeOK
        <3> QED BY <2>2, <3>1, <1>4, <1>0 DEF IInv, TypeOK
    <2> QED BY <2>1, <2>2
<1>5. CASE \E e \in Entries : Mount(e)
    <2>1. PICK e \in Entries : Mount(e)
        BY <1>5
    <2>2. Append(file, e) \in Tables
        BY <1>0, AppendProperties DEF TypeOK, Tables
    <2> QED BY <2>1, <2>2, <1>4 DEF Mount
<1>6. CASE \E e \in Entries : Unmount(e)
    <2>1. PICK e \in Entries : Unmount(e)
        BY <1>6
    <2>2. PICK i \in 1..Len(file) : file[i] = e /\ file' = RemoveAt(file, i)
                                   /\ Record(RemoveAt(file, i))
        BY <2>1 DEF Unmount
    <2>3. RemoveAt(file, i) \in Tables
        BY <1>0, RemoveAtType DEF TypeOK
    <2> QED BY <2>1, <2>2, <2>3, <1>4 DEF Unmount
<1>7. CASE UNCHANGED vars
    BY <1>7 DEF IInv, TypeOK
<1> QED BY <1>1, <1>2, <1>3, <1>5, <1>6, <1>7 DEF Next

(***************************************************************************)
(* QInv is inductive, given IInv.                                          *)
(***************************************************************************)
\* A mount or an unmount changes the table: it gains or loses a line.
LEMMA WriteChangesTable ==
    ASSUME NEW f \in Tables, NEW e \in Entries, NEW i \in 1..Len(f)
    PROVE  Append(f, e) # f /\ RemoveAt(f, i) # f
<1>0. Len(f) \in Nat
    BY DEF Tables
<1>1. Append(f, e) # f
    <2>1. Len(Append(f, e)) = Len(f) + 1
        BY AppendProperties DEF Tables
    <2> QED BY <1>0, <2>1
<1>2. RemoveAt(f, i) # f
    <2>1. /\ SubSeq(f, 1, i - 1) \in Seq(Entries)
          /\ Len(SubSeq(f, 1, i - 1)) = i - 1
          /\ SubSeq(f, i + 1, Len(f)) \in Seq(Entries)
          /\ Len(SubSeq(f, i + 1, Len(f))) = Len(f) - i
        BY SubSeqProperties DEF Tables
    <2> DEFINE a == SubSeq(f, 1, i - 1)
               b == SubSeq(f, i + 1, Len(f))
    <2>2. Len(a \o b) = Len(a) + Len(b)
        BY <2>1, ConcatProperties, Zenon
    <2>3. Len(a) + Len(b) # Len(f)
        <3>1. \A la, lb : la = i - 1 /\ lb = Len(f) - i => la + lb # Len(f)
            BY <1>0
        <3> QED BY <3>1, <2>1, Zenon
    <2>4. RemoveAt(f, i) = a \o b
        BY Zenon DEF RemoveAt
    <2> QED BY <2>2, <2>3, <2>4, Zenon
<1> QED BY <1>1, <1>2

\* ReadFileEnd, with the content it read named Data.
LEMMA ReadFileEndCases ==
    ReadFileEnd <=>
        /\ rpc = "end"
        /\ \/ Finish("readError", <<>>) /\ UNCHANGED <<old, quiet>>
           \/ /\ nreads = 1
              /\ old' = Data
              /\ IF 0 < Retries THEN rpc' = "begin" /\ UNCHANGED <<got, answer>>
                                ELSE Finish("gaveUp", <<>>)
              /\ UNCHANGED quiet
           \/ /\ nreads > 1
              /\ quiet' = (quiet \/ ~winPrev)
              /\ IF bytesEqual(Data, old)
                   THEN Finish("ok", Data) /\ UNCHANGED old
                   ELSE /\ ReplaceOldContent(Data)
                        /\ IF RetryLeft(nreads)
                             THEN rpc' = "begin" /\ UNCHANGED <<got, answer>>
                             ELSE Finish("gaveUp", <<>>)
        /\ UNCHANGED <<file, writes, query, nreads, part, held, winPrev, winCur>>
BY DEF ReadFileEnd, Data

LEMMA InitQInv == Init => QInv
BY DEF Init, QInv

LEMMA NextQInv == IInv /\ QInv /\ [Next]_vars => QInv'
<1> SUFFICES ASSUME IInv, QInv, [Next]_vars PROVE QInv'
    OBVIOUS
<1> USE DEF vars, readerVars, historyVars
<1>0. TypeOK
    BY DEF IInv
<1>1. CASE StartCall
    BY <1>1 DEF StartCall, QInv
<1>2. CASE ReadFileBegin
    BY <1>0, <1>2 DEF ReadFileBegin, QInv, TypeOK
<1>3. CASE ReadFileEnd
    <2>1. rpc' \in {"idle", "begin"}
        BY <1>3 DEF ReadFileEnd, Finish
    <2> QED BY <1>3, <2>1 DEF ReadFileEnd, QInv
<1>4. ASSUME NEW f, f # file, file' = f, Record(f), UNCHANGED readerVars
      PROVE  QInv'
    <2>1. CASE rpc = "idle"
        BY <2>1, <1>4 DEF QInv
    <2>2. CASE rpc # "idle"
        <3>1. held' = held \cup {f} /\ file \in held
            BY <2>2, <1>4 DEF Record, QInv
        <3>2. held' # {f} /\ f \in held'
            BY <3>1, <1>4
        <3> QED BY <3>2, <1>4 DEF QInv
    <2> QED BY <2>1, <2>2
<1>5. CASE \E e \in Entries : Mount(e)
    <2>1. PICK e \in Entries : Mount(e)
        BY <1>5
    <2>2. Append(file, e) # file
        BY <1>0, WriteChangesTable DEF TypeOK
    <2> QED BY <2>1, <2>2, <1>4 DEF Mount
<1>6. CASE \E e \in Entries : Unmount(e)
    <2>1. PICK e \in Entries : Unmount(e)
        BY <1>6
    <2>2. PICK i \in 1..Len(file) : file[i] = e /\ file' = RemoveAt(file, i)
                                   /\ Record(RemoveAt(file, i))
        BY <2>1 DEF Unmount
    <2>3. RemoveAt(file, i) # file
        BY <1>0, <2>1, WriteChangesTable DEF TypeOK
    <2> QED BY <2>1, <2>2, <2>3, <1>4 DEF Unmount
<1>7. CASE UNCHANGED vars
    BY <1>7 DEF QInv
<1> QED BY <1>1, <1>2, <1>3, <1>5, <1>6, <1>7 DEF Next

(***************************************************************************)
(* Theorems.                                                               *)
(***************************************************************************)
\* The invariant holds in every reachable state.
THEOREM IInvHolds == Spec => []IInv
BY InitIInv, NextIInv, PTL DEF Spec

\* Type correctness of the mount table, the handler and consistentRead's
\* locals.
THEOREM TypeCorrect == Spec => []TypeOK
BY IInvHolds, PTL DEF IInv

\* consistentRead (base.go:276-294) gives up only after Retries + 1 reads no
\* two consecutive of which ran with the mount table at rest, for every
\* number of retries and every chunk size.
THEOREM GiveUpOnlyAfterChanges == Spec => GiveUpOnlyWhenEveryPairChanged
<1>1. IInv /\ [Next]_vars => [got'.status = "gaveUp" => nreads = Retries + 1 /\ ~quiet']_vars
    <2> SUFFICES ASSUME IInv, [Next]_vars, got'.status = "gaveUp"
                 PROVE  nreads = Retries + 1 /\ ~quiet'
        OBVIOUS
    <2>1. nreads' = Retries + 1 /\ ~quiet'
        BY NextIInv DEF IInv
    <2>2. nreads' = nreads
        <3>1. ~StartCall
            BY DEF StartCall, NoResult
        <3>2. ~ReadFileBegin
            <4>1. SUFFICES ASSUME ReadFileBegin PROVE FALSE
                OBVIOUS
            <4>2. got.status = "gaveUp" /\ rpc = "begin"
                BY <4>1 DEF ReadFileBegin
            <4>3. nreads = Retries + 1 /\ nreads <= Retries
                BY <4>2 DEF IInv
            <4> QED BY <4>3, ChunkPositive
        <3> QED BY <3>1, <3>2 DEF Next, vars, ReadFileEnd, Mount, Unmount, readerVars
    <2> QED BY <2>1, <2>2
<1> QED BY <1>1, IInvHolds, PTL DEF Spec, GiveUpOnlyWhenEveryPairChanged

\* getMounts and consistentRead (base.go:263-294): a query during which no
\* mount or unmount happens answers from the mount table as it is, unless
\* the read fails or procMountsRetries is 0, for every number of retries
\* and every chunk size.  Along the way: the last ReadFile ran at rest, so
\* it read the table (ReadIsTable); with more than one read the one before
\* it ran at rest too, so oldContent is the table and the comparison
\* succeeds.
THEOREM QuietCallAnswered == Spec => QuietCallAnswersTable
<1>1. IInv /\ QInv /\ [Next]_vars =>
        [rpc # "idle" /\ rpc' = "idle" /\ held = {file} =>
             \/ got'.status = "readError"
             \/ got'.status = "gaveUp" /\ Retries = 0
             \/ got'.status = "ok" /\ answer' = QueryAnswer(query, file)]_vars
    <2> SUFFICES ASSUME IInv, QInv, [Next]_vars,
                        rpc # "idle", rpc' = "idle", held = {file}
                 PROVE  \/ got'.status = "readError"
                        \/ got'.status = "gaveUp" /\ Retries = 0
                        \/ got'.status = "ok" /\ answer' = QueryAnswer(query, file)
        OBVIOUS
    <2>1. ReadFileEnd
        <3>1. ~StartCall /\ ~ReadFileBegin /\ ~UNCHANGED vars
            BY DEF StartCall, ReadFileBegin, vars
        <3>2. \A e \in Entries : ~Mount(e) /\ ~Unmount(e)
            BY DEF Mount, Unmount, readerVars
        <3> QED BY <3>1, <3>2 DEF Next
    <2>2. rpc = "end" /\ ~winCur /\ part = Prefix(file)
        BY <2>1 DEF ReadFileEnd, QInv, IInv
    <2>3. Data = file
        BY <2>2, DataType DEF IInv
    <2>4. CASE Finish("readError", <<>>) /\ UNCHANGED <<old, quiet>>
        BY <2>4 DEF Finish
    <2>5. CASE /\ nreads = 1
               /\ old' = Data
               /\ IF 0 < Retries THEN rpc' = "begin" /\ UNCHANGED <<got, answer>>
                                 ELSE Finish("gaveUp", <<>>)
               /\ UNCHANGED quiet
        <3>1. ~(0 < Retries)
            BY <2>5
        <3>2. Retries = 0
            BY <3>1, ChunkPositive
        <3> QED BY <2>5, <3>1, <3>2 DEF Finish
    <2>6. CASE /\ nreads > 1
               /\ quiet' = (quiet \/ ~winPrev)
               /\ IF bytesEqual(Data, old)
                    THEN Finish("ok", Data) /\ UNCHANGED old
                    ELSE /\ ReplaceOldContent(Data)
                         /\ IF RetryLeft(nreads)
                              THEN rpc' = "begin" /\ UNCHANGED <<got, answer>>
                              ELSE Finish("gaveUp", <<>>)
        <3>1. ~winPrev
            BY <2>2, <2>6 DEF QInv
        <3>2. old = file
            BY <3>1, <2>2, <2>6 DEF IInv
        <3>3. bytesEqual(Data, old)
            BY <3>2, <2>3 DEF bytesEqual
        <3> QED BY <3>3, <2>6, <2>3 DEF Finish
    <2> QED BY <2>1, <2>4, <2>5, <2>6, ReadFileEndCases
<1>2. Spec => [](IInv /\ QInv)
    BY InitIInv, InitQInv, NextIInv, NextQInv, PTL DEF Spec
<1> QED BY <1>1, <1>2, PTL DEF Spec, QuietCallAnswersTable

=============================================================================
