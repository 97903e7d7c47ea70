----------------------------- MODULE NodeMounts -----------------------------
(***************************************************************************)
(* The node's view of the mount table (src/pkg/node/base.go): the queries *)
(* getTargetMount, isAlreadyPublished, getStagedDev and                    *)
(* getRemnantTargetMounts, each of which reads the table through getMounts *)
(* and consistentRead while other mounts and unmounts change it.           *)
(*                                                                         *)
(* The table (/proc/mounts) is a sequence of mount entries.  A ReadFile of *)
(* it is two reads: the first returns at most Chunk lines (none: end of  *)
(* file), the second the lines after those of the table as it is then, so *)
(* a change in between yields content the table may never have held.      *)
(***************************************************************************)
EXTENDS Naturals, Sequences, SequencesExt, FiniteSets

CONSTANTS
    Entries,     \* mount entries: [path, device, source, opts]
    Targets,     \* paths a query may ask about
    Chunk,       \* lines returned by the first read of a ReadFile
    Retries,     \* procMountsRetries
    MaxWrites    \* bound on the mounts and unmounts during the run

ASSUME NodeMountsAssumption ==
    /\ IsFiniteSet(Entries)
    /\ Chunk \in Nat \ {0}
    /\ Retries \in Nat
    /\ MaxWrites \in Nat

\* isAlreadyPublished's rwMode (getRWModeString) and the query kinds.
Modes == {"rw", "ro"}
Queries == [kind : {"target", "published", "stagedDev", "remnant"},
            path : Targets, mode : Modes]

(***************************************************************************)
(* The queries over a parsed table t (ParseProcMounts keeps the lines as   *)
(* entries, in order).                                                      *)
(***************************************************************************)
\* getTargetMount: the first entry whose path is the target.
TargetIndex(t, p) == SelectInSeq(t, LAMBDA e : e.path = p)

\* getRemnantTargetMounts: every entry whose path contains the target.
RemnantMounts(t, p) == SelectSeq(t, LAMBDA e : p \in SubSeqs(e.path))

\* contains(mount.Opts, rwMode).
contains(list, item) == Contains(list, item)

\* getStagedDev: the device of a mount, its source for a bind mount.
StagedDev(m) == IF m.device \in {"devtmpfs", "udev"} THEN m.source ELSE m.device

\* The value a query returns when the table read as t.
QueryAnswer(q, t) ==
    LET i == TargetIndex(t, q.path) IN
    CASE q.kind = "target" ->
           IF i = 0 THEN [code |-> "OK", found |-> FALSE]
                    ELSE [code |-> "OK", found |-> TRUE, mount |-> t[i]]
      [] q.kind = "published" ->
           IF i = 0 THEN [code |-> "OK", published |-> FALSE]
           ELSE IF ~contains(t[i].opts, q.mode)
                THEN [code |-> "FailedPrecondition"]
                ELSE [code |-> "OK", published |-> TRUE]
      [] q.kind = "stagedDev" ->
           IF i = 0 THEN [code |-> "OK", dev |-> "none"]
                    ELSE [code |-> "OK", dev |-> StagedDev(t[i])]
      [] q.kind = "remnant" ->
           [code |-> "OK", found |-> RemnantMounts(t, q.path) # <<>>,
            mounts |-> RemnantMounts(t, q.path)]

\* The answer of a query whose getMounts failed.
MountsError == [code |-> "Internal"]
NoAnswer == [code |-> "none"]

VARIABLES
    file,      \* the mount table
    writes,    \* mounts and unmounts so far
    rpc,       \* the handler: "idle", "begin" (before a ReadFile), "end" (between its reads)
    query,     \* the query being answered
    nreads,    \* ReadFile calls of this consistentRead so far
    part,      \* the lines the first read of the current ReadFile returned
    old,       \* oldContent
    got,       \* what consistentRead returned: a status and the content
    answer,    \* the handler's answer
    held,      \* history: the tables the file held since the call began
    winPrev,   \* history: a write since the previous ReadFile began
    winCur,    \* history: a write since the current ReadFile began
    quiet      \* history: two consecutive ReadFiles with no write from the first's start
vars == <<file, writes, rpc, query, nreads, part, old, got, answer,
          held, winPrev, winCur, quiet>>
readerVars == <<rpc, query, nreads, part, old, got, answer>>
historyVars == <<held, winPrev, winCur, quiet>>

Tables == Seq(Entries)
Results == [status : {"none", "ok", "readError", "gaveUp"}, content : Tables]
NoResult == [status |-> "none", content |-> <<>>]

TypeOK ==
    /\ file \in Tables
    /\ writes \in 0..MaxWrites
    /\ rpc \in {"idle", "begin", "end"}
    /\ query \in Queries
    /\ nreads \in 0..(Retries + 1)
    /\ part \in Tables
    /\ old \in Tables
    /\ got \in Results
    /\ held \in SUBSET Tables
    /\ winPrev \in BOOLEAN /\ winCur \in BOOLEAN /\ quiet \in BOOLEAN
    /\ answer.code \in {"none", "OK", "Internal", "FailedPrecondition"}

\* The tables the kernel can list: each mount once, in mount order.
MountTables == UNION {SetToSeqs(S) : S \in SUBSET Entries}

Init ==
    /\ file \in MountTables
    /\ writes = 0
    /\ rpc = "idle"
    /\ query \in Queries
    /\ nreads = 0
    /\ part = <<>>
    /\ old = <<>>
    /\ got = NoResult
    /\ answer = NoAnswer
    /\ held = {}
    /\ winPrev = FALSE /\ winCur = FALSE /\ quiet = FALSE

(***************************************************************************)
(* A query handler starts: it calls getMounts, which calls consistentRead. *)
(***************************************************************************)
StartCall ==
    /\ rpc = "idle"
    /\ \E q \in Queries : query' = q
    /\ rpc' = "begin"
    /\ nreads' = 0
    /\ got' = NoResult
    /\ answer' = NoAnswer
    /\ held' = {file}
    /\ quiet' = FALSE
    /\ UNCHANGED <<file, writes, part, old, winPrev, winCur>>

\* fs.ReadFile begins: its first read returns the first Chunk lines.
ReadFileBegin ==
    /\ rpc = "begin"
    /\ part' = SubSeq(file, 1, IF Chunk < Len(file) THEN Chunk ELSE Len(file))
    /\ nreads' = nreads + 1
    /\ rpc' = "end"
    /\ winPrev' = winCur
    /\ winCur' = FALSE
    /\ UNCHANGED <<file, writes, query, old, got, answer, held, quiet>>

\* getMounts returns what consistentRead returned; the query answers.
Finish(st, t) ==
    /\ got' = [status |-> st, content |-> t]
    /\ answer' = IF st = "ok" THEN QueryAnswer(query, t) ELSE MountsError
    /\ rpc' = "idle"

\* The loop condition i < retry, after the n-th ReadFile (i = n - 2 was the
\* iteration just done).
RetryLeftOffByOne(n) == n - 1 <= Retries
RetryLeft(n) == n - 1 < Retries

\* bytes.Compare(oldContent, newContent) == 0.
\* (Mutant: the comparison inverted.)
bytesEqualInverted(a, b) == a # b
bytesEqual(a, b) == a = b

\* oldContent = newContent.
KeepOldContent(data) == UNCHANGED old
ReplaceOldContent(data) == old' = data

(***************************************************************************)
(* fs.ReadFile ends, and consistentRead acts on its content: the first     *)
(* read becomes oldContent; a later one equal to oldContent is returned;   *)
(* a different one replaces it while the loop has retries left.            *)
(***************************************************************************)
ReadFileEnd ==
    /\ rpc = "end"
    /\ LET data == IF part = <<>> THEN <<>>
                   ELSE part \o SubSeq(file, Len(part) + 1, Len(file)) IN
       \/ /\ Finish("readError", <<>>)
          /\ UNCHANGED <<old, quiet>>
       \/ /\ nreads = 1
          /\ old' = data
          /\ IF 0 < Retries THEN rpc' = "begin" /\ UNCHANGED <<got, answer>>
                            ELSE Finish("gaveUp", <<>>)
          /\ UNCHANGED quiet
       \/ /\ nreads > 1
          /\ quiet' = (quiet \/ ~winPrev)
          /\ IF bytesEqual(data, old)
               THEN Finish("ok", data) /\ UNCHANGED old
               ELSE /\ ReplaceOldContent(data)
                    /\ IF RetryLeft(nreads)
                         THEN rpc' = "begin" /\ UNCHANGED <<got, answer>>
                         ELSE Finish("gaveUp", <<>>)
    /\ UNCHANGED <<file, writes, query, nreads, part, held, winPrev, winCur>>

(***************************************************************************)
(* The environment: other operations on the node mount or unmount.  The    *)
(* kernel lists a new mount last and drops an unmounted one from its place.*)
(***************************************************************************)
Record(f) ==
    IF rpc = "idle" THEN UNCHANGED historyVars
    ELSE /\ held' = held \cup {f}
         /\ winPrev' = TRUE /\ winCur' = TRUE
         /\ UNCHANGED quiet

Mount(e) ==
    /\ writes < MaxWrites
    /\ ~Contains(file, e)
    /\ file' = Append(file, e)
    /\ writes' = writes + 1
    /\ Record(Append(file, e))
    /\ UNCHANGED readerVars

Unmount(e) ==
    /\ writes < MaxWrites
    /\ \E i \in 1..Len(file) :
          /\ file[i] = e
          /\ file' = RemoveAt(file, i)
          /\ Record(RemoveAt(file, i))
    /\ writes' = writes + 1
    /\ UNCHANGED readerVars

Next ==
    \/ StartCall \/ ReadFileBegin \/ ReadFileEnd
    \/ \E e \in Entries : Mount(e) \/ Unmount(e)

Spec == Init /\ [][Next]_vars

(***************************************************************************)
(* Properties.                                                             *)
(***************************************************************************)
\* consistentRead (base.go:276-294) reports "could not get consistent
\* content" only after its first read and procMountsRetries more, and only
\* when no two consecutive reads ran with the table at rest: two reads with
\* no mount or unmount from the start of the first are equal, and equal
\* content is returned.
GiveUpOnlyWhenEveryPairChanged ==
    [][got'.status = "gaveUp" => nreads = Retries + 1 /\ ~quiet']_vars

\* getMounts and consistentRead (base.go:263-294): a query during which no
\* mount or unmount happens answers from the table as it is.  The only
\* exceptions are a failed read, and a retry count of 0, with which
\* consistentRead never returns content.
QuietCallAnswersTable ==
    [][rpc # "idle" /\ rpc' = "idle" /\ held = {file} =>
         \/ got'.status = "readError"
         \/ got'.status = "gaveUp" /\ Retries = 0
         \/ got'.status = "ok" /\ answer' = QueryAnswer(query, file)]_vars

\* The log line "successfully read mount file snapshot" (base.go:287): what
\* consistentRead returns is a table the file held during the call.
SnapshotReturned ==
    [][got'.status = "ok" => got'.content \in held]_vars

=============================================================================
