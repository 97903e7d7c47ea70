---------------------------- MODULE NodeHelpers ----------------------------
(***************************************************************************)
(* The node service's pure helpers (src/pkg/node/base.go): getNodeOptions *)
(* with the strconv conversions it calls, formatWWPN, getStagingPath with *)
(* path.Join, and the mkfs command line of format.  Strings whose content *)
(* a property depends on are sequences of characters; a path is a rooted *)
(* flag and a sequence of components, as path.Join splits it at "/".      *)
(***************************************************************************)
EXTENDS Integers, Sequences, SequencesExt

(***************************************************************************)
(* strconv.ParseBool and strconv.ParseInt(s, 10, 64) on short strings.    *)
(***************************************************************************)
TrueStrings == {<<"1">>, <<"t">>, <<"T">>, <<"T","R","U","E">>,
                <<"t","r","u","e">>, <<"T","r","u","e">>}
FalseStrings == {<<"0">>, <<"f">>, <<"F">>, <<"F","A","L","S","E">>,
                 <<"f","a","l","s","e">>, <<"F","a","l","s","e">>}
ParseBool(s) ==
    IF s \in TrueStrings THEN [ok |-> TRUE, b |-> TRUE]
    ELSE IF s \in FalseStrings THEN [ok |-> TRUE, b |-> FALSE]
    ELSE [ok |-> FALSE, b |-> FALSE]

DigitValue == [d \in {"0","1","2","3","4","5","6","7","8","9"} |->
                 CHOOSE n \in 0..9 : <<"0","1","2","3","4","5","6","7","8","9">>[n + 1] = d]
\* The inputs are at most a few characters long, far from the int64 range.
ParseInt(s) ==
    LET signed == s # <<>> /\ s[1] \in {"+", "-"}
        digits == IF signed THEN Tail(s) ELSE s
        value  == FoldLeft(LAMBDA acc, d : 10 * acc + DigitValue[d], 0, digits)
    IN  IF digits = <<>> \/ \E k \in 1..Len(digits) : digits[k] \notin DOMAIN DigitValue
        THEN [ok |-> FALSE, n |-> 0]
        ELSE [ok |-> TRUE, n |-> IF signed /\ s[1] = "-" THEN -value ELSE value]

(***************************************************************************)
(* getNodeOptions: env maps each variable to what csictx.LookupEnv finds. *)
(***************************************************************************)
EnvVars == {"NodeIDFilePath", "KubeConfigPath", "NodeNamePrefix", "KubeNodeName",
            "NodeChrootPath", "MaxVolumesPerNode", "TmpDir",
            "FCPortsFilterFilePath", "EnableCHAP"}
Unset == [set |-> FALSE, val |-> <<>>]
Set(v) == [set |-> TRUE, val |-> v]

defaultNodeNamePrefix == <<"c","s","i","-","n","o","d","e">>
defaultNodeChrootPath == <<"/","n","o","d","e","r","o","o","t">>
defaultTmpDir == <<"t","m","p">>
\* identifiers.RandomString(12): its value is not modelled.
RandomPassword == <<"?">>

\* The value of an option that is copied from its variable when set.
Lookup(env, v) == IF env[v].set THEN env[v].val ELSE <<>>
\* An option left empty takes its default.
OrDefault(s, d) == IF s = <<>> THEN d ELSE s

\* pb: a set variable that parses gives its value, anything else false.
pb(env, v) == env[v].set /\ ParseBool(env[v].val).ok /\ ParseBool(env[v].val).b

DefaultNodeChrootDropped(env) == Lookup(env, "NodeChrootPath")
DefaultNodeChroot(env) == OrDefault(Lookup(env, "NodeChrootPath"), defaultNodeChrootPath)

getNodeOptions(env) ==
    LET maxVol == ParseInt(env["MaxVolumesPerNode"].val)
        chap   == pb(env, "EnableCHAP")
    IN [NodeIDFilePath        |-> Lookup(env, "NodeIDFilePath"),
        KubeConfigPath        |-> Lookup(env, "KubeConfigPath"),
        NodeNamePrefix        |-> OrDefault(Lookup(env, "NodeNamePrefix"),
                                            defaultNodeNamePrefix),
        KubeNodeName          |-> Lookup(env, "KubeNodeName"),
        NodeChrootPath        |-> DefaultNodeChroot(env),
        MaxVolumesPerNode     |-> IF env["MaxVolumesPerNode"].set /\ maxVol.ok
                                  THEN maxVol.n ELSE 0,
        TmpDir                |-> OrDefault(Lookup(env, "TmpDir"), defaultTmpDir),
        FCPortsFilterFilePath |-> Lookup(env, "FCPortsFilterFilePath"),
        EnableCHAP            |-> chap,
        CHAPUsername          |-> IF chap THEN <<"a","d","m","i","n">> ELSE <<>>,
        CHAPPassword          |-> IF chap THEN RandomPassword ELSE <<>>]

(***************************************************************************)
(* formatWWPN: the loop over data writes each character and a ":" after   *)
(* every one at an odd byte index i that is not the last.  The data are   *)
(* hex digits, so a character is one byte and i = k - 1.                  *)
(***************************************************************************)
ColonAfterEvenIndex(i, n) == i % 2 = 0 /\ i < n - 1
ColonAfter(i, n) == i % 2 # 0 /\ i < n - 1

formatWWPN(data) ==
    FoldLeft(LAMBDA buf, i : buf \o <<data[i + 1]>>
                               \o (IF ColonAfter(i, Len(data)) THEN <<":">> ELSE <<>>),
             <<>>, [k \in 1..Len(data) |-> k - 1])

(***************************************************************************)
(* getStagingPath and path.Join (which joins, then applies path.Clean).   *)
(***************************************************************************)
\* path.Clean on the components: drop empty and "." ones; ".." removes the
\* component before it, is dropped at the root and kept at the front of a
\* relative path.
CleanStep(rooted, st, c) ==
    IF c \in {"", "."} THEN st
    ELSE IF c = ".." /\ st # <<>> /\ Last(st) # ".." THEN Front(st)
    ELSE IF c = ".." /\ st = <<>> /\ rooted THEN st
    ELSE Append(st, c)
Clean(p) ==
    [rooted |-> p.rooted,
     comps |-> FoldLeft(LAMBDA st, c : CleanStep(p.rooted, st, c), <<>>, p.comps)]
Join(sp, comps) == Clean([rooted |-> sp.rooted, comps |-> sp.comps \o comps])

\* A path or volume ID that is the empty string.
IsEmptyPath(p) == ~p.rooted /\ p.comps = <<>>

\* nfs.IsNFSVolumeID and nfs.ToArrayVolumeID: a volume ID carries the NFS
\* prefix or not; the array's ID is the rest.
IsNFSVolumeID(v) == v.nfs
ToArrayVolumeID(v) == [v EXCEPT !.nfs = FALSE]

getStagingPathUnjoined(sp, volID) ==
    IF IsNFSVolumeID(volID) THEN <<ToArrayVolumeID(volID), sp>> ELSE <<volID, sp>>
getStagingPath(sp, volID) ==
    IF IsNFSVolumeID(volID) THEN <<ToArrayVolumeID(volID), sp>>
    ELSE IF IsEmptyPath(sp) \/ volID.comps = <<>> THEN <<volID, sp>>
    ELSE <<volID, Join(sp, volID.comps)>>

(***************************************************************************)
(* format: the mkfs command and its arguments; ext4 when fsType is "".     *)
(***************************************************************************)
MkfsArgsAppended(fs, source, opts) ==
    IF fs = "xfs" THEN <<"-E", "nodiscard", "-F", source, "-K", source>> \o opts
    ELSE <<"-E", "nodiscard", "-F", source>> \o opts
MkfsArgs(fs, source, opts) ==
    IF fs = "xfs" THEN <<"-K", source>> \o opts
    ELSE <<"-E", "nodiscard", "-F", source>> \o opts
format(source, fsType, opts) ==
    LET fs == IF fsType = "" THEN "ext4" ELSE fsType
    IN [cmd |-> <<"mkfs", fs>>, args |-> MkfsArgs(fs, source, opts)]

=============================================================================
