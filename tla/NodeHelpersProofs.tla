-------------------------- MODULE NodeHelpersProofs --------------------------
(***************************************************************************)
(* Proofs about the node's pure helpers (NodeHelpers) for every input, not *)
(* only the small sets MCNodeHelpers enumerates.  Only the helpers built  *)
(* without a fold are covered: what formatWWPN and path.Clean compute is  *)
(* a FoldLeft, and a fold over every input is induction over data.        *)
(***************************************************************************)
EXTENDS MCNodeHelpers, FiniteSetTheorems, TLAPS

\* What csictx.LookupEnv can find for a variable: nothing (an unset
\* variable reads as ""), or any value of V.
EnvValues(V) == {Unset} \cup {Set(s) : s \in V}
Environments(V) == [EnvVars -> EnvValues(V)]

\* Whatever the environment holds, the prefix, the chroot and the tmp
\* directory are non-empty, and the CHAP password is set exactly when
\* EnableCHAP parses as true.
LEMMA NodeOptionsCompleteForAll ==
    ASSUME NEW V, NEW env \in Environments(V)
    PROVE  NodeOptionsCompleteFor(env)
<1> DEFINE o == getNodeOptions(env)
<1>1. /\ o.NodeNamePrefix = OrDefault(Lookup(env, "NodeNamePrefix"), defaultNodeNamePrefix)
      /\ o.NodeChrootPath = DefaultNodeChroot(env)
      /\ o.TmpDir = OrDefault(Lookup(env, "TmpDir"), defaultTmpDir)
      /\ o.CHAPPassword = IF pb(env, "EnableCHAP") THEN RandomPassword ELSE <<>>
    BY DEF getNodeOptions
<1>2. \A s, d : d # <<>> => OrDefault(s, d) # <<>>
    BY DEF OrDefault
<1>3. \A f \in {"NodeNamePrefix", "NodeChrootPath", "TmpDir"} : o[f] # <<>>
    BY <1>1, <1>2 DEF DefaultNodeChroot, defaultNodeNamePrefix, defaultNodeChrootPath,
                      defaultTmpDir
<1>4. pb(env, "EnableCHAP") <=> env["EnableCHAP"].val \in TrueStrings
    <2>1. env["EnableCHAP"] \in EnvValues(V)
        BY DEF Environments, EnvVars
    <2>2. CASE env["EnableCHAP"] = Unset
        BY <2>2 DEF pb, Unset, TrueStrings
    <2>3. CASE env["EnableCHAP"] # Unset
        <3>1. env["EnableCHAP"].set
            BY <2>1, <2>3 DEF EnvValues, Set
        <3>2. TrueStrings \cap FalseStrings = {}
            BY DEF TrueStrings, FalseStrings
        <3> QED BY <3>1, <3>2 DEF pb, ParseBool
    <2> QED BY <2>2, <2>3
<1>5. RandomPassword # <<>>
    BY DEF RandomPassword
<1> QED BY <1>1, <1>3, <1>4, <1>5 DEF NodeOptionsCompleteFor

\* getNodeOptions (base.go:84-160) never leaves the node name prefix, the
\* chroot or the tmp directory empty, and sets CHAP credentials exactly when
\* EnableCHAP parses as true, whatever the environment holds.
THEOREM NodeOptionsAlwaysComplete ==
    \A V : \A env \in Environments(V) : NodeOptionsCompleteFor(env)
BY NodeOptionsCompleteForAll

\* An argument list made of a prefix that names the source only at its end,
\* followed by options that never name it, names the source once, right
\* before the options.
LEMMA SourceOnceInArgs ==
    ASSUME NEW T, NEW source, NEW p \in Seq(T), NEW opts \in Seq(T),
           Len(p) >= 1, p[Len(p)] = source,
           \A k \in 1..(Len(p) - 1) : p[k] # source,
           \A k \in 1..Len(opts) : opts[k] # source
    PROVE  /\ {k \in DOMAIN (p \o opts) : (p \o opts)[k] = source} = {Len(p)}
           /\ (p \o opts)[Len(p \o opts) - Len(opts)] = source
<1> DEFINE a == p \o opts
<1>1. Len(a) = Len(p) + Len(opts) /\ DOMAIN a = 1..(Len(p) + Len(opts))
    OBVIOUS
<1>2. \A k \in 1..Len(p) : a[k] = p[k]
    OBVIOUS
<1>3. \A k \in (Len(p) + 1)..(Len(p) + Len(opts)) : a[k] = opts[k - Len(p)]
    OBVIOUS
<1>4. \A k \in DOMAIN a : a[k] = source <=> k = Len(p)
    BY <1>1, <1>2, <1>3
<1> QED BY <1>1, <1>4

\* format (base.go:357-385) puts the source device once in mkfs' arguments,
\* right before the caller's options, for every file system type and every
\* list of options that does not itself name the device.
THEOREM FormatNamesSourceOnceForAll ==
    ASSUME NEW S, NEW source \in S, NEW fsType, NEW opts \in Seq(S),
           source \notin {"-E", "nodiscard", "-F", "-K"},
           \A k \in 1..Len(opts) : opts[k] # source
    PROVE  FormatNamesSourceOnceFor(source, fsType, opts)
<1> DEFINE T == S \cup {"-K", "-E", "nodiscard", "-F"}
<1>0. opts \in Seq(T)
    OBVIOUS
<1>1. PICK p \in Seq(T) :
          /\ format(source, fsType, opts).args = p \o opts
          /\ Len(p) >= 1 /\ p[Len(p)] = source
          /\ \A k \in 1..(Len(p) - 1) : p[k] # source
    <2>1. CASE (IF fsType = "" THEN "ext4" ELSE fsType) = "xfs"
        <3>1. format(source, fsType, opts).args = <<"-K", source>> \o opts
            BY <2>1 DEF format, MkfsArgs
        <3> WITNESS <<"-K", source>> \in Seq(T)
        <3> QED BY <3>1
    <2>2. CASE (IF fsType = "" THEN "ext4" ELSE fsType) # "xfs"
        <3>1. format(source, fsType, opts).args = <<"-E", "nodiscard", "-F", source>> \o opts
            BY <2>2 DEF format, MkfsArgs
        <3> WITNESS <<"-E", "nodiscard", "-F", source>> \in Seq(T)
        <3> QED BY <3>1
    <2> QED BY <2>1, <2>2
<1>2. /\ {k \in DOMAIN (p \o opts) : (p \o opts)[k] = source} = {Len(p)}
      /\ (p \o opts)[Len(p \o opts) - Len(opts)] = source
    BY <1>0, <1>1, SourceOnceInArgs
<1>3. Cardinality({Len(p)}) = 1
    BY FS_Singleton
<1> QED BY <1>1, <1>2, <1>3 DEF FormatNamesSourceOnceFor

-----------------------------------------------------------------------------
(***************************************************************************)
(* The invariants of the helpers run, from the results above.             *)
(***************************************************************************)
\* The values MCNodeHelpers gives the variables.
MCValues == {x.val : x \in PlainValues \cup MaxVolumesValues \cup CHAPValues}

LEMMA EnvsAreEnvironments == Envs \subseteq Environments(MCValues)
<1> DEFINE Vals == PlainValues \cup MaxVolumesValues \cup CHAPValues
<1>1. \A x \in Vals : x = Unset \/ x = Set(x.val)
    BY DEF PlainValues, MaxVolumesValues, CHAPValues, Unset, Set
<1>2. \A x \in Vals : x \in EnvValues(MCValues)
    <2> SUFFICES ASSUME NEW x \in Vals PROVE x \in EnvValues(MCValues)
        OBVIOUS
    <2>1. x.val \in MCValues
        BY DEF MCValues
    <2> QED BY <1>1, <2>1, Zenon DEF EnvValues
<1> QED BY <1>2 DEF Envs, Environments, PlainVars

\* An input of the run is of one of the four kinds, with its fields.
LEMMA InputKinds ==
    ASSUME NEW i \in Inputs
    PROVE  /\ i.kind = "env" => \E e \in Envs : i = [kind |-> "env", env |-> e]
           /\ i.kind = "format" =>
                \E f \in FsTypes, o \in FormatOpts : i = [kind |-> "format", fs |-> f, opts |-> o]
BY DEF Inputs

\* getNodeOptions (base.go:84-160) on every environment of the helpers run
\* (NodeOptionsComplete), a consequence of NodeOptionsAlwaysComplete.
THEOREM NodeOptionsCompleteHolds == Spec => []NodeOptionsComplete
<1>1. input \in Inputs => NodeOptionsComplete
    <2> SUFFICES ASSUME input \in Inputs, input.kind = "env"
                 PROVE  NodeOptionsCompleteFor(input.env)
        BY DEF NodeOptionsComplete
    <2>1. PICK e \in Envs : input = [kind |-> "env", env |-> e]
        BY InputKinds
    <2> QED BY <2>1, EnvsAreEnvironments, NodeOptionsCompleteForAll
<1>2. Init => input \in Inputs
    BY DEF Init
<1>3. input \in Inputs /\ [Next]_input => (input \in Inputs)'
    BY DEF Next
<1> QED BY <1>1, <1>2, <1>3, PTL DEF Spec

\* format (base.go:357-385) on every file system type and option list of
\* the helpers run (FormatNamesSourceOnce), from FormatNamesSourceOnceForAll.
THEOREM FormatNamesSourceOnceHolds == Spec => []FormatNamesSourceOnce
<1>1. input \in Inputs => FormatNamesSourceOnce
    <2> SUFFICES ASSUME input \in Inputs, input.kind = "format"
                 PROVE  FormatNamesSourceOnceFor("src", input.fs, input.opts)
        BY DEF FormatNamesSourceOnce
    <2>1. PICK f \in FsTypes, o \in FormatOpts : input = [kind |-> "format", fs |-> f, opts |-> o]
        BY InputKinds
    <2>2. /\ o \in Seq({"src", "-q"})
          /\ \A k \in 1..Len(o) : o[k] # "src"
          /\ "src" \notin {"-E", "nodiscard", "-F", "-K"}
        <3>1. CASE o = <<>>
            BY <3>1
        <3>2. CASE o = <<"-q">>
            BY <3>2
        <3> QED BY <3>1, <3>2 DEF FormatOpts
    <2> QED BY <2>1, <2>2, FormatNamesSourceOnceForAll
<1>2. Init => input \in Inputs
    BY DEF Init
<1>3. input \in Inputs /\ [Next]_input => (input \in Inputs)'
    BY DEF Next
<1> QED BY <1>1, <1>2, <1>3, PTL DEF Spec

=============================================================================
