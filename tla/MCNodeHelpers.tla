---------------------------- MODULE MCNodeHelpers ---------------------------
(***************************************************************************)
(* Checks the helpers of NodeHelpers on every input of small sets: the     *)
(* state is the input a helper is called with, and every state is         *)
(* checked against a reference definition written independently of the   *)
(* code's loop or branches.                                               *)
(***************************************************************************)
EXTENDS NodeHelpers, FiniteSets

\* Hex strings of up to MaxWWPNLength digits (odd lengths included).
MaxWWPNLength == 5
HexStrings == UNION {[1..n -> {"0", "a"}] : n \in 0..MaxWWPNLength}

\* Every variable unset, empty or set to a short value; MaxVolumesPerNode
\* and EnableCHAP also to numbers, signs, words and near-misses.
PlainValues == {Unset, Set(<<>>), Set(<<"p">>)}
MaxVolumesValues == {Unset, Set(<<>>), Set(<<"1","6">>), Set(<<"-","1">>),
                     Set(<<"+","2">>), Set(<<"1","x">>), Set(<<"-">>)}
CHAPValues == {Unset, Set(<<"t","r","u","e">>), Set(<<"1">>), Set(<<"T">>),
               Set(<<"y","e","s">>), Set(<<"F","a","l","s","e">>)}
PlainVars == EnvVars \ {"MaxVolumesPerNode", "EnableCHAP"}
Envs == {[v \in EnvVars |-> IF v = "MaxVolumesPerNode" THEN m
                           ELSE IF v = "EnableCHAP" THEN c ELSE plain[v]] :
           plain \in [PlainVars -> PlainValues], m \in MaxVolumesValues, c \in CHAPValues}

\* Staging directories ("", "/", "/stage", "stage/") and volume IDs of up
\* to two components, NFS or not.
StagingDirs == {[rooted |-> FALSE, comps |-> <<>>], [rooted |-> TRUE, comps |-> <<>>],
                [rooted |-> TRUE, comps |-> <<"stage">>],
                [rooted |-> FALSE, comps |-> <<"stage", "">>]}
VolumeIDs == [nfs : BOOLEAN,
              comps : UNION {[1..n -> {"v", "g", ".", "..", ""}] : n \in 0..2}]

FsTypes == {"", "ext4", "xfs"}
FormatOpts == {<<>>, <<"-q">>}

Inputs ==
    {[kind |-> "wwpn", data |-> d] : d \in HexStrings}
    \cup {[kind |-> "env", env |-> e] : e \in Envs}
    \cup {[kind |-> "staging", sp |-> p, vol |-> v] : p \in StagingDirs, v \in VolumeIDs}
    \cup {[kind |-> "format", fs |-> f, opts |-> o] : f \in FsTypes, o \in FormatOpts}

VARIABLE input

Init == input \in Inputs
Next == UNCHANGED input
Spec == Init /\ [][Next]_input

(***************************************************************************)
(* References.                                                             *)
(***************************************************************************)
\* WWPN notation: the digits in pairs, the pairs joined by ":".
Pairs(d) == [j \in 1..((Len(d) + 1) \div 2) |->
               SubSeq(d, 2 * j - 1, IF 2 * j <= Len(d) THEN 2 * j ELSE Len(d))]
JoinWithColons(ps) ==
    FoldLeft(LAMBDA acc, p : IF acc = <<>> THEN p ELSE acc \o <<":">> \o p, <<>>, ps)

\* A volume ID read from the staging directory one component at a time:
\* its depth below the directory, and whether it ever climbed above it.
\* A name goes one level down, ".." one up (except at the root, where it
\* stays), "" and "." stay.
DepthStep(atRoot, st, c) ==
    CASE c \in {"", "."}                  -> st
      [] c = ".." /\ atRoot /\ st.depth = 0 -> st
      [] c = ".."                         -> [depth |-> st.depth - 1,
                                              out |-> st.out \/ st.depth = 0]
      [] OTHER                            -> [depth |-> st.depth + 1, out |-> st.out]
Descends(sp, comps) ==
    LET w == FoldLeft(LAMBDA st, c : DepthStep(sp.rooted /\ Clean(sp).comps = <<>>, st, c),
                      [depth |-> 0, out |-> FALSE], comps)
    IN  ~w.out /\ w.depth > 0

(***************************************************************************)
(* Properties.                                                             *)
(***************************************************************************)
\* formatWWPN (base.go:162-177) writes an FC port name as colon-separated
\* pairs of digits, with no colon at the end, for odd lengths too.
FormatWWPNIsColonPairs ==
    input.kind = "wwpn" => formatWWPN(input.data) = JoinWithColons(Pairs(input.data))

\* getNodeOptions (base.go:84-160): the node name prefix, the chroot and the
\* tmp directory are never empty whatever the environment holds, and the
\* CHAP credentials are set exactly when EnableCHAP parses as true.
NodeOptionsCompleteFor(env) ==
    LET o == getNodeOptions(env) IN
    /\ \A f \in {"NodeNamePrefix", "NodeChrootPath", "TmpDir"} : o[f] # <<>>
    /\ (o.CHAPPassword # <<>>) <=> (env["EnableCHAP"].val \in TrueStrings)
NodeOptionsComplete == input.kind = "env" => NodeOptionsCompleteFor(input.env)

\* getStagingPath (base.go:209-220): path.Join cleans what it joins, so
\* the staging path of a block volume lies strictly below the (cleaned)
\* staging directory exactly when the volume ID descends from it: it never
\* climbs above the directory with "..", and ends below it.  A volume ID
\* such as "v/.." yields the directory itself, and "../v" a sibling of it.
\* (For a named directory or the root, and a volume ID that does not name
\* a component of the directory, so that it cannot climb out and back in.)
StagingPathBelowIffDescends ==
    (/\ input.kind = "staging"
     /\ ~input.vol.nfs /\ input.vol.comps # <<>>
     /\ input.sp.rooted \/ Clean(input.sp).comps # <<>>
     /\ \A k \in DOMAIN input.vol.comps :
           input.vol.comps[k] \notin Range(Clean(input.sp).comps))
    => (IsStrictPrefix(Clean(input.sp).comps, getStagingPath(input.sp, input.vol)[2].comps)
        <=> Descends(input.sp, input.vol.comps))

\* format (base.go:357-385): mkfs names the source device exactly once,
\* immediately before the caller's options.
FormatNamesSourceOnceFor(source, fsType, opts) ==
    LET a == format(source, fsType, opts).args IN
    /\ Cardinality({k \in DOMAIN a : a[k] = source}) = 1
    /\ a[Len(a) - Len(opts)] = source
FormatNamesSourceOnce ==
    input.kind = "format" => FormatNamesSourceOnceFor("src", input.fs, input.opts)
=============================================================================
