---------------------------- MODULE MCNodeMounts ----------------------------
(* A node table of three mounts: the target, a sibling whose path contains  *)
(* the target's, and an unrelated one; Chunk 1 so that a table of two lines *)
(* can be read torn.                                                         *)
EXTENDS NodeMounts

MCTarget == <<"t">>
MCEntries ==
    { [path |-> <<"t">>, device |-> "sda", source |-> "sda", opts |-> <<"rw">>],
      [path |-> <<"t", "1">>, device |-> "devtmpfs", source |-> "sdb",
       opts |-> <<"ro">>],
      [path |-> <<"x">>, device |-> "sdc", source |-> "sdc", opts |-> <<"rw">>] }
MCTargets == {MCTarget}
=============================================================================
