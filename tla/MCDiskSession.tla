---------------------------- MODULE MCDiskSession ----------------------------
(* An instance of DiskSession for TLC.                                       *)
EXTENDS DiskSession

MCConfigs == {<<3>>, <<0, 2, 1>>}
=============================================================================
