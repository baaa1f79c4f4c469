---------------------------- MODULE MCAssetFiles ----------------------------
(* AssetFiles with two processes, two updates and two faults of any kind.  *)
EXTENDS AssetFiles
=============================================================================
