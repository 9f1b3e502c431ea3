---------------------------- MODULE MC_FileSystem ----------------------------
(* A file system whose links may be named "game:", "d:" and "GAME:", the   *)
(* last equal to "game:" when case is ignored, over the two device paths   *)
(* InitializeFromPath mounts at.                                           *)
EXTENDS FileSystem, TLC

CONSTANTS lGame, lGAME, lD, pCdrom0, pHarddisk1

MCLinkNames == {lGame, lGAME, lD}

MCCaseFold == (lGame :> lGame) @@ (lGAME :> lGame) @@ (lD :> lD)
=============================================================================
