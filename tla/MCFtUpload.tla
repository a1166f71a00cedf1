----------------------------- MODULE MCFtUpload -----------------------------
(* An instance of FtUpload: a folder with an empty file in the middle      *)
(* beside a single file of two blocks.                                     *)
EXTENDS FtUpload, TLC

CONSTANTS folder, single

FolderAndFile == (folder :> <<1, 0, 1>>) @@ (single :> <<2>>)

=============================================================================
