---------------------------- MODULE MCFtDownload ----------------------------
(* An instance of FtDownload: a folder of two files beside an empty file. *)
EXTENDS FtDownload, TLC

CONSTANTS folder, single, request

TwoDownloads == (folder :> <<0, 1>>) @@ (single :> << >>)

HowDialogsEnd == (folder :> {"target", "unsupported"}) @@ (single :> {"target", "abort"})

=============================================================================
