------------------------------ MODULE Channel ------------------------------
(***************************************************************************)
(* What a direction of an encrypted connection promises: messages arrive   *)
(* as they were sent, in the order they were sent, none twice and none     *)
(* skipped.  The last ones may be missing when the connection is lost.     *)
(***************************************************************************)
EXTENDS Naturals, Sequences

VARIABLES sent, got

vars == <<sent, got>>

Init == sent = <<>> /\ got = <<>>

Send ==
  /\ Len(sent') = Len(sent) + 1
  /\ SubSeq(sent', 1, Len(sent)) = sent
  /\ UNCHANGED got

Get ==
  /\ Len(got) < Len(sent)
  /\ got' = Append(got, sent[Len(got) + 1])
  /\ UNCHANGED sent

Spec == Init /\ [][Send \/ Get]_vars

=============================================================================
