----------------------------- MODULE LineChannel -----------------------------
(***************************************************************************)
(* What a direction of a connection promises to the program above it, and  *)
(* what Transport takes for granted: frames arrive whole, in the order     *)
(* they were written, each at most once; the last ones may never arrive.   *)
(***************************************************************************)
EXTENDS Sequences, Naturals

VARIABLES sent, got   \* the frames written to the channel, and those read from it

Init == sent = << >> /\ got = << >>

\* One or more frames are written.
Write ==
  /\ Len(sent') > Len(sent) /\ SubSeq(sent', 1, Len(sent)) = sent
  /\ UNCHANGED got

\* The next frame is read.
Read ==
  /\ Len(got) < Len(sent)
  /\ got' = Append(got, sent[Len(got) + 1])
  /\ UNCHANGED sent

Spec == Init /\ [][Write \/ Read]_<<sent, got>>
=============================================================================
