--------------------------- MODULE OrderedOutput ---------------------------
(***************************************************************************)
(* What DecoderPool::process() promises its caller, with no threads in it:  *)
(* the frames first .. first+total-1 are appended to the output file one    *)
(* after another in presentation order, and the call returns true only      *)
(* when every one of them is there.  It may give up at any moment.          *)
(***************************************************************************)
EXTENDS Integers, Sequences

VARIABLES
  first,     \* the first frame the call was asked for
  total,     \* how many frames it was asked for
  file,      \* the frames in the output file, in file order
  verdict    \* what process() returned: "none" until it returns

vars == <<first, total, file, verdict>>

Init ==
  /\ first \in Int
  /\ total \in Int
  /\ file = <<>>
  /\ verdict = "none"

\* The next frame in presentation order reaches the file.
Emit ==
  /\ verdict = "none"
  /\ Len(file) < total
  /\ file' = Append(file, first + Len(file))
  /\ UNCHANGED <<first, total, verdict>>

Succeed ==
  /\ verdict = "none"
  /\ Len(file) = total
  /\ verdict' = "success"
  /\ UNCHANGED <<first, total, file>>

GiveUp ==
  /\ verdict = "none"
  /\ verdict' = "failure"
  /\ UNCHANGED <<first, total, file>>

Next == Emit \/ Succeed \/ GiveUp

Spec == Init /\ [][Next]_vars
=============================================================================
