---------------------------- MODULE ArchiveMove ----------------------------
(***************************************************************************)
(* What moving a fixed list of files into a sealed archive promises,       *)
(* whoever does it and however often it is stopped: each file is first     *)
(* linked in the archive and only then retired from where it was, and the  *)
(* archive is sealed, once, when every file has made both steps.           *)
(***************************************************************************)
CONSTANT Files

VARIABLES
  place,   \* place[f]: "source", "both" or "archive"
  sealed   \* the receipt is published

Init ==
  /\ place \in [Files -> {"source", "both", "archive"}]
  /\ sealed \in BOOLEAN
  /\ sealed => \A f \in Files : place[f] = "archive"

Copy(f) ==
  /\ place[f] = "source"
  /\ place' = [place EXCEPT ![f] = "both"]
  /\ UNCHANGED sealed

Retire(f) ==
  /\ place[f] = "both"
  /\ place' = [place EXCEPT ![f] = "archive"]
  /\ UNCHANGED sealed

SealArchive ==
  /\ ~sealed
  /\ \A f \in Files : place[f] = "archive"
  /\ sealed' = TRUE
  /\ UNCHANGED place

Next == SealArchive \/ \E f \in Files : Copy(f) \/ Retire(f)

Spec == Init /\ [][Next]_<<place, sealed>>
=============================================================================
