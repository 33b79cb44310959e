------------------------------- MODULE UndoLog -------------------------------
(***************************************************************************)
(* What the installer promises, whatever it writes and wherever it dies: a *)
(* file of the game loses the bytes the game came with only while a        *)
(* readable record of them is on disk, and the record of a file goes only  *)
(* when the file has its bytes again, or when it was given up because      *)
(* writing them back failed.                                               *)
(***************************************************************************)
CONSTANT File   \* the files of the game that an installation rewrites

VARIABLES
  own,        \* the files that hold bytes the game came with
  logged,     \* the files whose own bytes can be read back from the record
  forsaken    \* the files given up

UndoTypeOK ==
  /\ own \subseteq File
  /\ logged \subseteq File
  /\ forsaken \subseteq File

UndoInit ==
  /\ own = File
  /\ logged = {}
  /\ forsaken = {}

(* The record is written and dropped. *)
Record ==
  /\ logged' \in SUBSET File
  /\ logged \subseteq logged'
  /\ logged' \ logged \subseteq own \cup forsaken
  /\ UNCHANGED <<own, forsaken>>

Drop ==
  /\ logged' \in SUBSET logged
  /\ logged \ logged' \subseteq own \cup forsaken
  /\ UNCHANGED <<own, forsaken>>

(* Files are rewritten, and files get bytes of the game's own again. *)
Rewrite ==
  /\ own' \in SUBSET File
  /\ own \ own' \subseteq logged \cup forsaken
  /\ UNCHANGED <<logged, forsaken>>

GiveUp ==
  /\ forsaken' \in SUBSET File
  /\ forsaken \subseteq forsaken'
  /\ forsaken' \ forsaken \subseteq logged
  /\ UNCHANGED <<own, logged>>

UndoNext == Record \/ Drop \/ Rewrite \/ GiveUp

UndoSpec == UndoInit /\ [][UndoNext]_<<own, logged, forsaken>>

(* No file of the game is neither its own, nor recorded, nor given up. *)
NothingIsLost == File = own \cup logged \cup forsaken
=============================================================================
