---------------------------- MODULE FileDatabase ----------------------------
(***************************************************************************)
(* The table of uploaded image files, and the objects that Supabase        *)
(* Storage keeps for them outside the database.  Products and posts name   *)
(* files of this table.                                                    *)
(*                                                                         *)
(* A row is never removed: deletion marks it.  An object either matches    *)
(* the size and type announced for its file or differs from them; one      *)
(* uploaded after its file was deleted is "leaked".                        *)
(***************************************************************************)
EXTENDS TokenDatabase

CONSTANT InitialFiles   \* the file table at the start; only completed ones have objects

VARIABLES
  files,                \* files
  storedObjects         \* objects in the storage bucket, by file id

fileVars == <<files, storedObjects>>

Purposes == {"POST_IMAGE", "PRODUCT_IMAGE"}

File == [owner : Users, purpose : Purposes,
         status : {"PENDING", "COMPLETED", "DELETED"}]

ASSUME FileDatabaseAssumption ==
  /\ InitialFiles \in [Images -> File \cup {NoRow}]
  /\ NoRow \notin File
  /\ \A f \in Images : InitialFiles[f] # NoRow => InitialFiles[f].status \in {"PENDING", "COMPLETED"}

\* The files that may be shown for a purpose.
UsableAs(purpose) ==
  {f \in Images : /\ files[f] # NoRow
                  /\ files[f].status = "COMPLETED"
                  /\ files[f].purpose = purpose}

FileDatabaseInit ==
  /\ files = InitialFiles
  /\ storedObjects =
       [f \in Images |-> IF f \in UsableAs("POST_IMAGE") \cup UsableAs("PRODUCT_IMAGE")
                         THEN "matching" ELSE "absent"]

FileDatabaseTypeOK ==
  /\ files \in [Images -> File \cup {NoRow}]
  /\ storedObjects \in [Images -> {"absent", "matching", "different", "leaked"}]

ImageCodes == {"F404_FILE_NOT_FOUND", "F409_FILE_NOT_AVAILABLE", "F409_FILE_PURPOSE_MISMATCH"}

\* Mutant: whoever attaches the file does not look whether it is there.
UncheckedImage(f, purpose) ==
  IF files[f] = NoRow THEN "F404_FILE_NOT_FOUND"
  ELSE IF files[f].purpose # purpose THEN "F409_FILE_PURPOSE_MISMATCH"
  ELSE "none"

\* Why file f may not be attached as an image of the given purpose.
ImageRefusal(f, purpose) ==
  IF files[f] = NoRow THEN "F404_FILE_NOT_FOUND"
  ELSE IF files[f].status # "COMPLETED" THEN "F409_FILE_NOT_AVAILABLE"
  ELSE IF files[f].purpose # purpose THEN "F409_FILE_PURPOSE_MISMATCH"
  ELSE "none"

=============================================================================
