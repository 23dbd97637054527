-------------------------------- MODULE Files --------------------------------
(***************************************************************************)
(* FilesService: an administrator asks for a signed upload URL, the        *)
(* browser sends the image to Supabase Storage, the administrator reports  *)
(* it complete, and files that nothing uses can be deleted.  A request     *)
(* names the id that it draws for a new file.                              *)
(*                                                                         *)
(* The URL admits an upload whenever no object is in place, also after the *)
(* file was deleted.  Clubs hold images too, but no endpoint writes them.  *)
(* Rows of the action log are left out.                                    *)
(***************************************************************************)
EXTENDS Posts

CONSTANT FileCalls      \* requests to /admin/files sent

FileCall ==
  [op : {"uploadUrl"}, file : Images, admin : Users, purpose : Purposes,
   defect : {"none", "F400_UNSUPPORTED_IMAGE_TYPE", "F400_INVALID_FILE_SIZE",
             "F400_FILE_TOO_LARGE", "F400_INVALID_FILE_NAME"}]
  \cup [op : {"complete", "delete"}, file : Images, admin : Users]

FileCodes ==
  {"OK", "F400_UNSUPPORTED_IMAGE_TYPE", "F400_INVALID_FILE_SIZE", "F400_FILE_TOO_LARGE",
   "F400_INVALID_FILE_NAME", "F500_UPLOAD_URL_CREATION_FAILED", "F404_FILE_NOT_FOUND",
   "F403_FILE_ACCESS_DENIED", "F409_FILE_DELETED", "F500_FILE_VERIFICATION_FAILED",
   "F409_FILE_NOT_UPLOADED", "F409_FILE_METADATA_MISMATCH", "F409_FILE_IN_USE",
   "F409_FILE_CONCURRENT_UPDATE", "F500_FILE_DELETE_FAILED"}

ASSUME FilesAssumption == FileCalls \subseteq FileCall /\ NoCall \notin FileCalls

FilePc == {"idle", "sign", "lookup", "verify", "write", "tx", "cleanup", "done"}

\* What deletion counts as a use: every row that names the file.
PublishedUse(f) ==      \* mutant: only what is on show
  \/ \E p \in Products : products[p] # NoRow /\ products[p].published /\ products[p].image = f
  \/ \E p \in PostIds : posts[p] # NoRow /\ posts[p].status = "PUBLISHED" /\ f \in posts[p].images
IsInUse(f) ==
  \/ \E p \in Products : products[p] # NoRow /\ products[p].image = f
  \/ \E p \in PostIds : posts[p] # NoRow /\ f \in posts[p].images

SetStatus(f, s) == files' = [files EXCEPT ![f].status = s]

-----------------------------------------------------------------------------

ReceiveFileCall(r, c) ==
  /\ \/ /\ c.op = "uploadUrl" /\ c.defect # "none"
        /\ ReceiveAndRespond(r, c, c.defect)
     \/ /\ c.op = "uploadUrl" /\ c.defect = "none" /\ Receive(r, c, "sign")
     \/ /\ c.op = "complete" /\ Receive(r, c, "lookup")
     \/ /\ c.op = "delete" /\ Receive(r, c, "tx")
  /\ UNCHANGED <<fileVars, posts>>

\* createImageUploadUrl: Storage signs a URL, then the row is inserted.
CreateImageUploadUrl(r) ==
  LET c == call[r]
  IN  /\ pc[r] = "sign"
      /\ \/ /\ Respond(r, Answered("F500_UPLOAD_URL_CREATION_FAILED"))
            /\ UNCHANGED files
         \/ /\ files[c.file] = NoRow
            /\ files' = [files EXCEPT ![c.file] =
                 [owner |-> c.admin, purpose |-> c.purpose, status |-> "PENDING"]]
            /\ Respond(r, Answered("OK"))
      /\ UNCHANGED <<storedObjects, posts>>

\* The browser uploads through the URL, what was announced or something else.
Upload(f) ==
  /\ files[f] # NoRow /\ storedObjects[f] = "absent"
  /\ \E o \in IF files[f].status = "DELETED" THEN {"leaked"} ELSE {"matching", "different"} :
       storedObjects' = [storedObjects EXCEPT ![f] = o]
  /\ UNCHANGED <<requestVars, files, posts>>

\* completeFileUpload, up to the question to Storage.
LookUpUpload(r) ==
  LET row == files[call[r].file]
      otherOwner == row.owner # call[r].admin
  IN  /\ pc[r] = "lookup"
      /\ \/ /\ row = NoRow /\ Respond(r, Answered("F404_FILE_NOT_FOUND"))
         \/ /\ row # NoRow /\ otherOwner
            /\ Respond(r, Answered("F403_FILE_ACCESS_DENIED"))
         \/ /\ row # NoRow /\ ~otherOwner /\ row.status = "DELETED"
            /\ Respond(r, Answered("F409_FILE_DELETED"))
         \/ /\ row # NoRow /\ ~otherOwner /\ row.status = "COMPLETED"
            /\ Respond(r, Answered("OK"))
         \/ /\ row # NoRow /\ ~otherOwner /\ row.status = "PENDING"
            /\ Goto(r, "verify")
      /\ UNCHANGED <<fileVars, posts>>

\* What Storage may say of an object.
Reports(f) ==
  CASE storedObjects[f] = "absent"    -> {"F409_FILE_NOT_UPLOADED"}
    [] storedObjects[f] = "matching"  -> {"match"}
    [] storedObjects[f] = "different" -> {"F409_FILE_METADATA_MISMATCH"}
    [] storedObjects[f] = "leaked"    -> {"match", "F409_FILE_METADATA_MISMATCH"}

VerifyUpload(r) ==
  /\ pc[r] = "verify"
  /\ \E report \in Reports(call[r].file) \cup {"F500_FILE_VERIFICATION_FAILED"} :
       IF report = "match" THEN Goto(r, "write") ELSE Respond(r, Answered(report))
  /\ UNCHANGED <<fileVars, posts>>

\* Mutant: the update trusts the row that was read first.
StillThere(row) == row.status # "COMPLETED"
\* The condition of the update that completes a file.
StillPending(row) == row.status = "PENDING"

\* completeFileUpload, its transaction: a row that is no longer pending is read
\* again, and decides the answer.
CompleteFileUpload(r) ==
  LET row == files[call[r].file]
  IN  /\ pc[r] = "write"
      /\ \/ /\ StillPending(row)
            /\ SetStatus(call[r].file, "COMPLETED")
            /\ Respond(r, Answered("OK"))
         \/ /\ ~StillPending(row)
            /\ Respond(r, Answered(IF row.status = "DELETED" THEN "F409_FILE_DELETED" ELSE "OK"))
            /\ UNCHANGED files
      /\ UNCHANGED <<storedObjects, posts>>

\* Mutant: a deletion that was made before is answered at once.
AnswerAtOnce(r) == Respond(r, Answered("OK"))
\* A file that is already deleted still has its object removed.
CleanAgain(r) == Goto(r, "cleanup")

\* deleteFile, its transaction.
DeleteFile(r) ==
  LET f == call[r].file
  IN  /\ pc[r] = "tx" /\ call[r] \in FileCalls
      /\ \/ /\ files[f] = NoRow
            /\ Respond(r, Answered("F404_FILE_NOT_FOUND"))
            /\ UNCHANGED files
         \/ /\ files[f] # NoRow /\ files[f].status = "DELETED"
            /\ CleanAgain(r)
            /\ UNCHANGED files
         \/ /\ files[f] # NoRow /\ files[f].status # "DELETED" /\ IsInUse(f)
            /\ Respond(r, Answered("F409_FILE_IN_USE"))
            /\ UNCHANGED files
         \/ /\ files[f] # NoRow /\ files[f].status # "DELETED" /\ ~IsInUse(f)
            /\ SetStatus(f, "DELETED")
            /\ Goto(r, "cleanup")
      /\ UNCHANGED <<storedObjects, posts>>

FileConflict(r) ==
  /\ call[r] \in FileCalls
  /\ RetryAfterConflict(r, "F409_FILE_CONCURRENT_UPDATE")
  /\ UNCHANGED <<fileVars, posts>>

\* deleteFile, after its transaction: a call to Storage that fails may have
\* removed the object all the same.
RemoveObject(r) ==
  LET removed == [storedObjects EXCEPT ![call[r].file] = "absent"]
  IN  /\ pc[r] = "cleanup"
      /\ \/ /\ storedObjects' = removed
            /\ Respond(r, Answered("OK"))
         \/ /\ storedObjects' \in {storedObjects, removed}
            /\ Respond(r, Answered("F500_FILE_DELETE_FAILED"))
      /\ UNCHANGED <<files, posts>>

FilesNext ==
  \/ \E r \in Slots :
       \/ \E c \in FileCalls : ReceiveFileCall(r, c)
       \/ CreateImageUploadUrl(r)
       \/ LookUpUpload(r)
       \/ VerifyUpload(r)
       \/ CompleteFileUpload(r)
       \/ DeleteFile(r)
       \/ FileConflict(r)
       \/ RemoveObject(r)
  \/ \E f \in Images : Upload(f)

=============================================================================
