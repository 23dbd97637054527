---------------------------- MODULE MediaLibrary ----------------------------
(***************************************************************************)
(* Files and what shows them: products and posts are edited while image    *)
(* files are uploaded, completed and deleted.                              *)
(***************************************************************************)
EXTENDS Products, Files

mediaVars == <<databaseVars, requestVars, orderVars, fileVars, posts>>

MediaInit ==
  /\ DatabaseInit
  /\ RequestsInit
  /\ OrdersInit
  /\ FileDatabaseInit
  /\ PostsInit

MediaNext ==
  \/ ProductsNext /\ UNCHANGED <<fileVars, posts>>
  \/ FilesNext /\ UNCHANGED <<databaseVars, orderVars>>
  \/ PostsNext /\ UNCHANGED <<databaseVars, orderVars>>

MediaSpec == MediaInit /\ [][MediaNext]_mediaVars

\* The products at the start were written by the same rules.
ASSUME MediaAssumption ==
  \A p \in Products :
    LET row == InitialProducts[p]
    IN  row # NoRow =>
          /\ IsPublishable(row)
          /\ row.image # NoRow =>
               LET file == InitialFiles[row.image]
               IN  /\ file # NoRow
                   /\ file.status = "COMPLETED" /\ file.purpose = "PRODUCT_IMAGE"

-----------------------------------------------------------------------------
(* Properties *)

\* Every variable that the media library moves has its type.
MediaTypeOK ==
  /\ pc \in [Slots -> FilePc]
  /\ call \in [Slots -> ProductCalls \cup FileCalls \cup PostCalls \cup {NoCall}]
  /\ attempt \in [Slots -> 1..MaxAttempts]
  /\ answer \in [Slots -> Answer(ProductCodes \cup FileCodes \cup PostCodes \cup {"none"})]
  /\ products \in [Products -> Product \cup {NoRow}]
  /\ FileDatabaseTypeOK
  /\ PostsTypeOK

\* Whatever a product or post shows, draft or not, is a completed image made
\* for that use which nobody deleted: attaching looks at the file and deletion
\* at every use, in transactions that exclude each other (createProduct,
\* updateProduct, createPost, updatePost against deleteFile).
AttachedImagesUsable ==
  /\ \A p \in Products :
       products[p] # NoRow /\ products[p].image # NoRow =>
         products[p].image \in UsableAs("PRODUCT_IMAGE")
  /\ \A p \in PostIds :
       posts[p] # NoRow => posts[p].images \subseteq UsableAs("POST_IMAGE")

\* A completed file has its object in Storage, of the size and type announced,
\* although a deletion may come between the question to Storage and the update
\* (completeFileUpload against deleteFile and the browser).
CompletedHasObject ==
  \A f \in UsableAs("PRODUCT_IMAGE") \cup UsableAs("POST_IMAGE") :
    storedObjects[f] = "matching"

\* After a deletion is answered with success, the object is gone, also when
\* an earlier deletion of the file failed at Storage; only an upload after the
\* deletion can leave one (deleteFile and its repetition).
DeletedMeansGone ==
  \A r \in Slots :
    answer[r].code = "OK" /\ call[r] \in FileCalls /\ call[r].op = "delete" =>
      /\ files[call[r].file].status = "DELETED"
      /\ storedObjects[call[r].file] \in {"absent", "leaked"}

\* However partial updates of several administrators follow each other, the
\* public list makes sense of a published post: at any moment it is in exactly
\* one period, a past event has begun, and a calendar entry has a date
\* (updatePost against buildPeriodWhere).
PeriodsMakeSense ==
  \A p \in PostIds, now \in Days :
    posts[p] # NoRow /\ posts[p].status = "PUBLISHED" =>
      /\ \E period \in Periods : {x \in Periods : p \in Listed(x, now)} = {period}
      /\ p \in Listed("PAST", now) => posts[p].start < now
      /\ posts[p].calendar => posts[p].start # NoDay

\* A post keeps the date of its first publication through hiding and publishing
\* it again, and no post is shown without one (the public list is in its order).
FirstPublicationKept ==
  [][\A p \in PostIds :
       posts'[p] # NoRow =>
         /\ posts'[p].status = "PUBLISHED" => posts'[p].publishedAt # NoRow
         /\ posts[p] # NoRow /\ posts[p].publishedAt # NoRow =>
              posts'[p].publishedAt = posts[p].publishedAt
    ]_mediaVars

=============================================================================
