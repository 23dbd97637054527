----------------------------- MODULE MediaProofs -----------------------------
(***************************************************************************)
(* The media library, for any numbers of products, posts, files and        *)
(* requests.                                                               *)
(*                                                                         *)
(* None of its invariants is inductive by itself.  Between the question to *)
(* Storage and the update that completes a file, and between the deletion  *)
(* of a row and that of its object, a request relies on what it left in    *)
(* the tables; FileRequest says what.  MediaInv collects the parts.        *)
(***************************************************************************)
EXTENDS MediaLibrary, TLAPS

MediaCalls == ProductCalls \cup FileCalls \cup PostCalls
MediaCodes == ProductCodes \cup FileCodes \cup PostCodes

Deletions == {c \in FileCalls : c.op = "delete"}
Completions == {c \in FileCalls : c.op = "complete"}

RequestsTyped ==
  /\ pc \in [Slots -> FilePc]
  /\ call \in [Slots -> MediaCalls \cup {NoCall}]
  /\ attempt \in [Slots -> 1..MaxAttempts]
  /\ answer \in [Slots -> Answer(MediaCodes \cup {"none"})]

\* Each label belongs to one kind of call, and only done requests are answered.
Routed(r) ==
  /\ pc[r] \in {"lookup", "verify", "write"} => call[r] \in Completions
  /\ pc[r] = "sign" => call[r] \in FileCalls /\ call[r].op = "uploadUrl"
  /\ pc[r] = "cleanup" => call[r] \in Deletions
  /\ pc[r] = "tx" => call[r] \in ProductCalls \cup PostCalls \cup Deletions
  /\ pc[r] # "done" => answer[r].code = "none"

RequestInv == RequestsTyped /\ \A r \in Slots : Routed(r)

HasStatus(f, s) == files[f] # NoRow /\ files[f].status = s

\* What the tables say of file f agrees with what Storage has.
FileKept(f) ==
  /\ HasStatus(f, "COMPLETED") => storedObjects[f] = "matching"
  /\ storedObjects[f] = "leaked" => HasStatus(f, "DELETED")

\* What a request that is on its way, or was answered, relies on.
FileRequest(r) ==
  /\ pc[r] \in {"verify", "write"} => files[call[r].file] # NoRow
  /\ pc[r] = "write" /\ HasStatus(call[r].file, "PENDING") =>
       storedObjects[call[r].file] = "matching"
  /\ pc[r] = "cleanup" => HasStatus(call[r].file, "DELETED")
  /\ call[r] \in Deletions /\ answer[r].code = "OK" =>
       /\ HasStatus(call[r].file, "DELETED")
       /\ storedObjects[call[r].file] \in {"absent", "leaked"}

TablesTyped ==
  /\ products \in [Products -> Product \cup {NoRow}]
  /\ FileDatabaseTypeOK
  /\ PostsTypeOK

FileInv == (\A f \in Images : FileKept(f)) /\ (\A r \in Slots : FileRequest(r))

ProductFit(row) ==
  /\ IsPublishable(row)
  /\ row.image # NoRow => row.image \in UsableAs("PRODUCT_IMAGE")

PostFit(row) ==
  /\ ScheduleRefusal(row) = "none"
  /\ row.images \subseteq UsableAs("POST_IMAGE")
  /\ row.status = "PUBLISHED" => row.publishedAt # NoRow

\* What is shown is fit to be shown.
ShownInv ==
  /\ \A p \in Products : products[p] # NoRow => ProductFit(products[p])
  /\ \A p \in PostIds : posts[p] # NoRow => PostFit(posts[p])

MediaInv == RequestInv /\ TablesTyped /\ FileInv /\ ShownInv

-----------------------------------------------------------------------------
(* Requests *)

\* What an action leaves alone: every request but r.
OnlyRequest(r) ==
  \A s \in Slots \ {r} : pc'[s] = pc[s] /\ call'[s] = call[s] /\ answer'[s] = answer[s]

\* Every call of the media library is of one kind, with its fields.
LEMMA CallsTyped ==
  /\ FileCalls \subseteq FileCall /\ ProductCalls \subseteq ProductCall
  /\ PostCalls \subseteq PostCall
  /\ Deletions \cap (ProductCalls \cup PostCalls \cup Completions) = {}
  /\ \A c \in FileCalls : c.file \in Images
  /\ NoCall \notin MediaCalls
BY FilesAssumption, ProductsAssumption, PostsAssumption
   DEF FileCall, ProductCall, PostCall, Deletions, Completions, MediaCalls

\* An answer with a code of the media library has its type.
LEMMA AnsweredType ==
  ASSUME NEW code \in MediaCodes
  PROVE  Answered(code) \in Answer(MediaCodes \cup {"none"})
BY DEF Answered, Answer

\* A received call is at a label of its kind (Receive).
LEMMA ReceiveInv ==
  ASSUME RequestInv, NEW r \in Slots, NEW c \in MediaCalls, NEW l \in {"sign", "lookup", "tx"},
         Receive(r, c, l),
         l = "lookup" => c \in Completions,
         l = "sign" => c \in FileCalls /\ c.op = "uploadUrl",
         l = "tx" => c \in ProductCalls \cup PostCalls \cup Deletions
  PROVE  RequestInv' /\ OnlyRequest(r) /\ pc'[r] = l /\ call'[r] = c /\ answer'[r].code = "none"
BY DEF RequestInv, RequestsTyped, Routed, Receive, OnlyRequest, FilePc

\* A call that is answered at once is done (ReceiveAndRespond).
LEMMA ReceiveAndRespondInv ==
  ASSUME RequestInv, NEW r \in Slots, NEW c \in MediaCalls, NEW code \in MediaCodes,
         ReceiveAndRespond(r, c, code)
  PROVE  /\ RequestInv' /\ OnlyRequest(r)
         /\ pc'[r] = "done" /\ call'[r] = c /\ answer'[r].code = code
<1>1. Answered(code) \in Answer(MediaCodes \cup {"none"})
  BY AnsweredType
<1>2. Answered(code).code = code
  BY DEF Answered
<1> QED
  BY <1>1, <1>2 DEF RequestInv, RequestsTyped, Routed, ReceiveAndRespond, OnlyRequest, FilePc

\* A request that moves on keeps its call (Goto).
LEMMA GotoInv ==
  ASSUME RequestInv, NEW r \in Slots, NEW l \in {"verify", "write", "cleanup"}, Goto(r, l),
         l \in {"verify", "write"} => pc[r] \in {"lookup", "verify"},
         l = "cleanup" => pc[r] = "tx" /\ call[r] \in Deletions
  PROVE  RequestInv' /\ OnlyRequest(r) /\ pc'[r] = l /\ UNCHANGED <<call, answer>>
BY DEF RequestInv, RequestsTyped, Routed, Goto, OnlyRequest, FilePc

\* An answered request is done (Respond).
LEMMA RespondInv ==
  ASSUME RequestInv, NEW r \in Slots, NEW code \in MediaCodes, Respond(r, Answered(code))
  PROVE  /\ RequestInv' /\ OnlyRequest(r)
         /\ pc'[r] = "done" /\ call' = call /\ answer'[r].code = code
<1>1. Answered(code) \in Answer(MediaCodes \cup {"none"})
  BY AnsweredType
<1>2. Answered(code).code = code
  BY DEF Answered
<1> QED
  BY <1>1, <1>2 DEF RequestInv, RequestsTyped, Routed, Respond, OnlyRequest, FilePc

\* The retry loop gives up with a code, or counts the attempt and stays where it is
\* (runSerializableTransaction).
LEMMA RetryInv ==
  ASSUME RequestInv, NEW r \in Slots, NEW code \in MediaCodes \ {"OK"},
         RetryAfterConflict(r, code)
  PROVE  /\ RequestInv' /\ OnlyRequest(r) /\ call' = call
         /\ pc'[r] \in {"tx", "done"} /\ answer'[r].code # "OK"
<1>0. answer[r].code = "none"
  BY DEF RequestInv, Routed, RetryAfterConflict
<1>1. CASE /\ attempt[r] < MaxAttempts
           /\ attempt' = [attempt EXCEPT ![r] = @ + 1]
           /\ UNCHANGED <<pc, call, answer>>
  <2>1. attempt' \in [Slots -> 1..MaxAttempts]
    <3>1. attempt \in [Slots -> 1..MaxAttempts] /\ MaxAttempts \in Nat
      BY RequestsAssumption DEF RequestInv, RequestsTyped
    <3>2. attempt[r] + 1 \in 1..MaxAttempts
      BY <1>1, <3>1
    <3> QED
      BY <1>1, <3>1, <3>2
  <2>2. RequestsTyped'
    BY <1>1, <2>1 DEF RequestInv, RequestsTyped
  <2>3. \A s \in Slots : Routed(s)'
    BY <1>1 DEF RequestInv, Routed
  <2> QED
    BY <1>0, <1>1, <2>2, <2>3 DEF RequestInv, OnlyRequest, RetryAfterConflict
<1>2. CASE attempt[r] = MaxAttempts /\ Respond(r, Answered(code))
  BY <1>2, RespondInv
<1> QED
  BY <1>1, <1>2 DEF RetryAfterConflict

-----------------------------------------------------------------------------
(* Tables *)

\* How the life of a file and its object goes on: rows stay, a deleted file
\* stays deleted and its object away, and a pending one keeps what was uploaded.
FilesMove ==
  \A f \in Images :
    /\ files[f] # NoRow => files'[f] # NoRow
    /\ HasStatus(f, "DELETED") =>
         /\ HasStatus(f, "DELETED")'
         /\ storedObjects[f] \in {"absent", "leaked"} => storedObjects'[f] \in {"absent", "leaked"}
    /\ files[f] # NoRow /\ HasStatus(f, "PENDING")' =>
         /\ HasStatus(f, "PENDING")
         /\ storedObjects[f] = "matching" => storedObjects'[f] = "matching"

\* The call of a request about a file names one.
LEMMA NamedFile ==
  ASSUME RequestInv, NEW r \in Slots,
         pc[r] \in {"lookup", "verify", "write", "sign", "cleanup"} \/ call[r] \in FileCalls
  PROVE  call[r] \in FileCalls /\ call[r].file \in Images
BY CallsTyped DEF RequestInv, Routed, Deletions, Completions

\* The requests that do not move may rely on what they relied on.
LEMMA OthersRely ==
  ASSUME RequestInv, FileInv, NEW r \in Slots, OnlyRequest(r), FilesMove, FileRequest(r)'
  PROVE  \A s \in Slots : FileRequest(s)'
<1> SUFFICES ASSUME NEW s \in Slots \ {r} PROVE FileRequest(s)'
  OBVIOUS
<1>1. pc'[s] = pc[s] /\ call'[s] = call[s] /\ answer'[s] = answer[s]
  BY DEF OnlyRequest
<1>2. FileRequest(s)
  BY DEF FileInv
<1>3. CASE pc[s] \in {"verify", "write", "cleanup"} \/ call[s] \in Deletions
  <2>1. call[s].file \in Images
    BY <1>3, NamedFile DEF Deletions
  <2>2. (call[s].file)' = call[s].file
    BY <1>1
  <2> QED
    BY <1>1, <1>2, <2>1, <2>2 DEF FileRequest, FilesMove, HasStatus
<1>4. CASE ~(pc[s] \in {"verify", "write", "cleanup"} \/ call[s] \in Deletions)
  BY <1>1, <1>4 DEF FileRequest
<1> QED
  BY <1>3, <1>4

\* A row of the product and post tables is fit as long as its images stay.
LEMMA ShownKept ==
  ASSUME TablesTyped, ShownInv, UNCHANGED <<products, posts>>,
         \A f \in Images : IsInUse(f) /\ HasStatus(f, "COMPLETED") => files'[f] = files[f]
  PROVE  ShownInv'
<1>1. \A f \in Images, u \in Purposes : IsInUse(f) /\ f \in UsableAs(u) => f \in UsableAs(u)'
  BY DEF UsableAs, HasStatus
<1>2. ASSUME NEW p \in Products, products[p] # NoRow
      PROVE  ProductFit(products[p])'
  <2>1. products[p].image # NoRow => products[p].image \in UsableAs("PRODUCT_IMAGE")'
    BY <1>1, <1>2 DEF ShownInv, ProductFit, IsInUse, UsableAs, Purposes
  <2> QED
    BY <1>2, <2>1 DEF ShownInv, ProductFit, IsPublishable
<1>3. ASSUME NEW p \in PostIds, posts[p] # NoRow
      PROVE  PostFit(posts[p])'
  <2>1. posts[p].images \subseteq UsableAs("POST_IMAGE")'
    BY <1>1, <1>3 DEF ShownInv, PostFit, IsInUse, UsableAs, Purposes
  <2> QED
    BY <1>3, <2>1 DEF ShownInv, PostFit, ScheduleRefusal
<1> QED
  BY <1>2, <1>3 DEF ShownInv

\* A step of request r that only moves the request.
LEMMA RequestStep ==
  ASSUME MediaInv, NEW r \in Slots, RequestInv', OnlyRequest(r),
         UNCHANGED <<products, files, storedObjects, posts>>, FileRequest(r)'
  PROVE  MediaInv'
<1>1. FilesMove
  BY DEF FilesMove, HasStatus
<1>2. \A s \in Slots : FileRequest(s)'
  BY <1>1, OthersRely DEF MediaInv
<1>3. TablesTyped'
  BY DEF MediaInv, TablesTyped, FileDatabaseTypeOK, PostsTypeOK
<1>4. \A f \in Images : FileKept(f)'
  BY DEF MediaInv, FileInv, FileKept, HasStatus
<1>5. ShownInv'
  BY ShownKept DEF MediaInv
<1> QED
  BY <1>2, <1>3, <1>4, <1>5 DEF MediaInv, FileInv

\* A request that is refused, or answered about something else than a file.
LEMMA Unrelied ==
  ASSUME NEW r \in Slots, pc'[r] \in {"sign", "lookup", "tx", "done"},
         answer'[r].code # "OK" \/ call'[r] \notin Deletions
  PROVE  FileRequest(r)'
BY DEF FileRequest

-----------------------------------------------------------------------------
(* Files *)

\* A request to /admin/files is received (FilesController).
LEMMA FileReceived ==
  ASSUME MediaInv, UNCHANGED <<databaseVars, orderVars>>,
         NEW r \in Slots, NEW c \in FileCalls, ReceiveFileCall(r, c)
  PROVE  MediaInv'
<1>0. /\ RequestInv /\ c \in FileCall /\ c \in MediaCalls
      /\ UNCHANGED <<products, files, storedObjects, posts>>
  BY CallsTyped DEF MediaInv, MediaCalls, databaseVars, ReceiveFileCall, fileVars
<1>1. CASE c.op = "uploadUrl" /\ c.defect # "none" /\ ReceiveAndRespond(r, c, c.defect)
  <2>1. c.defect \in MediaCodes
    BY <1>0, <1>1 DEF FileCall, MediaCodes, FileCodes
  <2>2. RequestInv' /\ OnlyRequest(r) /\ pc'[r] = "done" /\ call'[r] = c
    BY <1>0, <1>1, <2>1, ReceiveAndRespondInv
  <2> QED
    BY <1>0, <1>1, <2>2, Unrelied, RequestStep DEF Deletions
<1>2. CASE c.op = "uploadUrl" /\ Receive(r, c, "sign")
  <2>1. RequestInv' /\ OnlyRequest(r) /\ pc'[r] = "sign" /\ answer'[r].code = "none"
    BY <1>0, <1>2, ReceiveInv
  <2> QED
    BY <1>0, <2>1, Unrelied, RequestStep
<1>3. CASE c.op = "complete" /\ Receive(r, c, "lookup")
  <2>1. RequestInv' /\ OnlyRequest(r) /\ pc'[r] = "lookup" /\ answer'[r].code = "none"
    BY <1>0, <1>3, ReceiveInv DEF Completions
  <2> QED
    BY <1>0, <2>1, Unrelied, RequestStep
<1>4. CASE c.op = "delete" /\ Receive(r, c, "tx")
  <2>1. RequestInv' /\ OnlyRequest(r) /\ pc'[r] = "tx" /\ answer'[r].code = "none"
    BY <1>0, <1>4, ReceiveInv DEF Deletions
  <2> QED
    BY <1>0, <2>1, Unrelied, RequestStep
<1> QED
  BY <1>1, <1>2, <1>3, <1>4 DEF ReceiveFileCall

\* A step of request r that changes the row of its file f (createImageUploadUrl,
\* completeFileUpload, deleteFile).
LEMMA FileWrite ==
  ASSUME MediaInv, NEW r \in Slots, RequestInv', OnlyRequest(r), NEW f \in Images,
         NEW row \in File, files' = [files EXCEPT ![f] = row],
         UNCHANGED <<products, storedObjects, posts>>,
         \/ files[f] = NoRow /\ row.status = "PENDING"
         \/ HasStatus(f, "PENDING") /\ row.status = "COMPLETED" /\ storedObjects[f] = "matching"
         \/ files[f] # NoRow /\ row.status = "DELETED" /\ ~IsInUse(f),
         FileRequest(r)'
  PROVE  MediaInv'
<1>0. /\ files \in [Images -> File \cup {NoRow}] /\ row # NoRow
      /\ files'[f] = row /\ \A g \in Images \ {f} : files'[g] = files[g]
  BY FileDatabaseAssumption DEF MediaInv, TablesTyped, FileDatabaseTypeOK
<1>1. FilesMove
  <2> SUFFICES ASSUME NEW g \in Images
               PROVE  /\ files[g] # NoRow => files'[g] # NoRow
                      /\ HasStatus(g, "DELETED") => HasStatus(g, "DELETED")'
                      /\ files[g] # NoRow /\ HasStatus(g, "PENDING")' => HasStatus(g, "PENDING")
    BY DEF FilesMove
  <2>1. CASE g = f
    BY <1>0, <2>1 DEF HasStatus
  <2>2. CASE g # f
    BY <1>0, <2>2 DEF HasStatus
  <2> QED
    BY <2>1, <2>2
<1>2. \A s \in Slots : FileRequest(s)'
  BY <1>1, OthersRely DEF MediaInv
<1>3. TablesTyped'
  BY <1>0 DEF MediaInv, TablesTyped, FileDatabaseTypeOK, PostsTypeOK
<1>4. ASSUME NEW g \in Images
      PROVE  FileKept(g)'
  <2>0. FileKept(g)
    BY DEF MediaInv, FileInv
  <2>1. CASE g = f
    BY <1>0, <2>0, <2>1 DEF FileKept, HasStatus
  <2>2. CASE g # f
    BY <1>0, <2>0, <2>2 DEF FileKept, HasStatus
  <2> QED
    BY <2>1, <2>2
<1>5. ShownInv'
  <2>1. ASSUME NEW g \in Images, IsInUse(g), HasStatus(g, "COMPLETED")
        PROVE  files'[g] = files[g]
    BY <1>0, <2>1 DEF HasStatus
  <2> QED
    BY <2>1, ShownKept DEF MediaInv
<1> QED
  BY <1>2, <1>3, <1>4, <1>5 DEF MediaInv, FileInv

\* createImageUploadUrl.
LEMMA UploadUrlCreated ==
  ASSUME MediaInv, UNCHANGED <<databaseVars, orderVars>>, NEW r \in Slots, CreateImageUploadUrl(r)
  PROVE  MediaInv'
<1> DEFINE c == call[r]
           row == [owner |-> c.admin, purpose |-> c.purpose, status |-> "PENDING"]
<1>0. /\ RequestInv /\ c \in FileCalls /\ c.op = "uploadUrl" /\ c.file \in Images
      /\ c \notin Deletions
      /\ UNCHANGED <<products, storedObjects, posts>>
  BY NamedFile DEF MediaInv, RequestInv, Routed, databaseVars, CreateImageUploadUrl, Deletions
<1>1. CASE Respond(r, Answered("F500_UPLOAD_URL_CREATION_FAILED")) /\ UNCHANGED files
  <2>1. "F500_UPLOAD_URL_CREATION_FAILED" \in MediaCodes
    BY DEF MediaCodes, FileCodes
  <2>2. RequestInv' /\ OnlyRequest(r) /\ pc'[r] = "done" /\ call' = call
    BY <1>0, <1>1, <2>1, RespondInv
  <2> QED
    BY <1>0, <1>1, <2>2, Unrelied, RequestStep
<1>2. CASE /\ files[c.file] = NoRow
           /\ files' = [files EXCEPT ![c.file] = row]
           /\ Respond(r, Answered("OK"))
  <2>1. "OK" \in MediaCodes
    BY DEF MediaCodes, FileCodes
  <2>2. RequestInv' /\ OnlyRequest(r) /\ pc'[r] = "done" /\ call' = call
    BY <1>0, <1>2, <2>1, RespondInv
  <2>3. FileRequest(r)'
    BY <1>0, <2>2, Unrelied
  <2>4. c \in FileCall
    BY <1>0, CallsTyped
  <2>5. row \in File
    BY <1>0, <2>4 DEF FileCall, File, Purposes
  <2> QED
    BY <1>0, <1>2, <2>2, <2>3, <2>5, FileWrite
<1> QED
  BY <1>1, <1>2 DEF CreateImageUploadUrl

\* The first part of completeFileUpload.
LEMMA UploadLookedUp ==
  ASSUME MediaInv, UNCHANGED <<databaseVars, orderVars>>, NEW r \in Slots, LookUpUpload(r)
  PROVE  MediaInv'
<1>0. /\ RequestInv /\ call[r] \in Completions /\ call[r] \notin Deletions
      /\ UNCHANGED <<products, files, storedObjects, posts>>
  BY CallsTyped DEF MediaInv, RequestInv, Routed, databaseVars, fileVars, LookUpUpload
<1>1. ASSUME NEW code \in MediaCodes, Respond(r, Answered(code))
      PROVE  MediaInv'
  <2>1. RequestInv' /\ OnlyRequest(r) /\ pc'[r] = "done" /\ call' = call
    BY <1>0, <1>1, RespondInv
  <2> QED
    BY <1>0, <2>1, Unrelied, RequestStep
<1>2. CASE files[call[r].file] # NoRow /\ Goto(r, "verify")
  <2>1. RequestInv' /\ OnlyRequest(r) /\ pc'[r] = "verify" /\ UNCHANGED <<call, answer>>
    BY <1>0, <1>2, GotoInv DEF LookUpUpload
  <2>2. FileRequest(r)'
    BY <1>0, <1>2, <2>1 DEF FileRequest
  <2> QED
    BY <1>0, <2>1, <2>2, RequestStep
<1>3. {"OK", "F404_FILE_NOT_FOUND", "F403_FILE_ACCESS_DENIED", "F409_FILE_DELETED"} \subseteq MediaCodes
  BY DEF MediaCodes, FileCodes
<1> QED
  BY <1>1, <1>2, <1>3 DEF LookUpUpload

\* The question to Storage: a match was said of an object that matches, or of
\* one that leaked, and then the file is deleted.
LEMMA UploadVerified ==
  ASSUME MediaInv, UNCHANGED <<databaseVars, orderVars>>, NEW r \in Slots, VerifyUpload(r)
  PROVE  MediaInv'
<1> DEFINE f == call[r].file
<1>0. /\ RequestInv /\ call[r] \in Completions /\ call[r] \notin Deletions
      /\ f \in Images /\ FileKept(f) /\ FileRequest(r) /\ pc[r] = "verify"
      /\ UNCHANGED <<products, files, storedObjects, posts>>
  BY CallsTyped, NamedFile
     DEF MediaInv, FileInv, RequestInv, Routed, databaseVars, fileVars, VerifyUpload
<1> PICK report \in Reports(f) \cup {"F500_FILE_VERIFICATION_FAILED"} :
      IF report = "match" THEN Goto(r, "write") ELSE Respond(r, Answered(report))
  BY DEF VerifyUpload
<1>t. storedObjects[f] \in {"absent", "matching", "different", "leaked"}
  BY <1>0 DEF MediaInv, TablesTyped, FileDatabaseTypeOK
<1>1. CASE report = "match"
  <2>1. RequestInv' /\ OnlyRequest(r) /\ pc'[r] = "write" /\ UNCHANGED <<call, answer>>
    BY <1>0, <1>1, GotoInv
  <2>2. storedObjects[f] \in {"matching", "leaked"}
    BY <1>1, <1>t DEF Reports
  <2>3. HasStatus(f, "PENDING") => storedObjects[f] = "matching"
    BY <1>0, <2>2 DEF FileKept, HasStatus
  <2>4. files[f] # NoRow
    BY <1>0 DEF FileRequest
  <2>5. FileRequest(r)'
    BY <1>0, <2>1, <2>3, <2>4 DEF FileRequest, HasStatus
  <2> QED
    BY <1>0, <2>1, <2>5, RequestStep
<1>2. CASE report # "match"
  <2>1. report \in MediaCodes
    BY <1>2, <1>t DEF Reports, MediaCodes, FileCodes
  <2>2. RequestInv' /\ OnlyRequest(r) /\ pc'[r] = "done" /\ call' = call
    BY <1>0, <1>2, <2>1, RespondInv
  <2> QED
    BY <1>0, <2>2, Unrelied, RequestStep
<1> QED
  BY <1>1, <1>2

\* The transaction of completeFileUpload.
LEMMA UploadCompleted ==
  ASSUME MediaInv, UNCHANGED <<databaseVars, orderVars>>, NEW r \in Slots, CompleteFileUpload(r)
  PROVE  MediaInv'
<1> DEFINE f == call[r].file
<1>0. /\ RequestInv /\ call[r] \in Completions /\ call[r] \notin Deletions
      /\ f \in Images /\ FileRequest(r) /\ pc[r] = "write"
      /\ files[f] # NoRow /\ files[f] \in File
      /\ UNCHANGED <<products, storedObjects, posts>>
  <2>1. RequestInv /\ call[r] \in Completions /\ call[r] \notin Deletions /\ pc[r] = "write"
    BY CallsTyped DEF MediaInv, RequestInv, Routed, CompleteFileUpload
  <2>2. f \in Images /\ FileRequest(r)
    BY <2>1, NamedFile DEF MediaInv, FileInv
  <2>3. files[f] # NoRow
    BY <2>1, <2>2 DEF FileRequest
  <2> QED
    BY <2>1, <2>2, <2>3
       DEF MediaInv, TablesTyped, FileDatabaseTypeOK, databaseVars, CompleteFileUpload
<1>1. ASSUME NEW code \in MediaCodes, Respond(r, Answered(code))
      PROVE  RequestInv' /\ OnlyRequest(r) /\ FileRequest(r)'
  <2>1. RequestInv' /\ OnlyRequest(r) /\ pc'[r] = "done" /\ call' = call
    BY <1>0, <1>1, RespondInv
  <2> QED
    BY <1>0, <2>1, Unrelied
<1>2. {"OK", "F409_FILE_DELETED"} \subseteq MediaCodes
  BY DEF MediaCodes, FileCodes
<1>3. CASE /\ StillPending(files[f])
           /\ SetStatus(f, "COMPLETED")
           /\ Respond(r, Answered("OK"))
  <2> DEFINE row == [files[f] EXCEPT !.status = "COMPLETED"]
  <2>1. row \in File /\ row.status = "COMPLETED"
    BY <1>0 DEF File
  <2>2. files' = [files EXCEPT ![f] = row]
    BY <1>3 DEF SetStatus
  <2>3. HasStatus(f, "PENDING")
    BY <1>0, <1>3 DEF StillPending, HasStatus
  <2>4. storedObjects[f] = "matching"
    BY <1>0, <2>3 DEF FileRequest
  <2>5. RequestInv' /\ OnlyRequest(r) /\ FileRequest(r)'
    BY <1>1, <1>2, <1>3
  <2> QED
    BY <1>0, <2>1, <2>2, <2>3, <2>4, <2>5, FileWrite
<1>4. CASE /\ Respond(r, Answered(IF files[f].status = "DELETED" THEN "F409_FILE_DELETED" ELSE "OK"))
           /\ UNCHANGED files
  <2>1. RequestInv' /\ OnlyRequest(r) /\ FileRequest(r)'
    BY <1>1, <1>2, <1>4
  <2> QED
    BY <1>0, <1>4, <2>1, RequestStep
<1> QED
  BY <1>3, <1>4 DEF CompleteFileUpload

\* The transaction of deleteFile.
LEMMA FileDeleted ==
  ASSUME MediaInv, UNCHANGED <<databaseVars, orderVars>>, NEW r \in Slots, DeleteFile(r)
  PROVE  MediaInv'
<1> DEFINE f == call[r].file
<1>0. /\ RequestInv /\ call[r] \in Deletions /\ f \in Images /\ pc[r] = "tx"
      /\ answer[r].code = "none" /\ files \in [Images -> File \cup {NoRow}]
      /\ UNCHANGED <<products, storedObjects, posts>>
  <2>1. RequestInv /\ pc[r] = "tx" /\ call[r] \in FileCalls
    BY DEF MediaInv, DeleteFile
  <2>2. call[r] \notin ProductCalls \cup PostCalls
    BY <2>1, CallsTyped DEF FileCall, ProductCall, PostCall
  <2> QED
    BY <2>1, <2>2, NamedFile
       DEF RequestInv, Routed, MediaInv, TablesTyped, FileDatabaseTypeOK, databaseVars, DeleteFile
<1>1. ASSUME NEW code \in MediaCodes \ {"OK"}, Respond(r, Answered(code)), UNCHANGED files
      PROVE  MediaInv'
  <2>1. RequestInv' /\ OnlyRequest(r) /\ pc'[r] = "done" /\ answer'[r].code = code
    BY <1>0, <1>1, RespondInv
  <2> QED
    BY <1>0, <1>1, <2>1, Unrelied, RequestStep
<1>2. {"F404_FILE_NOT_FOUND", "F409_FILE_IN_USE"} \subseteq MediaCodes \ {"OK"}
  BY DEF MediaCodes, FileCodes
<1>3. CASE HasStatus(f, "DELETED") /\ CleanAgain(r) /\ UNCHANGED files
  <2>1. RequestInv' /\ OnlyRequest(r) /\ pc'[r] = "cleanup" /\ UNCHANGED <<call, answer>>
    BY <1>0, <1>3, GotoInv DEF CleanAgain
  <2>2. FileRequest(r)'
    BY <1>0, <1>3, <2>1 DEF FileRequest, HasStatus
  <2> QED
    BY <1>0, <1>3, <2>1, <2>2, RequestStep
<1>4. CASE files[f] # NoRow /\ ~IsInUse(f) /\ SetStatus(f, "DELETED") /\ Goto(r, "cleanup")
  <2> DEFINE row == [files[f] EXCEPT !.status = "DELETED"]
  <2>1. row \in File /\ row.status = "DELETED"
    BY <1>0, <1>4 DEF File
  <2>2. files' = [files EXCEPT ![f] = row]
    BY <1>4 DEF SetStatus
  <2>3. RequestInv' /\ OnlyRequest(r) /\ pc'[r] = "cleanup" /\ UNCHANGED <<call, answer>>
    BY <1>0, <1>4, GotoInv
  <2>4. files'[f] = row /\ row # NoRow
    BY <1>0, <2>1, <2>2, FileDatabaseAssumption
  <2>5. FileRequest(r)'
    BY <1>0, <2>1, <2>3, <2>4 DEF FileRequest, HasStatus
  <2> QED
    BY <1>0, <1>4, <2>1, <2>2, <2>3, <2>5, FileWrite
<1> QED
  BY <1>1, <1>2, <1>3, <1>4 DEF DeleteFile, HasStatus

\* A serialization conflict of a deletion.
LEMMA FileRetried ==
  ASSUME MediaInv, UNCHANGED <<databaseVars, orderVars>>, NEW r \in Slots, FileConflict(r)
  PROVE  MediaInv'
<1>1. "F409_FILE_CONCURRENT_UPDATE" \in MediaCodes \ {"OK"}
  BY DEF MediaCodes, FileCodes
<1>2. /\ RequestInv' /\ OnlyRequest(r)
      /\ pc'[r] \in {"tx", "done"} /\ answer'[r].code # "OK"
  BY <1>1, RetryInv DEF MediaInv, FileConflict
<1> QED
  BY <1>2, Unrelied, RequestStep DEF FileConflict, databaseVars, fileVars

\* A step of request r, or of a browser, that changes the object of file f.
LEMMA ObjectWrite ==
  ASSUME MediaInv, RequestInv', NEW f \in Images, files[f] # NoRow,
         NEW o \in {"absent", "matching", "different", "leaked"},
         storedObjects' = [storedObjects EXCEPT ![f] = o],
         UNCHANGED <<products, files, posts>>,
         IF HasStatus(f, "DELETED") THEN o \in {"absent", "leaked"}
         ELSE storedObjects[f] = "absent" /\ o # "leaked",
         FilesMove => \A s \in Slots : FileRequest(s)'
  PROVE  MediaInv'
<1>0. /\ storedObjects \in [Images -> {"absent", "matching", "different", "leaked"}]
      /\ storedObjects'[f] = o
      /\ \A g \in Images \ {f} : storedObjects'[g] = storedObjects[g]
  BY DEF MediaInv, TablesTyped, FileDatabaseTypeOK
<1>1. FilesMove
  <2> SUFFICES ASSUME NEW g \in Images
               PROVE  /\ HasStatus(g, "DELETED") =>
                           (storedObjects[g] \in {"absent", "leaked"} => storedObjects'[g] \in {"absent", "leaked"})
                      /\ HasStatus(g, "PENDING") =>
                           (storedObjects[g] = "matching" => storedObjects'[g] = "matching")
    BY DEF FilesMove, HasStatus
  <2>1. CASE g = f
    BY <1>0, <2>1 DEF HasStatus
  <2>2. CASE g # f
    BY <1>0, <2>2
  <2> QED
    BY <2>1, <2>2
<1>2. \A s \in Slots : FileRequest(s)'
  BY <1>1
<1>3. TablesTyped'
  BY <1>0 DEF MediaInv, TablesTyped, FileDatabaseTypeOK, PostsTypeOK
<1>4. ASSUME NEW g \in Images
      PROVE  FileKept(g)'
  <2>0. FileKept(g)
    BY DEF MediaInv, FileInv
  <2>1. CASE g = f
    BY <1>0, <2>0, <2>1 DEF FileKept, HasStatus
  <2>2. CASE g # f
    BY <1>0, <2>0, <2>2 DEF FileKept, HasStatus
  <2> QED
    BY <2>1, <2>2
<1>5. ShownInv'
  BY ShownKept DEF MediaInv
<1> QED
  BY <1>2, <1>3, <1>4, <1>5 DEF MediaInv, FileInv

\* deleteFile removes the object.
LEMMA ObjectRemoved ==
  ASSUME MediaInv, UNCHANGED <<databaseVars, orderVars>>, NEW r \in Slots, RemoveObject(r)
  PROVE  MediaInv'
<1> DEFINE f == call[r].file
<1>0. /\ RequestInv /\ call[r] \in Deletions /\ f \in Images
      /\ HasStatus(f, "DELETED") /\ answer[r].code = "none"
      /\ UNCHANGED <<products, files, posts>>
  <2>1. RequestInv /\ pc[r] = "cleanup" /\ call[r] \in Deletions /\ answer[r].code = "none"
    BY DEF MediaInv, RequestInv, Routed, RemoveObject
  <2>2. f \in Images /\ FileRequest(r)
    BY <2>1, NamedFile DEF MediaInv, FileInv
  <2> QED
    BY <2>1, <2>2 DEF FileRequest, databaseVars, RemoveObject
<1>1. {"OK", "F500_FILE_DELETE_FAILED"} \subseteq MediaCodes
  BY DEF MediaCodes, FileCodes
<1>2. CASE /\ storedObjects' = [storedObjects EXCEPT ![f] = "absent"]
           /\ \/ Respond(r, Answered("OK"))
              \/ Respond(r, Answered("F500_FILE_DELETE_FAILED"))
  <2>1. RequestInv' /\ OnlyRequest(r) /\ pc'[r] = "done" /\ call' = call
    BY <1>0, <1>1, <1>2, RespondInv
  <2>2. storedObjects'[f] = "absent"
    BY <1>0, <1>2 DEF MediaInv, TablesTyped, FileDatabaseTypeOK
  <2>3. FileRequest(r)'
    BY <1>0, <2>1, <2>2 DEF FileRequest, HasStatus
  <2>4. FilesMove => \A s \in Slots : FileRequest(s)'
    BY <2>1, <2>3, OthersRely DEF MediaInv
  <2> QED
    BY <1>0, <1>2, <2>1, <2>4, ObjectWrite DEF HasStatus
<1>3. CASE storedObjects' = storedObjects /\ Respond(r, Answered("F500_FILE_DELETE_FAILED"))
  <2>1. RequestInv' /\ OnlyRequest(r) /\ pc'[r] = "done" /\ answer'[r].code # "OK"
    BY <1>0, <1>1, <1>3, RespondInv
  <2> QED
    BY <1>0, <1>3, <2>1, Unrelied, RequestStep
<1> QED
  BY <1>2, <1>3 DEF RemoveObject

\* A browser uploads.
LEMMA ObjectUploaded ==
  ASSUME MediaInv, UNCHANGED <<databaseVars, orderVars>>, NEW f \in Images, Upload(f)
  PROVE  MediaInv'
<1> PICK o \in IF files[f].status = "DELETED" THEN {"leaked"} ELSE {"matching", "different"} :
      storedObjects' = [storedObjects EXCEPT ![f] = o]
  BY DEF Upload
<1>0. /\ files[f] # NoRow /\ storedObjects[f] = "absent"
      /\ UNCHANGED <<pc, call, attempt, answer, products, files, posts>>
  BY DEF Upload, requestVars, databaseVars
<1>1. RequestInv'
  BY <1>0 DEF MediaInv, RequestInv, RequestsTyped, Routed
<1>2. FilesMove => \A s \in Slots : FileRequest(s)'
  <2> SUFFICES ASSUME FilesMove, NEW s \in Slots PROVE FileRequest(s)'
    OBVIOUS
  <2>1. pc[s] \in {"verify", "write", "cleanup"} \/ call[s] \in Deletions => call[s].file \in Images
    BY NamedFile DEF MediaInv, Deletions
  <2> QED
    BY <1>0, <2>1 DEF MediaInv, FileInv, FileRequest, FilesMove, HasStatus
<1> QED
  BY <1>0, <1>1, <1>2, ObjectWrite DEF HasStatus

\* Every step of the file service, and of the browsers.
LEMMA FilesStep ==
  ASSUME MediaInv, FilesNext, UNCHANGED <<databaseVars, orderVars>>
  PROVE  MediaInv'
BY FileReceived, UploadUrlCreated, UploadLookedUp, UploadVerified, UploadCompleted, FileDeleted,
   FileRetried, ObjectRemoved, ObjectUploaded
   DEF FilesNext

-----------------------------------------------------------------------------
(* Products and posts *)

\* A step of request r that answers it and leaves the files alone.
LEMMA TableStep ==
  ASSUME MediaInv, NEW r \in Slots, NEW code \in MediaCodes, Respond(r, Answered(code)),
         code # "OK" \/ call[r] \notin Deletions,
         UNCHANGED <<files, storedObjects>>, TablesTyped', ShownInv'
  PROVE  MediaInv'
<1>1. RequestInv' /\ OnlyRequest(r) /\ FileRequest(r)'
  <2>1. /\ RequestInv' /\ OnlyRequest(r)
        /\ pc'[r] = "done" /\ call' = call /\ answer'[r].code = code
    BY RespondInv DEF MediaInv
  <2> QED
    BY <2>1, Unrelied
<1>2. FilesMove
  BY DEF FilesMove, HasStatus
<1>3. \A s \in Slots : FileRequest(s)'
  BY <1>1, <1>2, OthersRely DEF MediaInv
<1>4. \A f \in Images : FileKept(f)'
  BY DEF MediaInv, FileInv, FileKept, HasStatus
<1> QED
  BY <1>1, <1>3, <1>4 DEF MediaInv, FileInv

\* An image that is accepted is usable (the checks of the image rows).
LEMMA AcceptedImage ==
  ASSUME NEW f \in Images, NEW u \in Purposes, ImageRefusal(f, u) = "none"
  PROVE  f \in UsableAs(u)
BY DEF ImageRefusal, UsableAs

\* Writing a fit row of a product (createProduct, updateProduct).
LEMMA ProductWrite ==
  ASSUME MediaInv, NEW p \in Products, NEW row \in Product, ProductFit(row),
         products' = [products EXCEPT ![p] = row],
         UNCHANGED <<files, storedObjects, posts>>
  PROVE  TablesTyped' /\ ShownInv'
<1>1. TablesTyped'
  BY DEF MediaInv, TablesTyped, FileDatabaseTypeOK, PostsTypeOK
<1>2. ASSUME NEW q \in Products, products'[q] # NoRow
      PROVE  ProductFit(products[q])'
  <2>1. CASE q = p
    <3>1. products'[q] = row
      BY <2>1 DEF MediaInv, TablesTyped
    <3> QED
      BY <3>1 DEF ProductFit, IsPublishable, UsableAs
  <2>2. CASE q # p
    <3>1. products'[q] = products[q] /\ ProductFit(products[q])
      BY <1>2, <2>2 DEF MediaInv, TablesTyped, ShownInv
    <3> QED
      BY <3>1 DEF ProductFit, IsPublishable, UsableAs
  <2> QED
    BY <2>1, <2>2
<1>3. ASSUME NEW q \in PostIds, posts'[q] # NoRow
      PROVE  PostFit(posts[q])'
  BY <1>3 DEF MediaInv, ShownInv, PostFit, ScheduleRefusal, UsableAs
<1> QED
  BY <1>1, <1>2, <1>3 DEF ShownInv

\* What an accepted creation inserts.
LEMMA CreatedProductFit ==
  ASSUME NEW c \in ProductCalls, c.op = "create", CreationRefusal(c) = "none"
  PROVE  c.product \in Products /\ CreatedProduct(c) \in Product /\ ProductFit(CreatedProduct(c))
<1>1. c \in ProductCall /\ \A f \in ProductFields \ {"orderable"} : c[f] # Keep
  BY ProductsAssumption
<1>2. /\ c.price # Keep /\ c.stock # Keep /\ c.published # Keep
      /\ c.described # Keep /\ c.image # Keep
  BY <1>1 DEF ProductFields
<1>3. c.product \in Products /\ CreatedProduct(c) \in Product
  BY <1>1, <1>2 DEF CreatedProduct, Chosen, Product, ProductCall, Optional
<1>4. IsPublishable(CreatedProduct(c))
  BY DEF CreationRefusal, ImageRefusal
<1>5. c.image # NoRow => c.image \in UsableAs("PRODUCT_IMAGE")
  <2> SUFFICES ASSUME c.image # NoRow PROVE c.image \in UsableAs("PRODUCT_IMAGE")
    OBVIOUS
  <2>1. c.image \in Images
    BY <1>1, <1>2 DEF ProductCall, Optional
  <2>2. ImageRefusal(c.image, "PRODUCT_IMAGE") = "none"
    BY <1>4 DEF CreationRefusal
  <2> QED
    BY <2>1, <2>2, AcceptedImage DEF Purposes
<1> QED
  BY <1>3, <1>4, <1>5 DEF ProductFit, CreatedProduct

\* What an accepted update leaves: an image that the request does not send was
\* fit before.
LEMMA UpdatedProductFit ==
  ASSUME MediaInv, NEW c \in ProductCalls, UpdateRefusal(c) = "none"
  PROVE  c.product \in Products /\ UpdatedProduct(c) \in Product /\ ProductFit(UpdatedProduct(c))
<1> DEFINE before == products[c.product]
           after == UpdatedProduct(c)
<1>1. c \in ProductCall /\ c.product \in Products
  BY ProductsAssumption DEF ProductCall
<1>2. before # NoRow /\ before \in Product
  BY <1>1 DEF UpdateRefusal, MediaInv, TablesTyped
<1>3. after \in Product
  BY <1>1, <1>2 DEF UpdatedProduct, Chosen, Product, ProductCall, Optional
<1>4. IsPublishable(after)
  BY DEF UpdateRefusal
<1>5. after.image # NoRow => after.image \in UsableAs("PRODUCT_IMAGE")
  <2> SUFFICES ASSUME after.image # NoRow PROVE after.image \in UsableAs("PRODUCT_IMAGE")
    OBVIOUS
  <2>1. CASE c.image = Keep
    <3>1. after.image = before.image
      BY <2>1 DEF UpdatedProduct, Chosen
    <3> QED
      BY <1>1, <1>2, <3>1 DEF MediaInv, ShownInv, ProductFit
  <2>2. CASE c.image # Keep
    <3>1. ImageRefusal(after.image, "PRODUCT_IMAGE") = "none"
      BY <1>2, <1>4, <2>2 DEF UpdateRefusal
    <3>2. after.image \in Images
      BY <1>3 DEF Product
    <3> QED
      BY <3>1, <3>2, AcceptedImage DEF Purposes
  <2> QED
    BY <2>1, <2>2
<1> QED
  BY <1>1, <1>3, <1>4, <1>5 DEF ProductFit

\* Every step of the product service.
LEMMA ProductsStep ==
  ASSUME MediaInv, ProductsNext, UNCHANGED <<fileVars, posts>>
  PROVE  MediaInv'
<1> PICK r \in Slots : \/ \E c \in ProductCalls : ReceiveProductCall(r, c)
                       \/ RefuseProductCall(r)
                       \/ CreateProduct(r)
                       \/ UpdateProduct(r)
                       \/ ProductConflict(r)
  BY DEF ProductsNext
<1>0. UNCHANGED <<files, storedObjects, posts>> /\ RequestInv /\ TablesTyped /\ ShownInv
  BY DEF fileVars, MediaInv
<1>c. {"P400_PRODUCT_UPDATE_REQUIRED", "P409_PRODUCT_CONCURRENT_UPDATE", "OK"} \subseteq MediaCodes
  BY DEF MediaCodes, ProductCodes
<1>d. call[r] \in ProductCalls => call[r] \notin Deletions
  BY CallsTyped
<1>1. ASSUME NEW c \in ProductCalls, ReceiveProductCall(r, c)
      PROVE  MediaInv'
  <2>0. c \in MediaCalls /\ UNCHANGED products
    BY <1>1 DEF MediaCalls, ReceiveProductCall, databaseVars
  <2>1. CASE ReceiveAndRespond(r, c, "P400_PRODUCT_UPDATE_REQUIRED")
    <3>1. /\ RequestInv' /\ OnlyRequest(r) /\ pc'[r] = "done"
          /\ answer'[r].code = "P400_PRODUCT_UPDATE_REQUIRED"
      BY <1>0, <1>c, <2>0, <2>1, ReceiveAndRespondInv
    <3> QED
      BY <1>0, <2>0, <3>1, Unrelied, RequestStep
  <2>2. CASE Receive(r, c, "tx")
    <3>1. RequestInv' /\ OnlyRequest(r) /\ pc'[r] = "tx" /\ answer'[r].code = "none"
      BY <1>0, <2>0, <2>2, ReceiveInv
    <3> QED
      BY <1>0, <2>0, <3>1, Unrelied, RequestStep
  <2> QED
    BY <1>1, <2>1, <2>2 DEF ReceiveProductCall
<1>2. CASE RefuseProductCall(r)
  <2> DEFINE refusal == IF call[r].op = "create" THEN CreationRefusal(call[r])
                        ELSE UpdateRefusal(call[r])
  <2>1. refusal # "none" /\ Respond(r, Answered(refusal)) /\ UNCHANGED products
    BY <1>2 DEF RefuseProductCall, databaseVars
  <2>2. refusal \in MediaCodes \ {"OK"}
    BY <2>1 DEF CreationRefusal, UpdateRefusal, ImageRefusal, ImageCodes, ProductCodes, MediaCodes
  <2>3. RequestInv' /\ OnlyRequest(r) /\ pc'[r] = "done" /\ answer'[r].code = refusal
    BY <1>0, <2>1, <2>2, RespondInv
  <2> QED
    BY <1>0, <2>1, <2>2, <2>3, Unrelied, RequestStep
<1>3. CASE CreateProduct(r)
  <2>1. TablesTyped' /\ ShownInv'
    BY <1>0, <1>3, CreatedProductFit, ProductWrite DEF CreateProduct
  <2> QED
    BY <1>0, <1>3, <1>c, <1>d, <2>1, TableStep DEF CreateProduct
<1>4. CASE UpdateProduct(r)
  <2>0. call[r] \in ProductCalls /\ Respond(r, Answered("OK")) /\ UpdateRefusal(call[r]) = "none"
    BY <1>4 DEF UpdateProduct
  <2>1. CASE products' = [products EXCEPT ![call[r].product] = UpdatedProduct(call[r])]
    <3>1. TablesTyped' /\ ShownInv'
      BY <1>0, <2>0, <2>1, UpdatedProductFit, ProductWrite
    <3> QED
      BY <1>0, <1>c, <1>d, <2>0, <3>1, TableStep
  <2>2. CASE UNCHANGED products
    <3>1. RequestInv' /\ OnlyRequest(r) /\ pc'[r] = "done" /\ call' = call
      BY <1>0, <1>c, <2>0, RespondInv
    <3> QED
      BY <1>0, <1>d, <2>0, <2>2, <3>1, Unrelied, RequestStep
  <2> QED
    BY <1>4, <2>1, <2>2 DEF UpdateProduct
<1>5. CASE ProductConflict(r)
  <2>1. RequestInv' /\ OnlyRequest(r) /\ pc'[r] \in {"tx", "done"} /\ answer'[r].code # "OK"
    BY <1>0, <1>5, <1>c, RetryInv DEF ProductConflict
  <2> QED
    BY <1>0, <1>5, <2>1, Unrelied, RequestStep DEF ProductConflict, databaseVars
<1> QED
  BY <1>1, <1>2, <1>3, <1>4, <1>5

\* Writing a fit row of a post (createPost, updatePost).
LEMMA PostWrite ==
  ASSUME MediaInv, NEW p \in PostIds, NEW row \in Post, PostFit(row),
         posts' = [posts EXCEPT ![p] = row],
         UNCHANGED <<files, storedObjects, products>>
  PROVE  TablesTyped' /\ ShownInv'
<1>1. TablesTyped'
  BY DEF MediaInv, TablesTyped, FileDatabaseTypeOK, PostsTypeOK
<1>2. ASSUME NEW q \in PostIds, posts'[q] # NoRow
      PROVE  PostFit(posts[q])'
  <2>1. CASE q = p
    <3>1. posts'[q] = row
      BY <2>1 DEF MediaInv, TablesTyped, PostsTypeOK
    <3> QED
      BY <3>1 DEF PostFit, ScheduleRefusal, UsableAs
  <2>2. CASE q # p
    <3>1. posts'[q] = posts[q] /\ PostFit(posts[q])
      BY <1>2, <2>2 DEF MediaInv, TablesTyped, PostsTypeOK, ShownInv
    <3> QED
      BY <3>1 DEF PostFit, ScheduleRefusal, UsableAs
  <2> QED
    BY <2>1, <2>2
<1>3. ASSUME NEW q \in Products, products'[q] # NoRow
      PROVE  ProductFit(products[q])'
  BY <1>3 DEF MediaInv, ShownInv, ProductFit, IsPublishable, UsableAs
<1> QED
  BY <1>1, <1>2, <1>3 DEF ShownInv

\* The images that a request sends are usable once they are accepted.
LEMMA AcceptedImages ==
  ASSUME NEW r \in Slots, call[r] \in PostCalls, ImagesAccepted(r), call[r].images # Keep
  PROVE  call[r].images \subseteq UsableAs("POST_IMAGE")
<1>1. call[r].images \subseteq Images
  BY PostsAssumption DEF PostCall
<1>2. \A f \in call[r].images : ImageRefusal(f, "POST_IMAGE") = "none"
  BY DEF ImagesAccepted, UnusableImages
<1> QED
  BY <1>1, <1>2, AcceptedImage DEF Purposes

\* What an accepted creation inserts.
LEMMA CreatedPostFit ==
  ASSUME NEW r \in Slots, call[r] \in PostCalls, call[r].op = "createPost",
         ScheduleRefusal(JudgedSchedule(r)) = "none", ImagesAccepted(r)
  PROVE  CreatedPost(r) \in Post /\ PostFit(CreatedPost(r))
<1> DEFINE c == call[r]
<1>1. /\ c \in PostCall /\ c.status # Keep /\ c.start # Keep /\ c.end # Keep
      /\ c.calendar # Keep /\ c.images # Keep
  BY PostsAssumption DEF PostFields
<1>2. CreatedPost(r) \in Post
  BY <1>1 DEF CreatedPost, Post, PostCall
<1>3. ScheduleRefusal(CreatedPost(r)) = "none"
  BY DEF JudgedSchedule
<1>4. CreatedPost(r).images \subseteq UsableAs("POST_IMAGE")
  BY <1>1, AcceptedImages DEF CreatedPost
<1>5. CreatedPost(r).status = "PUBLISHED" => CreatedPost(r).publishedAt # NoRow
  BY PostsAssumption DEF CreatedPost
<1> QED
  BY <1>2, <1>3, <1>4, <1>5 DEF PostFit

\* What an accepted update leaves.
LEMMA UpdatedPostFit ==
  ASSUME MediaInv, NEW r \in Slots, call[r] \in PostCalls, call[r].op = "updatePost",
         IsFound(r), ScheduleRefusal(JudgedSchedule(r)) = "none", ImagesAccepted(r)
  PROVE  UpdatedPost(r) \in Post /\ PostFit(UpdatedPost(r))
<1> DEFINE c == call[r]
           before == posts[c.post]
           newStatus == Sent(c.status, before.status)
<1>1. c \in PostCall /\ c.post \in PostIds
  BY PostsAssumption DEF PostCall
<1>2. before \in Post /\ PostFit(before)
  BY <1>1 DEF IsFound, MediaInv, TablesTyped, PostsTypeOK, ShownInv
<1>3. PublicationDate(r, newStatus) \in Slots \cup {NoRow}
  BY <1>2 DEF PublicationDate, Post
<1>4. UpdatedPost(r) \in Post
  <2>1. newStatus \in PublicationStatuses
    BY <1>1, <1>2 DEF Sent, Post, PostCall
  <2>2. Sent(c.start, before.start) \in Dates /\ Sent(c.end, before.end) \in Dates
    BY <1>1, <1>2 DEF Sent, Post, PostCall
  <2>3. /\ Sent(c.calendar, before.calendar) \in BOOLEAN
        /\ Sent(c.images, before.images) \in SUBSET Images
    BY <1>1, <1>2 DEF Sent, Post, PostCall
  <2> QED
    BY <1>3, <2>1, <2>2, <2>3 DEF UpdatedPost, Post
<1>5. ScheduleRefusal(UpdatedPost(r)) = "none"
  BY DEF JudgedSchedule
<1>6. UpdatedPost(r).images \subseteq UsableAs("POST_IMAGE")
  BY <1>2, AcceptedImages DEF UpdatedPost, Sent, PostFit
<1>7. UpdatedPost(r).status = "PUBLISHED" => UpdatedPost(r).publishedAt # NoRow
  BY PostsAssumption DEF UpdatedPost, PublicationDate
<1> QED
  BY <1>4, <1>5, <1>6, <1>7 DEF PostFit

\* Every step of the service of posts.
LEMMA PostsStep ==
  ASSUME MediaInv, PostsNext, UNCHANGED <<databaseVars, orderVars>>
  PROVE  MediaInv'
<1> PICK r \in Slots : \/ \E c \in PostCalls : ReceivePostCall(r, c)
                       \/ RefusePostCall(r)
                       \/ SavePost(r)
                       \/ PostConflict(r)
  BY DEF PostsNext
<1>0. UNCHANGED products /\ RequestInv /\ TablesTyped /\ ShownInv
  BY DEF databaseVars, MediaInv
<1>c. {"C400_CONTENT_POST_UPDATE_REQUIRED", "C404_CONTENT_POST_NOT_FOUND",
       "C409_CONTENT_POST_CONCURRENT_UPDATE"} \cup ScheduleCodes \cup ImageCodes
        \subseteq MediaCodes \ {"OK"}
  BY DEF MediaCodes, PostCodes, ScheduleCodes, ImageCodes
<1>s. \A row : ScheduleRefusal(row) \in ScheduleCodes \cup {"none"}
  BY DEF ScheduleRefusal, ScheduleCodes
<1>i. \A f : ImageRefusal(f, "POST_IMAGE") \in ImageCodes \cup {"none"}
  BY DEF ImageRefusal, ImageCodes
<1>1. ASSUME NEW c \in PostCalls, ReceivePostCall(r, c)
      PROVE  MediaInv'
  <2>0. c \in MediaCalls /\ UNCHANGED <<files, storedObjects, posts>>
    BY <1>1 DEF MediaCalls, ReceivePostCall, fileVars
  <2>1. ASSUME NEW code \in MediaCodes \ {"OK"}, ReceiveAndRespond(r, c, code)
        PROVE  MediaInv'
    <3>1. RequestInv' /\ OnlyRequest(r) /\ pc'[r] = "done" /\ answer'[r].code = code
      BY <1>0, <2>0, <2>1, ReceiveAndRespondInv
    <3> QED
      BY <1>0, <2>0, <2>1, <3>1, Unrelied, RequestStep
  <2>2. CASE Receive(r, c, "tx")
    <3>1. RequestInv' /\ OnlyRequest(r) /\ pc'[r] = "tx" /\ answer'[r].code = "none"
      BY <1>0, <2>0, <2>2, ReceiveInv
    <3> QED
      BY <1>0, <2>0, <3>1, Unrelied, RequestStep
  <2> QED
    BY <1>1, <1>c, <1>s, <2>1, <2>2 DEF ReceivePostCall
<1>2. CASE RefusePostCall(r)
  <2>1. ASSUME NEW code \in MediaCodes \ {"OK"}, Respond(r, Answered(code))
        PROVE  MediaInv'
    <3>1. RequestInv' /\ OnlyRequest(r) /\ pc'[r] = "done" /\ answer'[r].code = code
      BY <1>0, <2>1, RespondInv
    <3> QED
      BY <1>0, <1>2, <2>1, <3>1, Unrelied, RequestStep DEF RefusePostCall, fileVars
  <2>2. ASSUME ~ImagesAccepted(r), NEW f \in UnusableImages(call[r].images),
               Respond(r, Answered(ImageRefusal(f, "POST_IMAGE")))
        PROVE  MediaInv'
    <3>1. ImageRefusal(f, "POST_IMAGE") # "none"
      BY <2>2 DEF UnusableImages
    <3> QED
      BY <1>c, <1>i, <2>1, <2>2, <3>1
  <2> QED
    BY <1>2, <1>c, <1>s, <2>1, <2>2 DEF RefusePostCall
<1>3. CASE SavePost(r)
  <2>0. /\ call[r] \in PostCalls /\ call[r] \notin Deletions /\ call[r].post \in PostIds
        /\ Respond(r, Answered("OK")) /\ UNCHANGED <<files, storedObjects>>
    BY <1>3, CallsTyped DEF SavePost, fileVars, PostCall
  <2>1. TablesTyped' /\ ShownInv'
    <3>1. CASE call[r].op = "createPost" /\ posts' = [posts EXCEPT ![call[r].post] = CreatedPost(r)]
      BY <1>0, <1>3, <2>0, <3>1, CreatedPostFit, PostWrite DEF SavePost
    <3>2. CASE call[r].op = "updatePost" /\ posts' = [posts EXCEPT ![call[r].post] = UpdatedPost(r)]
      BY <1>0, <1>3, <2>0, <3>2, UpdatedPostFit, PostWrite DEF SavePost
    <3> QED
      BY <1>3, <3>1, <3>2 DEF SavePost
  <2>2. "OK" \in MediaCodes
    BY DEF MediaCodes, PostCodes
  <2> QED
    BY <1>0, <2>0, <2>1, <2>2, TableStep
<1>4. CASE PostConflict(r)
  <2>1. RequestInv' /\ OnlyRequest(r) /\ pc'[r] \in {"tx", "done"} /\ answer'[r].code # "OK"
    BY <1>0, <1>4, <1>c, RetryInv DEF PostConflict
  <2> QED
    BY <1>0, <1>4, <2>1, Unrelied, RequestStep DEF PostConflict, fileVars
<1> QED
  BY <1>1, <1>2, <1>3, <1>4

-----------------------------------------------------------------------------
(* The media library *)

LEMMA MediaInvInit == MediaInit => MediaInv
<1> SUFFICES ASSUME MediaInit PROVE MediaInv
  OBVIOUS
<1>0. /\ pc = [r \in Slots |-> "idle"] /\ call = [r \in Slots |-> NoCall]
      /\ attempt = [r \in Slots |-> 1] /\ answer = [r \in Slots |-> NoAnswer]
      /\ products = InitialProducts /\ files = InitialFiles
      /\ posts = [p \in PostIds |-> NoRow]
  BY DEF MediaInit, RequestsInit, DatabaseInit, FileDatabaseInit, PostsInit
<1>1. RequestInv
  BY <1>0, RequestsAssumption
     DEF RequestInv, RequestsTyped, Routed, NoAnswer, Answered, Answer, FilePc
<1>2. TablesTyped
  BY <1>0, TokenDatabaseAssumption, FileDatabaseAssumption
     DEF TablesTyped, FileDatabaseTypeOK, PostsTypeOK, MediaInit, FileDatabaseInit
<1>3. FileInv
  <2>1. ASSUME NEW f \in Images PROVE FileKept(f)
    <3>1. files[f] # NoRow => files[f] \in File
      BY <1>2 DEF TablesTyped, FileDatabaseTypeOK
    <3>2. HasStatus(f, "COMPLETED") => f \in UsableAs("POST_IMAGE") \cup UsableAs("PRODUCT_IMAGE")
      BY <3>1 DEF HasStatus, UsableAs, File, Purposes
    <3> QED
      BY <3>2 DEF FileKept, MediaInit, FileDatabaseInit
  <2>2. ASSUME NEW r \in Slots PROVE FileRequest(r)
    BY <1>0 DEF FileRequest, NoAnswer, Answered
  <2> QED
    BY <2>1, <2>2 DEF FileInv
<1>4. ShownInv
  <2>1. ASSUME NEW p \in Products, products[p] # NoRow PROVE ProductFit(products[p])
    <3>1. products[p] \in Product
      BY <1>2, <2>1 DEF TablesTyped
    <3>2. products[p].image # NoRow => products[p].image \in Images
      BY <3>1 DEF Product
    <3> QED
      BY <1>0, <2>1, <3>2, MediaAssumption DEF ProductFit, UsableAs
  <2> QED
    BY <1>0, <2>1 DEF ShownInv
<1> QED
  BY <1>1, <1>2, <1>3, <1>4 DEF MediaInv

\* Every step of the media library keeps the invariant.
LEMMA MediaInvNext == MediaInv /\ [MediaNext]_mediaVars => MediaInv'
<1> SUFFICES ASSUME MediaInv, [MediaNext]_mediaVars PROVE MediaInv'
  OBVIOUS
<1>1. CASE MediaNext
  BY <1>1, ProductsStep, FilesStep, PostsStep DEF MediaNext
<1>2. CASE UNCHANGED mediaVars
  <2>1. UNCHANGED <<pc, call, attempt, answer, products, files, storedObjects, posts>>
    BY <1>2 DEF mediaVars, databaseVars, requestVars, fileVars
  <2>2. RequestInv' /\ TablesTyped'
    BY <2>1
       DEF MediaInv, RequestInv, RequestsTyped, Routed, TablesTyped, FileDatabaseTypeOK, PostsTypeOK
  <2>3. FileInv'
    BY <2>1 DEF MediaInv, FileInv, FileKept, FileRequest, HasStatus
  <2>4. ShownInv'
    BY <2>1, ShownKept DEF MediaInv
  <2> QED
    BY <2>2, <2>3, <2>4 DEF MediaInv
<1> QED
  BY <1>1, <1>2

\* So it holds in every reachable state.
LEMMA MediaInvariant == MediaSpec => []MediaInv
BY MediaInvInit, MediaInvNext, PTL DEF MediaSpec

\* Every variable that the media library moves has its type.
THEOREM MediaTyped == MediaSpec => []MediaTypeOK
<1>1. MediaInv => MediaTypeOK
  BY DEF MediaInv, RequestInv, RequestsTyped, TablesTyped, MediaTypeOK, MediaCalls, MediaCodes
<1> QED
  BY <1>1, MediaInvariant, PTL

\* Whatever a product or post shows is a completed image made for that use which
\* nobody deleted (createProduct, updateProduct, createPost, updatePost against
\* deleteFile).
THEOREM AttachedImagesStayUsable == MediaSpec => []AttachedImagesUsable
<1>1. MediaInv => AttachedImagesUsable
  BY DEF MediaInv, ShownInv, ProductFit, PostFit, AttachedImagesUsable
<1> QED
  BY <1>1, MediaInvariant, PTL

\* A product shown to students has a description and an image that can be
\* displayed (createProduct, updateProduct against deleteFile).
THEOREM PublishedProductsComplete == MediaSpec => []PublishedAreComplete
<1>1. MediaInv => PublishedAreComplete
  BY DEF MediaInv, ShownInv, ProductFit, IsPublishable, PublishedAreComplete
<1> QED
  BY <1>1, MediaInvariant, PTL

\* A completed file has its object in Storage, of the size and type announced
\* (completeFileUpload against deleteFile and the browser).
THEOREM CompletedFilesHaveObjects == MediaSpec => []CompletedHasObject
<1>1. MediaInv => CompletedHasObject
  BY DEF MediaInv, FileInv, FileKept, HasStatus, CompletedHasObject, UsableAs
<1> QED
  BY <1>1, MediaInvariant, PTL

\* A deletion that was answered with success has removed the object (deleteFile).
THEOREM DeletedFilesAreGone == MediaSpec => []DeletedMeansGone
<1>1. MediaInv => DeletedMeansGone
  BY DEF MediaInv, FileInv, FileRequest, HasStatus, DeletedMeansGone, Deletions
<1> QED
  BY <1>1, MediaInvariant, PTL

\* At any moment the public list shows a published post in one period, a past
\* event has begun, and a calendar entry has a date (updatePost against
\* buildPeriodWhere).
THEOREM PostsHaveOnePeriod == MediaSpec => []PeriodsMakeSense
<1>1. ASSUME NEW now \in Days, NEW row \in Post, ScheduleRefusal(row) = "none"
      PROVE  /\ \E period \in Periods : {x \in Periods : InPeriod(row, x, now)} = {period}
             /\ InPeriod(row, "PAST", now) => row.start < now
             /\ row.calendar => row.start # NoDay
  <2>0. /\ row.start \in Days \cup {NoDay} /\ row.end \in Days \cup {NoDay}
        /\ now \in Int /\ \A d \in Days : d \in Int
    BY PostsAssumption DEF Post, Dates
  <2>1. row.calendar => row.start # NoDay
    BY <1>1 DEF ScheduleRefusal
  <2>2. CASE row.start = NoDay
    <3>1. InPeriod(row, "UNDATED", now)
      BY <2>2 DEF InPeriod
    <3>2. ~InPeriod(row, "PAST", now) /\ ~InPeriod(row, "UPCOMING", now)
      BY <2>2 DEF InPeriod
    <3>3. {x \in Periods : InPeriod(row, x, now)} = {"UNDATED"}
      BY <3>1, <3>2 DEF Periods
    <3> QED
      BY <2>1, <3>2, <3>3 DEF Periods
  <2>3. CASE row.start # NoDay
    <3> DEFINE last == IF row.end # NoDay THEN row.end ELSE row.start
    <3>1. last \in Int /\ row.start \in Int
      BY <2>0, <2>3
    <3>2. row.start <= last
      <4>1. row.end # NoDay => ~(row.end < row.start)
        BY <1>1, <2>3 DEF ScheduleRefusal
      <4> QED
        BY <2>0, <3>1, <4>1
    <3>3. /\ InPeriod(row, "UPCOMING", now) <=> last >= now
          /\ InPeriod(row, "PAST", now) <=> last < now
          /\ ~InPeriod(row, "UNDATED", now)
      BY <2>3 DEF InPeriod
    <3>4. CASE last >= now
      <4>1. {x \in Periods : InPeriod(row, x, now)} = {"UPCOMING"}
        BY <2>0, <3>1, <3>3, <3>4 DEF Periods
      <4> QED
        BY <2>0, <2>1, <3>1, <3>3, <3>4, <4>1 DEF Periods
    <3>5. CASE last < now
      <4>1. {x \in Periods : InPeriod(row, x, now)} = {"PAST"}
        BY <2>0, <3>1, <3>3, <3>5 DEF Periods
      <4>2. row.start < now
        BY <2>0, <3>1, <3>2, <3>5
      <4> QED
        BY <2>1, <4>1, <4>2 DEF Periods
    <3> QED
      BY <2>0, <3>1, <3>4, <3>5
  <2> QED
    BY <2>2, <2>3
<1>2. MediaInv => PeriodsMakeSense
  <2> SUFFICES ASSUME MediaInv, NEW p \in PostIds, NEW now \in Days,
                      posts[p] # NoRow, posts[p].status = "PUBLISHED"
               PROVE  /\ \E period \in Periods : {x \in Periods : p \in Listed(x, now)} = {period}
                      /\ p \in Listed("PAST", now) => posts[p].start < now
                      /\ posts[p].calendar => posts[p].start # NoDay
    BY DEF PeriodsMakeSense
  <2>1. posts[p] \in Post /\ ScheduleRefusal(posts[p]) = "none"
    BY DEF MediaInv, TablesTyped, PostsTypeOK, ShownInv, PostFit
  <2>2. \A x \in Periods : p \in Listed(x, now) <=> InPeriod(posts[p], x, now)
    BY DEF Listed
  <2>3. {x \in Periods : p \in Listed(x, now)} = {x \in Periods : InPeriod(posts[p], x, now)}
    BY <2>2
  <2> QED
    BY <1>1, <2>1, <2>2, <2>3 DEF Periods
<1> QED
  BY <1>2, MediaInvariant, PTL

\* A post keeps the date of its first publication, and is not shown without one
\* (updatePost).
THEOREM FirstPublicationsKept == MediaSpec => FirstPublicationKept
<1> DEFINE Kept(p) == posts[p] # NoRow /\ posts[p].publishedAt # NoRow /\ posts'[p] # NoRow =>
                        posts'[p].publishedAt = posts[p].publishedAt
<1>1. ASSUME MediaInv, PostsNext, NEW p \in PostIds
      PROVE  Kept(p)
  <2>0. posts \in [PostIds -> Post \cup {NoRow}]
    BY <1>1 DEF MediaInv, TablesTyped, PostsTypeOK
  <2>1. CASE UNCHANGED posts
    BY <2>1
  <2>2. ASSUME NEW r \in Slots, SavePost(r)
        PROVE  Kept(p)
    <3>1. CASE posts[call[r].post] = NoRow /\ posts' = [posts EXCEPT ![call[r].post] = CreatedPost(r)]
      BY <2>0, <3>1
    <3>2. CASE posts' = [posts EXCEPT ![call[r].post] = UpdatedPost(r)]
      <4>1. CASE p = call[r].post
        BY <2>0, <3>2, <4>1 DEF UpdatedPost, PublicationDate
      <4>2. CASE p # call[r].post
        BY <2>0, <3>2, <4>2
      <4> QED
        BY <4>1, <4>2
    <3> QED
      BY <2>2, <3>1, <3>2 DEF SavePost
  <2> QED
    BY <1>1, <2>1, <2>2 DEF PostsNext, ReceivePostCall, RefusePostCall, PostConflict
<1>2. MediaInv /\ MediaInv' /\ [MediaNext]_mediaVars =>
        [\A p \in PostIds :
           posts'[p] # NoRow =>
             /\ posts'[p].status = "PUBLISHED" => posts'[p].publishedAt # NoRow
             /\ posts[p] # NoRow /\ posts[p].publishedAt # NoRow =>
                  posts'[p].publishedAt = posts[p].publishedAt
        ]_mediaVars
  <2> SUFFICES ASSUME MediaInv, MediaInv', MediaNext, NEW p \in PostIds, posts'[p] # NoRow
               PROVE  /\ posts'[p].status = "PUBLISHED" => posts'[p].publishedAt # NoRow
                      /\ Kept(p)
    OBVIOUS
  <2>1. posts'[p].status = "PUBLISHED" => posts'[p].publishedAt # NoRow
    BY DEF MediaInv, ShownInv, PostFit
  <2>2. CASE PostsNext
    BY <1>1, <2>1, <2>2
  <2>3. CASE UNCHANGED posts
    BY <2>1, <2>3
  <2>4. FilesNext => UNCHANGED posts
    BY DEF FilesNext, ReceiveFileCall, CreateImageUploadUrl, LookUpUpload, VerifyUpload,
           CompleteFileUpload, DeleteFile, FileConflict, RemoveObject, Upload
  <2> QED
    BY <2>1, <2>2, <2>3, <2>4 DEF MediaNext
<1>3. MediaSpec => []MediaInv /\ [][MediaNext]_mediaVars
  BY MediaInvariant DEF MediaSpec
<1> QED
  BY <1>2, <1>3, PTL DEF FirstPublicationKept

=============================================================================
