-------------------------------- MODULE Posts --------------------------------
(***************************************************************************)
(* Content posts: AdminPostsService creates and edits them, each in one    *)
(* SERIALIZABLE transaction, and PublicPostsService lists the published    *)
(* ones by event period.  No endpoint deletes a post.                      *)
(*                                                                         *)
(* Title, content, categories, membersOnly and the order of the images are *)
(* left out: they are stored as sent, and so are the rows of the action    *)
(* log.  A publication date is named by the request whose clock gave it.   *)
(***************************************************************************)
EXTENDS FileDatabase, Requests

CONSTANTS
  PostIds,         \* ids of posts
  Days,            \* moments at which an event may start or end
  NoDay,           \* no date: the column is NULL
  PostCalls        \* POST and PATCH /admin/posts requests sent

VARIABLE posts     \* content_posts with their content_images

PublicationStatuses == {"DRAFT", "PUBLISHED", "HIDDEN"}
Dates == Days \cup {NoDay}

Post == [status      : PublicationStatuses,
         publishedAt : Slots \cup {NoRow},
         start       : Dates,
         end         : Dates,
         calendar    : BOOLEAN,
         images      : SUBSET Images]

PostFields == {"status", "start", "end", "calendar", "images"}

PostCall == [op       : {"createPost", "updatePost"},
             post     : PostIds,
             status   : PublicationStatuses \cup {Keep},
             start    : Dates \cup {Keep},
             end      : Dates \cup {Keep},
             calendar : BOOLEAN \cup {Keep},
             images   : (SUBSET Images) \cup {Keep}]

ScheduleCodes == {"C400_EVENT_START_REQUIRED", "C400_INVALID_EVENT_PERIOD",
                  "C400_CALENDAR_START_REQUIRED"}

PostCodes == {"OK", "C400_CONTENT_POST_UPDATE_REQUIRED", "C404_CONTENT_POST_NOT_FOUND",
              "C409_CONTENT_POST_CONCURRENT_UPDATE"} \cup ScheduleCodes \cup ImageCodes

ASSUME PostsAssumption ==
  /\ Days \subseteq Int /\ NoDay \notin Days
  /\ PostCalls \subseteq PostCall
  /\ NoCall \notin PostCalls /\ NoRow \notin Post \cup Slots
  /\ \A c \in PostCalls :
       c.op = "createPost" =>
         c.status \in {"DRAFT", "PUBLISHED"} /\ \A f \in PostFields : c[f] # Keep

PostsInit == posts = [p \in PostIds |-> NoRow]

PostsTypeOK == posts \in [PostIds -> Post \cup {NoRow}]

-----------------------------------------------------------------------------

\* The first rule that a schedule breaks.
ScheduleRefusal(row) ==
  IF row.end # NoDay /\ row.start = NoDay THEN "C400_EVENT_START_REQUIRED"
  ELSE IF row.start # NoDay /\ row.end # NoDay /\ row.end < row.start
  THEN "C400_INVALID_EVENT_PERIOD"
  ELSE IF row.calendar /\ row.start = NoDay THEN "C400_CALENDAR_START_REQUIRED"
  ELSE "none"

\* The images that may not be attached to a post.  The two services report the
\* first one, in different orders.
UnusableImages(images) == {f \in images : ImageRefusal(f, "POST_IMAGE") # "none"}

Sent(new, old) == IF new = Keep THEN old ELSE new

CreatedPost(r) ==
  [status |-> call[r].status, start |-> call[r].start, end |-> call[r].end,
   calendar |-> call[r].calendar, images |-> call[r].images,
   publishedAt |-> IF call[r].status = "PUBLISHED" THEN r ELSE NoRow]

\* The date of a post that gets status s: the first publication sets it.
LatestPublication(r, s) ==      \* mutant: every publication sets it
  IF s = "PUBLISHED" THEN r ELSE posts[call[r].post].publishedAt
PublicationDate(r, s) ==
  LET before == posts[call[r].post].publishedAt
  IN  IF before = NoRow /\ s = "PUBLISHED" THEN r ELSE before

UpdatedPost(r) ==
  LET c      == call[r]
      before == posts[c.post]
      newStatus == Sent(c.status, before.status)
  IN  [status |-> newStatus, publishedAt |-> PublicationDate(r, newStatus),
       start |-> Sent(c.start, before.start), end |-> Sent(c.end, before.end),
       calendar |-> Sent(c.calendar, before.calendar),
       images |-> Sent(c.images, before.images)]

\* Mutant: an update is judged by the dates it sends alone.
SentDates(r) ==
  LET orNone(d) == IF d = Keep THEN NoDay ELSE d
  IN  [start |-> orNone(call[r].start), end |-> orNone(call[r].end), calendar |-> FALSE]
\* The schedule that a request is judged by: an update is merged with the row.
JudgedSchedule(r) == IF call[r].op = "createPost" THEN CreatedPost(r) ELSE UpdatedPost(r)

-----------------------------------------------------------------------------

ReceivePostCall(r, c) ==
  /\ \/ /\ c.op = "updatePost" /\ \A f \in PostFields : c[f] = Keep
        /\ ReceiveAndRespond(r, c, "C400_CONTENT_POST_UPDATE_REQUIRED")
     \/ /\ c.op = "createPost" /\ ScheduleRefusal(c) # "none"
        /\ ReceiveAndRespond(r, c, ScheduleRefusal(c))
     \/ /\ IF c.op = "createPost" THEN ScheduleRefusal(c) = "none"
           ELSE \E f \in PostFields : c[f] # Keep
        /\ Receive(r, c, "tx")
  /\ UNCHANGED <<fileVars, posts>>

IsFound(r) == call[r].op = "updatePost" => posts[call[r].post] # NoRow

ImagesAccepted(r) ==
  call[r].images # Keep => UnusableImages(call[r].images) = {}

\* A refused transaction: the post, then its schedule, then its images.
RefusePostCall(r) ==
  /\ pc[r] = "tx" /\ call[r] \in PostCalls
  /\ \/ /\ ~IsFound(r)
        /\ Respond(r, Answered("C404_CONTENT_POST_NOT_FOUND"))
     \/ /\ IsFound(r) /\ ScheduleRefusal(JudgedSchedule(r)) # "none"
        /\ Respond(r, Answered(ScheduleRefusal(JudgedSchedule(r))))
     \/ /\ IsFound(r) /\ ScheduleRefusal(JudgedSchedule(r)) = "none"
        /\ ~ImagesAccepted(r)
        /\ \E f \in UnusableImages(call[r].images) :
             Respond(r, Answered(ImageRefusal(f, "POST_IMAGE")))
  /\ UNCHANGED <<fileVars, posts>>

SavePost(r) ==
  /\ pc[r] = "tx" /\ call[r] \in PostCalls
  /\ IsFound(r) /\ ScheduleRefusal(JudgedSchedule(r)) = "none" /\ ImagesAccepted(r)
  /\ \/ /\ call[r].op = "createPost" /\ posts[call[r].post] = NoRow
        /\ posts' = [posts EXCEPT ![call[r].post] = CreatedPost(r)]
     \/ /\ call[r].op = "updatePost"
        /\ posts' = [posts EXCEPT ![call[r].post] = UpdatedPost(r)]
  /\ Respond(r, Answered("OK"))
  /\ UNCHANGED fileVars

PostConflict(r) ==
  /\ call[r] \in PostCalls
  /\ RetryAfterConflict(r, "C409_CONTENT_POST_CONCURRENT_UPDATE")
  /\ UNCHANGED <<fileVars, posts>>

PostsNext ==
  \E r \in Slots :
    \/ \E c \in PostCalls : ReceivePostCall(r, c)
    \/ RefusePostCall(r)
    \/ SavePost(r)
    \/ PostConflict(r)

-----------------------------------------------------------------------------
(* The public list *)

\* The periods that the public list offers beside ALL.
Periods == {"UPCOMING", "PAST", "UNDATED"}

\* Whether a post falls into a period at moment now.
InPeriod(row, period, now) ==
  CASE period = "UPCOMING" ->
         /\ row.start # NoDay
         /\ IF row.end # NoDay THEN row.end >= now ELSE row.start >= now
    [] period = "PAST" ->
         /\ row.start # NoDay
         /\ IF row.end # NoDay THEN row.end < now ELSE row.start < now
    [] period = "UNDATED" -> row.start = NoDay

\* The posts that the public list of a period shows at moment now.
Listed(period, now) ==
  {p \in PostIds : /\ posts[p] # NoRow /\ posts[p].status = "PUBLISHED"
                   /\ InPeriod(posts[p], period, now)}

=============================================================================
