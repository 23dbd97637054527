--------------------------- MODULE MCMediaLibrary ---------------------------
(***************************************************************************)
(* A small media library for TLC: a product and a post, an image for each, *)
(* an image that is being uploaded and one that is still to be announced.  *)
(***************************************************************************)
EXTENDS MediaLibrary, TLC

CONSTANTS root, aide, soap, mug, post, photo, poster, sketch, fresh, late

NoCalls == {}
NoOne == root :> 0 @@ aide :> 0

MCSymmetry == Permutations(Slots)

MCInitialProducts ==
  soap :> [price |-> 2, stock |-> 1, orderable |-> TRUE, published |-> FALSE,
           described |-> TRUE, image |-> NoRow] @@ mug :> NoRow

Uploaded(purpose, stage) == [owner |-> root, purpose |-> purpose, status |-> stage]

MCInitialFiles ==
  photo :> Uploaded("PRODUCT_IMAGE", "COMPLETED") @@ poster :> Uploaded("POST_IMAGE", "COMPLETED")
    @@ sketch :> Uploaded("POST_IMAGE", "PENDING") @@ fresh :> NoRow

-----------------------------------------------------------------------------

Ask(op, f, who) == [op |-> op, file |-> f, admin |-> who]

Announce(defect) ==
  [op |-> "uploadUrl", file |-> fresh, admin |-> root, purpose |-> "POST_IMAGE", defect |-> defect]

MCFileCalls ==
  {Announce("none"), Announce("F400_FILE_TOO_LARGE"),
   Ask("complete", fresh, root), Ask("complete", sketch, root), Ask("complete", sketch, aide)}
    \cup {Ask("delete", f, root) : f \in {photo, poster, sketch, fresh}}

NoEdit ==
  [op |-> "update", product |-> soap, price |-> Keep, stock |-> Keep,
   orderable |-> Keep, published |-> Keep, described |-> Keep, image |-> Keep]

NewMug ==
  [op |-> "create", product |-> mug, price |-> 1, stock |-> 1,
   orderable |-> Keep, published |-> TRUE, described |-> TRUE, image |-> photo]

MCProductCalls ==
  {NoEdit, NewMug,
   [NewMug EXCEPT !.image = poster],
   [NoEdit EXCEPT !.published = TRUE],
   [NoEdit EXCEPT !.image = photo, !.published = TRUE],
   [NoEdit EXCEPT !.described = FALSE],
   [NoEdit EXCEPT !.image = photo],
   [NoEdit EXCEPT !.image = NoRow]}

NewPost ==
  [op |-> "createPost", post |-> post, status |-> "PUBLISHED", start |-> 1, end |-> 2,
   calendar |-> TRUE, images |-> {poster}]

NoChange ==
  [op |-> "updatePost", post |-> post, status |-> Keep, start |-> Keep, end |-> Keep,
   calendar |-> Keep, images |-> Keep]

MCPostCalls ==
  {NewPost, NoChange,
   [NewPost EXCEPT !.start = NoDay],
   [NewPost EXCEPT !.status = "DRAFT", !.end = NoDay, !.images = {}],
   [NoChange EXCEPT !.status = "PUBLISHED", !.images = {sketch}],
   [NoChange EXCEPT !.status = "HIDDEN"],
   [NoChange EXCEPT !.images = {photo}],
   [NoChange EXCEPT !.start = 3],
   [NoChange EXCEPT !.status = "PUBLISHED"],
   [NoChange EXCEPT !.end = 1, !.calendar = FALSE],
   [NoChange EXCEPT !.start = NoDay],
   [NoChange EXCEPT !.start = NoDay, !.end = NoDay]}

=============================================================================
