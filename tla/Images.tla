-------------------------------- MODULE Images --------------------------------
(***************************************************************************)
(* The images of one menu item: uploads confirmed through the shared       *)
(* storage service, and the ordered list in menu-service whose first image *)
(* is mirrored into the item's imageUrl.                                   *)
(*                                                                         *)
(* The client posts to a posted key, and may post to it again, while the  *)
(* service heads it, reads it if unchanged, and copies it if unchanged to  *)
(* a key named after the hash it computed.  List changes are READ          *)
(* COMMITTED transactions: they see what others committed and what they    *)
(* wrote themselves, and a row one of them wrote is locked to the rest.    *)
(***************************************************************************)
EXTENDS Integers, FiniteSets, FiniteSetsExt

CONSTANTS
  Picture, Junk,  \* contents: images, and bytes that are none
  NoContent,      \* no object, no url
  PendingKey,     \* keys uploads were authorised for
  ImageJob,       \* slots for requests at work
  MaxImages       \* bound: images appended

ASSUME ImagesAssumption ==
  NoContent \notin Picture \cup Junk /\ Picture \cap Junk = {} /\ MaxImages \in Nat

VARIABLES
  posted,     \* content at each posted key
  objects,    \* content at each hash-named key; a hash is its content
  images,     \* committed rows; born orders them by createdAt
  imageUrl,   \* menu_items.imageUrl
  missed,     \* the last commit mirrored a list others had changed meanwhile
  imageJob,   \* what each slot is doing
  births      \* transactions begun

imagesVars == <<posted, objects, images, imageUrl, missed, imageJob, births>>

Content == Picture \cup Junk
Image == [born : 1..MaxImages, url : Content, position : 0..(MaxImages - 1)]
ImageIdle == [pc |-> "idle", key |-> NoContent, etag |-> NoContent, born |-> 0,
              adds |-> {}, removes |-> {}, moves |-> {}, first |-> NoContent, late |-> FALSE]

ImagesTypeOK ==
  /\ posted \in [PendingKey -> Content \cup {NoContent}]
  /\ objects \in [Content -> Content \cup {NoContent}]
  /\ images \subseteq Image /\ imageUrl \in Content \cup {NoContent}
  /\ missed \in BOOLEAN /\ births \in 0..MaxImages
  /\ \A x, y \in images : x.born = y.born => x = y
  /\ \A j \in ImageJob :
       /\ imageJob[j].adds \subseteq Image
       /\ imageJob[j].removes \subseteq 1..MaxImages
       /\ imageJob[j].moves \subseteq [born : 1..MaxImages, to : 0..(MaxImages - 1)]

ImagesInit ==
  /\ posted = [k \in PendingKey |-> NoContent]
  /\ objects = [h \in Content |-> NoContent]
  /\ images = {} /\ imageUrl = NoContent /\ missed = FALSE
  /\ imageJob = [j \in ImageJob |-> ImageIdle] /\ births = 0

step(j, from, to) ==
  /\ imageJob[j].pc = from
  /\ imageJob' = [imageJob EXCEPT ![j] = to]

listVars == <<images, imageUrl, missed, births>>
storeVars == <<posted, objects>>

-----------------------------------------------------------------------------
(* Storage *)
Post(k, content) ==
  /\ posted' = [posted EXCEPT ![k] = content]
  /\ UNCHANGED <<objects, imageJob, listVars>>

ConfirmItemImageUpload(j, k) ==
  /\ step(j, "idle", [ImageIdle EXCEPT !.pc = "head", !.key = k])
  /\ UNCHANGED <<storeVars, listVars>>

HeadObject(j) ==
  /\ step(j, "head", [imageJob[j] EXCEPT !.pc = "get", !.etag = posted[imageJob[j].key]])
  /\ posted[imageJob[j].key] # NoContent
  /\ UNCHANGED <<storeVars, listVars>>

unchanged(j) == posted[imageJob[j].key] = imageJob[j].etag

\* The bytes read are those of the ETag; they are hashed if they are an image.
GetObject(j) ==
  /\ step(j, "get", [imageJob[j] EXCEPT !.pc = "copy"])
  /\ unchanged(j) /\ imageJob[j].etag \in Picture
  /\ UNCHANGED <<storeVars, listVars>>

\* The transaction that appends it begins: createdAt is its now().
copyObject(j) ==
  /\ step(j, "copy", [imageJob[j] EXCEPT !.pc = "append", !.born = births + 1])
  /\ births < MaxImages /\ births' = births + 1
  /\ objects' = [objects EXCEPT ![imageJob[j].etag] = posted[imageJob[j].key]]
  /\ UNCHANGED <<posted, images, imageUrl, missed>>

CopyObject_Always(j) == copyObject(j)
CopyObject(j) == copyObject(j) /\ unchanged(j)

-----------------------------------------------------------------------------
(* Transactions on the list *)
lockedBy(j) ==
  imageJob[j].removes \cup
  IF imageJob[j].pc = "renumber" THEN {} ELSE {m.born : m \in imageJob[j].moves}
free(j, rows) == \A i \in ImageJob \ {j} : lockedBy(i) \cap rows = {}

\* x comes before y: position, then createdAt.
before(x, y) == x.position < y.position \/ (x.position = y.position /\ x.born < y.born)
rank(x, rows) == Cardinality({y \in rows : before(y, x)})
primaryOf(rows) == IF rows = {} THEN NoContent ELSE (CHOOSE x \in rows : rank(x, rows) = 0).url

\* The committed rows with the changes of j.
changedBy(j) ==
  {[x EXCEPT !.position = IF \E m \in imageJob[j].moves : m.born = x.born
                          THEN (CHOOSE m \in imageJob[j].moves : m.born = x.born).to ELSE @] :
     x \in {y \in images : y.born \notin imageJob[j].removes}}
  \cup imageJob[j].adds

nextPosition(rows) == Max({-1} \cup {x.position : x \in rows}) + 1

AppendImage(j) ==
  /\ step(j, "append",
       [imageJob[j] EXCEPT !.pc = "look",
          !.adds = {[born |-> imageJob[j].born, url |-> imageJob[j].etag,
                     position |-> nextPosition(images)]}])
  /\ UNCHANGED <<storeVars, listVars>>

\* Deletes the row, waiting for its lock, and reads the rest.
RemoveItemImage(j, x) ==
  LET rest == {y \in images : y.born # x.born} IN
  /\ free(j, {x.born})
  /\ step(j, "idle",
       [ImageIdle EXCEPT !.pc = "renumber", !.removes = {x.born},
          !.moves = {[born |-> y.born, to |-> rank(y, rest)] :
                       y \in {z \in rest : z.position # rank(z, rest)}}])
  /\ UNCHANGED <<storeVars, listVars>>

Renumber(j) ==
  /\ free(j, {m.born : m \in imageJob[j].moves})
  /\ step(j, "renumber", [imageJob[j] EXCEPT !.pc = "look"])
  /\ UNCHANGED <<storeVars, listVars>>

SyncPrimary(j) ==
  /\ step(j, "look", [imageJob[j] EXCEPT !.pc = "commit", !.first = primaryOf(changedBy(j))])
  /\ UNCHANGED <<storeVars, listVars>>

Commit(j) ==
  /\ imageJob[j].pc = "commit"
  /\ images' = changedBy(j)
  /\ imageUrl' = imageJob[j].first
  /\ missed' = imageJob[j].late
  /\ imageJob' = [i \in ImageJob |->
       CASE i = j -> ImageIdle
         [] i # j /\ imageJob[i].pc = "commit" -> [imageJob[i] EXCEPT !.late = TRUE]
         [] OTHER -> imageJob[i]]
  /\ UNCHANGED <<storeVars, births>>

\* A check that fails, a deadlock the database breaks, or a dead process.
Fail(j) ==
  /\ imageJob[j].pc # "idle"
  /\ step(j, imageJob[j].pc, ImageIdle)
  /\ UNCHANGED <<storeVars, listVars>>

-----------------------------------------------------------------------------
ImagesNext ==
  \/ \E k \in PendingKey, content \in Content : Post(k, content)
  \/ \E j \in ImageJob :
       \/ \E k \in PendingKey : ConfirmItemImageUpload(j, k)
       \/ HeadObject(j) \/ GetObject(j) \/ CopyObject(j)
       \/ \E x \in images : RemoveItemImage(j, x)
       \/ AppendImage(j) \/ Renumber(j) \/ SyncPrimary(j) \/ Commit(j) \/ Fail(j)

ImagesSpec == ImagesInit /\ [][ImagesNext]_imagesVars

-----------------------------------------------------------------------------
(* What it promises *)

\* Whatever is posted while an upload is being confirmed, a listed image is
\* stored with the content its name was computed from, and that is an image
\* (verifyUploadedObject, IfMatch and CopySourceIfMatch).
ListedWasVerified ==
  \A x \in images : x.url \in Picture /\ objects[x.url] = x.url

\* imageUrl is the first image of the list, whatever was appended, removed and
\* renumbered side by side, unless the last transaction was overtaken between
\* its look at the list and its commit (syncPrimary).
PrimaryIsFirst == missed \/ imageUrl = primaryOf(images)

\* Both at once, with uploads,
\* confirmations and removals crossing (confirmItemImageUpload, removeItemImage).
ImagesInv == ImagesTypeOK /\ ListedWasVerified /\ PrimaryIsFirst
=============================================================================
