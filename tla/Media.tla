------------------------------- MODULE Media -------------------------------
(***************************************************************************)
(* One post of an organization, its attachments and the organization's     *)
(* logo (post.service.ts, media.service.ts).  The rows of `media` are in   *)
(* the database and the files they name in Cloudinary, and no transaction  *)
(* spans the two.  A browser uploads an attachment itself, to a public id  *)
(* the server signed, and then has the server confirm it; a logo goes      *)
(* through the server and replaces the one before.  Its names differ from  *)
(* those of PublicDirectory, so that one module proves about both.         *)
(***************************************************************************)
EXTENDS Naturals, FiniteSets

CONSTANTS
  Files,    \* public ids, each of them issued once
  Requests, \* requests in flight; a slot is used again
  MaxItems, \* attachments of a post
  Mistakes, \* whether clients name the wrong kind of file
  NoFile    \* no public id

ASSUME MediaAssumption ==
  /\ IsFiniteSet(Files)
  /\ IsFiniteSet(Requests) /\ Requests # {}
  /\ MaxItems \in Nat \ {0}
  /\ Mistakes \in BOOLEAN
  /\ NoFile \notin Files

VARIABLES
  post,     \* the post's row
  media,    \* the rows of `media`
  issued,   \* what became of each public id: signed, or given to an upload
  stored,   \* what Cloudinary has under it
  sent,     \* public ids sent to be confirmed, and those sent again
  repeated,
  pc,       \* where each request is
  file,     \* the public id it is about
  found,    \* the rows it read
  doomed    \* the files it is destroying

requestVars == <<pc, file, found, doomed>>
mediaVars == <<post, media, issued, stored, sent, repeated, requestVars>>

\* A row keeps the id of its first file when another file replaces that one.
Row == [id : Files, purpose : {"attachment", "logo"}, publicId : Files]

Steps == {"out", "insertPost", "savePost", "sign", "resource", "otherKind", "count", "insert",
          "findLogo", "saveLogo", "writeLogo", "insertLogo", "deleteRow",
          "findRows", "deleteRows", "destroy", "destroyAll", "deletePost"}

MediaTypeOK ==
  /\ post \in {"new", "there", "removed"}
  /\ media \subseteq Row
  /\ issued \in [Files -> {"no", "signed", "uploaded"}]
  /\ stored \in [Files -> {"nothing", "accepted", "unacceptable"}]
  /\ sent \subseteq Files /\ repeated \subseteq sent
  /\ pc \in [Requests -> Steps]
  /\ file \in [Requests -> Files \cup {NoFile}]
  /\ found \in [Requests -> SUBSET Row]
  /\ doomed \in [Requests -> SUBSET Files]

Attachments == {row \in media : row.purpose = "attachment"}
Logos == {row \in media : row.purpose = "logo"}
Ids(rows) == {row.id : row \in rows}
PublicIds(rows) == {row.publicId : row \in rows}

MediaInit ==
  /\ post = "new"
  /\ media = {}
  /\ issued = [f \in Files |-> "no"]
  /\ stored = [f \in Files |-> "nothing"]
  /\ sent = {} /\ repeated = {}
  /\ pc = [r \in Requests |-> "out"]
  /\ file = [r \in Requests |-> NoFile]
  /\ found = [r \in Requests |-> {}]
  /\ doomed = [r \in Requests |-> {}]

-----------------------------------------------------------------------------
Goto(r, from, to) ==
  /\ pc[r] = from
  /\ pc' = [pc EXCEPT ![r] = to]

\* The request is answered, and forgets what it had in memory.
End(r) ==
  /\ pc' = [pc EXCEPT ![r] = "out"]
  /\ file' = [file EXCEPT ![r] = NoFile]
  /\ found' = [found EXCEPT ![r] = {}]
  /\ doomed' = [doomed EXCEPT ![r] = {}]

\* destroyQuietly, which the request does with these files next.
Doom(r, to, files) ==
  /\ pc' = [pc EXCEPT ![r] = to]
  /\ doomed' = [doomed EXCEPT ![r] = files]

\* Cloudinary may fail to, and nobody hears of it.
Destroy(r, f) ==
  /\ pc[r] \in {"destroy", "destroyAll"}
  /\ f \in doomed[r]
  /\ stored' \in {stored, [stored EXCEPT ![f] = "nothing"]}
  /\ doomed' = [doomed EXCEPT ![r] = @ \ {f}]
  /\ UNCHANGED <<post, media, issued, sent, repeated, pc, file, found>>

Destroyed(r) ==
  /\ doomed[r] = {}
  /\ \/ pc[r] = "destroy" /\ End(r)
     \/ Goto(r, "destroyAll", "deletePost") /\ UNCHANGED <<file, found, doomed>>
  /\ UNCHANGED <<post, media, issued, stored, sent, repeated>>

\* A check refuses, a call or a constraint fails, or the process stops.
Fail(r) ==
  /\ pc[r] # "out"
  /\ End(r)
  /\ UNCHANGED <<post, media, issued, stored, sent, repeated>>

-----------------------------------------------------------------------------
(* Posts.                                                                  *)

CreatePost ==
  /\ post = "new"
  /\ post' = "there"
  /\ UNCHANGED <<media, issued, stored, sent, repeated, requestVars>>

\* findOrFail, and assertOwnerExists, which begin everything about a post.
BeginOnPost(r, step) ==
  /\ post = "there"
  /\ Goto(r, "out", step)
  /\ UNCHANGED <<post, media, issued, stored, sent, repeated, file, found, doomed>>

\* The save finds the row, whose text is left out here, or inserts it again.
SavePost(r) ==
  /\ post = "removed"
  /\ Goto(r, "savePost", "insertPost")
  /\ UNCHANGED <<post, media, issued, stored, sent, repeated, file, found, doomed>>

InsertPost(r) ==
  /\ pc[r] = "insertPost"
  /\ post = "removed"
  /\ post' = "there"
  /\ End(r)
  /\ UNCHANGED <<media, issued, stored, sent, repeated>>

\* Mutant of FindRows: the early return for no rows is taken for some.
FindRowsBackwards(r) ==
  /\ Goto(r, "findRows", IF Attachments # {} THEN "deletePost" ELSE "deleteRows")
  /\ found' = [found EXCEPT ![r] = Attachments]
  /\ UNCHANGED <<post, media, issued, stored, sent, repeated, file, doomed>>

FindRows(r) ==
  /\ Goto(r, "findRows", IF Attachments = {} THEN "deletePost" ELSE "deleteRows")
  /\ found' = [found EXCEPT ![r] = Attachments]
  /\ UNCHANGED <<post, media, issued, stored, sent, repeated, file, doomed>>

DeleteRows(r) ==
  /\ pc[r] = "deleteRows"
  /\ media' = media \ Attachments
  /\ Doom(r, "destroyAll", PublicIds(found[r]))
  /\ UNCHANGED <<post, issued, stored, sent, repeated, file, found>>

DeletePost(r) ==
  /\ pc[r] = "deletePost"
  /\ post' = "removed"
  /\ End(r)
  /\ UNCHANGED <<media, issued, stored, sent, repeated>>

-----------------------------------------------------------------------------
(* Attachments.                                                            *)

IsFull == Cardinality(Attachments) >= MaxItems

Sign(r, f) ==
  /\ pc[r] = "sign"
  /\ ~IsFull
  /\ issued[f] = "no"
  /\ issued' = [issued EXCEPT ![f] = "signed"]
  /\ End(r)
  /\ UNCHANGED <<post, media, stored, sent, repeated>>

\* The browser's upload, of any size; nothing is overwritten.
BrowserUpload(f, content) ==
  /\ issued[f] = "signed" /\ stored[f] = "nothing"
  /\ stored' = [stored EXCEPT ![f] = content]
  /\ UNCHANGED <<post, media, issued, sent, repeated, requestVars>>

\* The client says which file, and which kind it is, rightly or wrongly.
BeginConfirm(r, f, step) ==
  /\ step = "otherKind" => Mistakes
  /\ post = "there"
  /\ issued[f] = "signed"
  /\ Goto(r, "out", step)
  /\ file' = [file EXCEPT ![r] = f]
  /\ sent' = sent \cup {f}
  /\ repeated' = repeated \cup (sent \cap {f})
  /\ UNCHANGED <<post, media, issued, stored, found, doomed>>

\* Mutant of GetResource: the limits are not looked at.
GetAnyResource(r) ==
  /\ Goto(r, "resource", "count")
  /\ stored[file[r]] # "nothing"
  /\ UNCHANGED <<post, media, issued, stored, sent, repeated, file, found, doomed>>

GetResource(r) ==
  /\ pc[r] = "resource"
  /\ \/ /\ stored[file[r]] = "accepted"
        /\ Goto(r, "resource", "count")
        /\ UNCHANGED doomed
     \/ /\ stored[file[r]] = "unacceptable"
        /\ Doom(r, "destroy", {file[r]})
  /\ UNCHANGED <<post, media, issued, stored, sent, repeated, file, found>>

\* There is a file, but of the other kind.
GetOtherKind(r) ==
  /\ pc[r] = "otherKind"
  /\ stored[file[r]] # "nothing"
  /\ Doom(r, "destroy", {file[r]})
  /\ UNCHANGED <<post, media, issued, stored, sent, repeated, file, found>>

\* Mutant of Count: it lets one in over the cap.
CountOneMore(r) ==
  /\ pc[r] = "count"
  /\ IF Cardinality(Attachments) > MaxItems THEN Doom(r, "destroy", {file[r]})
     ELSE Goto(r, "count", "insert") /\ UNCHANGED doomed
  /\ UNCHANGED <<post, media, issued, stored, sent, repeated, file, found>>

Count(r) ==
  /\ pc[r] = "count"
  /\ IF IsFull THEN Doom(r, "destroy", {file[r]})
     ELSE Goto(r, "count", "insert") /\ UNCHANGED doomed
  /\ UNCHANGED <<post, media, issued, stored, sent, repeated, file, found>>

\* Only if UQ_media_publicId allows it; otherwise the file is left alone.
Insert(r) ==
  /\ pc[r] = "insert"
  /\ file[r] \notin PublicIds(media)
  /\ media' = media \cup {[id |-> file[r], purpose |-> "attachment", publicId |-> file[r]]}
  /\ End(r)
  /\ UNCHANGED <<post, issued, stored, sent, repeated>>

-----------------------------------------------------------------------------
(* The logo.                                                               *)

\* Mutant of BeginUpload: what Cloudinary answers is not kept.
BeginUploadForgets(r, f) ==
  /\ issued[f] = "no"
  /\ issued' = [issued EXCEPT ![f] = "uploaded"]
  /\ stored' = [stored EXCEPT ![f] = "accepted"]
  /\ Goto(r, "out", "findLogo")
  /\ UNCHANGED <<post, media, sent, repeated, file, found, doomed>>

BeginUpload(r, f) ==
  /\ issued[f] = "no"
  /\ issued' = [issued EXCEPT ![f] = "uploaded"]
  /\ stored' = [stored EXCEPT ![f] = "accepted"]
  /\ Goto(r, "out", "findLogo")
  /\ file' = [file EXCEPT ![r] = f]
  /\ UNCHANGED <<post, media, sent, repeated, found, doomed>>

FindLogo(r) ==
  /\ Goto(r, "findLogo", IF Logos = {} THEN "insertLogo" ELSE "saveLogo")
  /\ found' = [found EXCEPT ![r] = Logos]
  /\ UNCHANGED <<post, media, issued, stored, sent, repeated, file, doomed>>

\* The comparing read of the save.
SaveLogo(r) ==
  /\ Goto(r, "saveLogo", IF Ids(found[r]) \subseteq Ids(media) THEN "writeLogo" ELSE "insertLogo")
  /\ UNCHANGED <<post, media, issued, stored, sent, repeated, file, found, doomed>>

\* If the row was deleted since, the update changes nothing and says nothing.
WriteLogo(r) ==
  /\ pc[r] = "writeLogo"
  /\ media' = {IF row.id \in Ids(found[r]) THEN [row EXCEPT !.publicId = file[r]] ELSE row :
                 row \in media}
  /\ Doom(r, "destroy", PublicIds(found[r]))
  /\ UNCHANGED <<post, issued, stored, sent, repeated, file, found>>

\* IDX_media_org_owner_purpose allows one.  A row that was found and deleted
\* since comes back with its id.
InsertLogo(r) ==
  /\ pc[r] = "insertLogo"
  /\ Logos = {}
  /\ media' = media \cup {[id |-> i, purpose |-> "logo", publicId |-> file[r]] :
                            i \in IF found[r] = {} THEN {file[r]} ELSE Ids(found[r])}
  /\ Doom(r, "destroy", PublicIds(found[r]))
  /\ UNCHANGED <<post, issued, stored, sent, repeated, file, found>>

-----------------------------------------------------------------------------
(* Removing one row, attachment or logo.                                   *)

BeginRemove(r, row) ==
  /\ row \in media
  /\ Goto(r, "out", "deleteRow")
  /\ found' = [found EXCEPT ![r] = {row}]
  /\ UNCHANGED <<post, media, issued, stored, sent, repeated, file, doomed>>

DeleteRow(r) ==
  /\ pc[r] = "deleteRow"
  /\ media' = {row \in media : row.id \notin Ids(found[r])}
  /\ Doom(r, "destroy", PublicIds(found[r]))
  /\ UNCHANGED <<post, issued, stored, sent, repeated, file, found>>

-----------------------------------------------------------------------------
PostStep(r) ==
  \/ \E step \in {"savePost", "findRows", "sign"} : BeginOnPost(r, step)
  \/ SavePost(r) \/ InsertPost(r) \/ FindRows(r) \/ DeleteRows(r) \/ DeletePost(r)

AttachmentStep(r) ==
  \/ \E f \in Files : Sign(r, f)
  \/ \E f \in Files, step \in {"resource", "otherKind"} : BeginConfirm(r, f, step)
  \/ GetResource(r) \/ GetOtherKind(r) \/ Count(r) \/ Insert(r)

LogoStep(r) ==
  \/ \E f \in Files : BeginUpload(r, f)
  \/ FindLogo(r) \/ SaveLogo(r) \/ WriteLogo(r) \/ InsertLogo(r)

RemovalStep(r) ==
  \/ \E row \in media : BeginRemove(r, row)
  \/ DeleteRow(r) \/ Destroyed(r)
  \/ \E f \in Files : Destroy(r, f)

MediaNext ==
  \/ CreatePost
  \/ \E f \in Files, content \in {"accepted", "unacceptable"} : BrowserUpload(f, content)
  \/ \E r \in Requests : PostStep(r) \/ AttachmentStep(r) \/ LogoStep(r) \/ RemovalStep(r) \/ Fail(r)

MediaSpec == MediaInit /\ [][MediaNext]_mediaVars

-----------------------------------------------------------------------------
(* Properties.                                                             *)

\* What is listed can be shown: a row names a file that Cloudinary has and that
\* passed the checks, unless its confirmation was sent more than once.
RowsHaveFiles ==
  \A row \in media : row.publicId \notin repeated => stored[row.publicId] = "accepted"

\* The comment of the count: confirmations at the same time may go over the cap,
\* by one for each of the others, and however often it happens by no more.
CapWithinOverlap == Cardinality(Attachments) < MaxItems + Cardinality(Requests)

\* The comment of PostService.remove: when the post goes, none of the attachments
\* that its removal found is left, unless it was sent to be confirmed again.
RemovalLeavesNone ==
  \A r \in Requests : pc[r] = "deletePost" =>
    \A row \in found[r] \cap media : row.publicId \in repeated

-----------------------------------------------------------------------------
(* What the code says and a retry refutes.                                 *)

\* "No se borra de Cloudinary: la fila que ya existe lo sigue usando".
AttachedStaysStored == \A row \in Attachments : stored[row.publicId] = "accepted"
=============================================================================
