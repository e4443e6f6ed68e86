--------------------------- MODULE ProductImages ---------------------------
(***************************************************************************)
(* ProductImagesService and LocalFileStorageService: an image is a row in  *)
(* the database and a file on the disk, which share no transaction.        *)
(*                                                                         *)
(* A row and its file are named after the upload that makes them (the code *)
(* draws random names).  Who may upload, remove and stream is asked before *)
(* these steps, in Access.                                                 *)
(***************************************************************************)
EXTENDS Integers, FiniteSets

CONSTANTS
    Uploads,    \* POST /products/:productId/images
    Removals,   \* DELETE /products/:productId/images/:imageId
    Streams,    \* GET /products/:productId/images/:imageId
    None        \* "no such row", Prisma's null

Requests == Uploads \cup Removals \cup Streams

ASSUME RequestsAssumption ==
    /\ Uploads \cap (Removals \cup Streams) = {} /\ Removals \cap Streams = {}
    /\ None \notin Uploads

VARIABLES
    rows,       \* the uploads whose ProductImage row exists
    disk,       \* disk[f]: "none", "partial" or "whole"
    warned,     \* the files that could not be written or deleted
    pc,         \* pc[r]: where request r is in its handler
    answer,     \* answer[r]: the response of a finished request
    image       \* image[r]: the image that a removal or stream has read

vars == <<rows, disk, warned, pc, answer, image>>

Goto(r, place) ==
    /\ pc' = [pc EXCEPT ![r] = place]
    /\ UNCHANGED answer

Finish(r, a) ==
    /\ pc' = [pc EXCEPT ![r] = "done"]
    /\ answer' = [answer EXCEPT ![r] = a]

Open(r) == pc[r] \notin {"new", "done"}

Init ==
    /\ rows = {}
    /\ disk = [f \in Uploads |-> "none"]
    /\ warned = {}
    /\ pc = [r \in Requests |-> "new"]
    /\ answer = [r \in Requests |-> "none"]
    /\ image = [r \in Requests |-> None]

----------------------------------------------------------------------------
\* LocalFileStorageService

\* The file is opened for writing, and is empty or partly written for a while.
BeginWrite(f) == disk' = [disk EXCEPT ![f] = "partial"] /\ UNCHANGED warned

EndWrite(f) == disk' = [disk EXCEPT ![f] = "whole"] /\ UNCHANGED warned

\* Never throws: a file that is missing is gone, and any other failure is
\* logged.
DeleteFile(f) ==
    \/ disk' = [disk EXCEPT ![f] = "none"] /\ UNCHANGED warned
    \/ disk[f] # "none" /\ warned' = warned \cup {f} /\ UNCHANGED disk

----------------------------------------------------------------------------
\* upload

\* Nothing is written for a request without an image, product or variant.
Validate(r) ==
    /\ pc[r] = "new"
    /\ \/ Finish(r, "4xx")
       \/ Goto(r, "write")
    /\ UNCHANGED <<rows, disk, warned, image>>

StartFile(r) ==
    /\ pc[r] = "write"
    /\ BeginWrite(r)
    /\ Goto(r, "writing")
    /\ UNCHANGED <<rows, image>>

\* A write that fails, on a full disk, is an internal error and nothing cleans
\* it up: it stands before the try block.
WriteFile(r) ==
    /\ pc[r] = "writing"
    /\ \/ EndWrite(r) /\ Goto(r, "insert")
       \/ warned' = warned \cup {r} /\ UNCHANGED disk /\ Finish(r, "5xx")
    /\ UNCHANGED <<rows, image>>

\* Mutant: the row is inserted while the file is still being written.
ReadyEarly(r) == pc[r] \in {"writing", "insert"}

Ready(r) == pc[r] = "insert"

Inserted(f) == rows \cup {f}

\* The INSERT succeeds, fails, or succeeds and its answer is lost.
InsertRow(r) ==
    /\ Ready(r)
    /\ \/ rows' = Inserted(r) /\ Finish(r, "201")
       \/ UNCHANGED rows /\ Goto(r, "clean up")
       \/ rows' = Inserted(r) /\ Goto(r, "clean up")
    /\ UNCHANGED <<disk, warned, image>>

\* Mutant: the catch block only rethrows.
Rethrow(r) ==
    /\ pc[r] = "clean up"
    /\ Finish(r, "5xx")
    /\ UNCHANGED <<rows, disk, warned, image>>

\* The catch block.
CleanUp(r) ==
    /\ pc[r] = "clean up"
    /\ DeleteFile(r)
    /\ Finish(r, "5xx")
    /\ UNCHANGED <<rows, image>>

Upload(r) ==
    Validate(r) \/ StartFile(r) \/ WriteFile(r) \/ InsertRow(r) \/ CleanUp(r)

----------------------------------------------------------------------------
\* remove

FindImage(r) ==
    /\ pc[r] = "new"
    /\ \/ /\ Finish(r, "404")
          /\ UNCHANGED image
       \/ \E f \in rows :
             /\ image' = [image EXCEPT ![r] = f]
             /\ Goto(r, IF r \in Removals THEN "delete" ELSE "access")
    /\ UNCHANGED <<rows, disk, warned>>

\* Mutant: a row that is gone is as good as deleted.
DeletableTwice(r) == TRUE

\* Prisma's delete throws P2025 when the row is gone, which the filter answers
\* with a 404.
Deletable(r) == image[r] \in rows

DeleteRow(r) ==
    /\ pc[r] = "delete"
    /\ IF Deletable(r)
       THEN rows' = rows \ {image[r]} /\ Goto(r, "unlink")
       ELSE UNCHANGED rows /\ Finish(r, "404")
    /\ UNCHANGED <<disk, warned, image>>

\* Mutant: the file of a row is unlinked before the row is deleted.
UnlinkableEarly(r) == pc[r] \in {"delete", "unlink"}

Unlinkable(r) == pc[r] = "unlink"

Unlink(r) ==
    /\ Unlinkable(r)
    /\ DeleteFile(image[r])
    /\ Finish(r, "204")
    /\ UNCHANGED <<rows, image>>

Remove(r) == FindImage(r) \/ DeleteRow(r) \/ Unlink(r)

----------------------------------------------------------------------------
\* stream: the row, then fs.access, then the open of the stream, whose error is
\* a 404 while no header has been sent.

AccessFile(r) ==
    /\ pc[r] = "access"
    /\ IF disk[image[r]] # "none" THEN Goto(r, "open") ELSE Finish(r, "404")
    /\ UNCHANGED <<rows, disk, warned, image>>

OpenFile(r) ==
    /\ pc[r] = "open"
    /\ Finish(r, IF disk[image[r]] = "none" THEN "404"
                 ELSE IF disk[image[r]] = "partial" THEN "200 cut" ELSE "200")
    /\ UNCHANGED <<rows, disk, warned, image>>

Stream(r) == FindImage(r) \/ AccessFile(r) \/ OpenFile(r)

----------------------------------------------------------------------------
\* The process dies between two steps of the request.
Interrupt(r) ==
    /\ Open(r)
    /\ Finish(r, "died")
    /\ UNCHANGED <<rows, disk, warned, image>>

Step(r) ==
    \/ r \in Uploads /\ Upload(r)
    \/ r \in Removals /\ Remove(r)
    \/ r \in Streams /\ Stream(r)

Next == \E r \in Requests : Step(r) \/ Interrupt(r)

Spec == Init /\ [][Next]_vars

----------------------------------------------------------------------------
TypeOK ==
    /\ rows \subseteq Uploads
    /\ disk \in [Uploads -> {"none", "partial", "whole"}]
    /\ warned \subseteq Uploads
    /\ pc \in [Requests -> {"new", "write", "writing", "insert", "clean up",
                            "delete", "unlink", "access", "open", "done"}]
    /\ answer \in [Requests -> {"none", "200", "200 cut", "201", "204", "404",
                                "4xx", "5xx", "died"}]
    /\ image \in [Requests -> Uploads \cup {None}]

\* docs/database/catalog.md:1881: a row of an image whose upload was confirmed
\* never points at a file that is missing or incomplete, wherever requests die
\* or fail and however many remove the same image.  Any other row points at a
\* file that is whole, or that was deleted because its INSERT looked failed.
RowHasFile ==
    \A f \in rows :
        \/ disk[f] = "whole"
        \/ disk[f] = "none" /\ answer[f] = "5xx"

\* Every file without a row belongs to a request that is under way, or was left
\* behind by one that died or could not write or delete it.
OrphansExplained ==
    \A f \in Uploads :
        disk[f] # "none" /\ f \notin rows =>
            \/ Open(f) \/ answer[f] = "died"
            \/ f \in warned
            \/ \E r \in Removals : image[r] = f /\ (Open(r) \/ answer[r] = "died")

\* An image is removed once: of the requests that remove it together one
\* answers 204, and the others that it is not there.
RemovedOnce ==
    \A r, s \in Removals :
        answer[r] = "204" /\ answer[s] = "204" /\ image[r] = image[s] => r = s

\* A stream never sends a part of an image as the whole.
StreamsWhole == \A r \in Streams : answer[r] # "200 cut"

\* An upload inserts its row when its file is whole, and never again.
UploadsSound ==
    \A f \in Uploads :
        /\ pc[f] \in {"new", "write", "writing", "insert", "clean up", "done"}
        /\ pc[f] \in {"new", "write"} => disk[f] = "none"
        /\ pc[f] \in {"new", "write", "writing", "insert"} => f \notin rows
        /\ pc[f] = "insert" => disk[f] = "whole"
        /\ pc[f] = "clean up" => disk[f] # "partial"
        /\ pc[f] = "clean up" /\ f \in rows => disk[f] = "whole"

\* What others have read of image f: its INSERT is over.
Published(f) == pc[f] \in {"clean up", "done"} /\ disk[f] # "partial"

\* Removal r has deleted the row.
Took(r) == pc[r] = "unlink" \/ answer[r] = "204"

ReadersSound ==
    /\ \A r \in Requests : pc[r] # "done" => answer[r] = "none"
    /\ \A r \in Removals : pc[r] \in {"new", "delete", "unlink", "done"}
    /\ \A r \in Streams : pc[r] \in {"new", "access", "open", "done"}
    /\ \A r \in Removals \cup Streams :
          /\ pc[r] = "new" => image[r] = None
          /\ pc[r] \in {"delete", "unlink", "access", "open"} => image[r] # None
          /\ image[r] # None => Published(image[r])

RemovalsSound ==
    /\ \A r \in Removals : Took(r) => image[r] \notin rows /\ image[r] # None
    /\ \A r, s \in Removals : Took(r) /\ Took(s) /\ image[r] = image[s] => r = s

OrphansSound ==
    \A f \in Uploads :
        disk[f] # "none" /\ f \notin rows =>
            \/ Open(f) \/ answer[f] = "died"
            \/ f \in warned
            \/ \E r \in Removals : /\ image[r] = f
                                   /\ pc[r] = "unlink" \/ answer[r] = "died"

\* The inductive invariant behind these properties.
ImagesInv ==
    /\ TypeOK /\ UploadsSound /\ ReadersSound /\ RemovalsSound /\ OrphansSound
    /\ RowHasFile /\ StreamsWhole
============================================================================
