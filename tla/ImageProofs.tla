----------------------------- MODULE ImageProofs -----------------------------
(***************************************************************************)
(* For any number of uploads, removals and streams, wherever they fail or  *)
(* die: rows point at whole files, files without a row are accounted for,  *)
(* an image is removed once, and no stream sends a part of it.             *)
(***************************************************************************)
EXTENDS ProductImages, TLAPS

LEMMA Sorts ==
    /\ Uploads \subseteq Requests /\ Removals \subseteq Requests /\ Streams \subseteq Requests
    /\ Uploads \cap (Removals \cup Streams) = {} /\ Removals \cap Streams = {}
    /\ None \notin Uploads
BY RequestsAssumption DEF Requests

Places == {"new", "write", "writing", "insert", "clean up",
           "delete", "unlink", "access", "open", "done"}
Answers == {"none", "200", "200 cut", "201", "204", "404", "4xx", "5xx", "died"}

LEMMA FinishFacts ==
    ASSUME TypeOK, NEW r \in Requests, NEW a \in Answers, Finish(r, a)
    PROVE  /\ pc' \in [Requests -> Places] /\ answer' \in [Requests -> Answers]
           /\ pc'[r] = "done" /\ answer'[r] = a
           /\ \A q \in Requests \ {r} : pc'[q] = pc[q] /\ answer'[q] = answer[q]
BY DEF Finish, TypeOK, Places, Answers

LEMMA GotoFacts ==
    ASSUME TypeOK, NEW r \in Requests, NEW place \in Places, Goto(r, place)
    PROVE  /\ pc' \in [Requests -> Places] /\ answer' \in [Requests -> Answers]
           /\ pc'[r] = place /\ answer'[r] = answer[r]
           /\ \A q \in Requests \ {r} : pc'[q] = pc[q] /\ answer'[q] = answer[q]
BY DEF Goto, TypeOK, Places, Answers

LEMMA InitInv == Init => ImagesInv
<1> SUFFICES ASSUME Init PROVE ImagesInv
  OBVIOUS
<1>1. TypeOK
  BY Sorts DEF Init, TypeOK
<1>2. UploadsSound
  BY Sorts DEF Init, UploadsSound
<1>3. ReadersSound
  BY Sorts DEF Init, ReadersSound
<1>4. RemovalsSound
  BY Sorts DEF Init, RemovalsSound, Took
<1>5. OrphansSound
  BY DEF Init, OrphansSound
<1>6. RowHasFile
  BY DEF Init, RowHasFile
<1>7. StreamsWhole
  BY Sorts DEF Init, StreamsWhole
<1> QED
  BY <1>1, <1>2, <1>3, <1>4, <1>5, <1>6, <1>7 DEF ImagesInv

----------------------------------------------------------------------------
\* The images that have been read are published.
LEMMA ReadImages ==
    ASSUME ImagesInv, NEW q \in Removals \cup Streams, image[q] # None
    PROVE  /\ image[q] \in Uploads /\ Published(image[q])
           /\ pc[image[q]] \in {"clean up", "done"}
<1>1. q \in Requests
  BY Sorts
<1>2. image[q] \in Uploads
  BY <1>1 DEF ImagesInv, TypeOK
<1>3. Published(image[q])
  BY DEF ImagesInv, ReadersSound
<1> QED
  BY <1>2, <1>3 DEF Published

\* A step of upload r touches its own row and file only.
LEMMA UploadKeeps ==
    ASSUME ImagesInv, TypeOK', NEW r \in Uploads, pc[r] # "done", UNCHANGED image,
           \A q \in Requests \ {r} : pc'[q] = pc[q] /\ answer'[q] = answer[q],
           \A f \in Uploads \ {r} : disk'[f] = disk[f] /\ (f \in rows' <=> f \in rows),
           warned \subseteq warned',
           pc'[r] # "done" => answer'[r] = "none",
           pc'[r] \in {"writing", "insert", "clean up", "done"},
           pc'[r] \in {"writing", "insert"} => r \notin rows',
           pc'[r] = "insert" => disk'[r] = "whole",
           pc'[r] = "clean up" => disk'[r] # "partial",
           pc'[r] = "clean up" /\ r \in rows' => disk'[r] = "whole",
           pc[r] = "clean up" => /\ pc'[r] \in {"clean up", "done"}
                                 /\ disk'[r] # "partial" /\ rows' = rows,
           r \in rows' => disk'[r] = "whole" \/ (disk'[r] = "none" /\ answer'[r] = "5xx"),
           disk'[r] # "none" /\ r \notin rows' =>
               pc'[r] # "done" \/ answer'[r] = "died" \/ r \in warned'
    PROVE  ImagesInv'
<1> USE DEF ImagesInv
<1>1. \A q \in Removals \cup Streams : /\ pc'[q] = pc[q] /\ answer'[q] = answer[q]
                                       /\ image'[q] = image[q]
  BY Sorts
<1>2. \A f \in Uploads \ {r} : pc'[f] = pc[f] /\ answer'[f] = answer[f]
  BY Sorts
<1>3. UploadsSound'
  BY <1>2 DEF UploadsSound
<1>4. ReadersSound'
  <2>1. \A f \in Uploads : Published(f) =>
            pc'[f] \in {"clean up", "done"} /\ disk'[f] # "partial"
    <3> HIDE DEF ImagesInv
    <3> QED
      BY <1>2 DEF Published
  <2>2. \A q \in Removals \cup Streams : image[q] # None =>
            image[q] \in Uploads /\ Published(image[q])
    BY ReadImages
  <2>3. \A q \in Removals \cup Streams : image[q] # None =>
            pc'[image[q]] \in {"clean up", "done"} /\ disk'[image[q]] # "partial"
    <3> HIDE DEF ImagesInv
    <3> QED
      BY <2>1, <2>2
  <2>4. \A q \in Requests : pc'[q] # "done" => answer'[q] = "none"
    BY DEF ReadersSound
  <2> QED
    BY <1>1, <2>3, <2>4 DEF ReadersSound, Published
<1>5. RemovalsSound'
  <2>1. \A q \in Removals : image[q] # None => (image[q] \in rows' => image[q] \in rows)
    <3>1. \A q \in Removals : image[q] # None =>
              image[q] \in Uploads /\ pc[image[q]] \in {"clean up", "done"}
      BY ReadImages
    <3> HIDE DEF ImagesInv
    <3>2. r \in rows' /\ r \notin rows => pc[r] \notin {"clean up", "done"}
      OBVIOUS
    <3> QED
      BY <3>1, <3>2
  <2>2. \A q \in Removals : Took(q)' <=> Took(q)
    BY <1>1 DEF Took
  <2> QED
    BY <1>1, <2>1, <2>2 DEF RemovalsSound
<1>6. OrphansSound'
  <2> SUFFICES ASSUME NEW f \in Uploads, disk'[f] # "none", f \notin rows'
               PROVE  \/ Open(f)' \/ answer'[f] = "died"
                      \/ f \in warned'
                      \/ \E q \in Removals : /\ image'[q] = f
                                             /\ pc'[q] = "unlink" \/ answer'[q] = "died"
    BY DEF OrphansSound
  <2>1. CASE f = r
    BY <2>1 DEF Open
  <2>2. CASE f # r
    <3>1. pc'[f] = pc[f] /\ answer'[f] = answer[f] /\ disk'[f] = disk[f] /\ f \notin rows
      BY <1>2, <2>2
    <3>2. \/ Open(f) \/ answer[f] = "died" \/ f \in warned
          \/ \E q \in Removals : /\ image[q] = f
                                 /\ pc[q] = "unlink" \/ answer[q] = "died"
      BY <3>1 DEF OrphansSound
    <3> HIDE DEF ImagesInv
    <3> QED
      BY <1>1, <3>1, <3>2 DEF Open
  <2> QED
    BY <2>1, <2>2
<1>7. RowHasFile'
  BY <1>2 DEF RowHasFile, TypeOK
<1>8. StreamsWhole'
  BY <1>1 DEF StreamsWhole
<1> QED
  BY <1>3, <1>4, <1>5, <1>6, <1>7, <1>8

LEMMA UploadInv ==
    ASSUME ImagesInv, NEW r \in Uploads, Upload(r)
    PROVE  ImagesInv'
<1>1. r \in Requests /\ {"4xx", "5xx", "201"} \subseteq Answers
      /\ {"write", "writing", "insert", "clean up"} \subseteq Places
  BY Sorts DEF Answers, Places
<1>2. CASE Validate(r)
  <2>1. pc[r] = "new" /\ UNCHANGED <<rows, disk, warned, image>>
    BY <1>2 DEF Validate
  <2>2. disk[r] = "none" /\ r \notin rows /\ answer[r] = "none"
    BY <1>1, <2>1 DEF ImagesInv, UploadsSound, ReadersSound
  <2>3. CASE Finish(r, "4xx")
    <3>1. /\ pc' \in [Requests -> Places] /\ answer' \in [Requests -> Answers]
          /\ pc'[r] = "done" /\ answer'[r] = "4xx"
          /\ \A q \in Requests \ {r} : pc'[q] = pc[q] /\ answer'[q] = answer[q]
      BY <1>1, <2>3, FinishFacts DEF ImagesInv
    <3>2. TypeOK'
      BY <2>1, <3>1 DEF ImagesInv, TypeOK, Places, Answers
    <3> QED
      BY <2>1, <2>2, <3>1, <3>2, UploadKeeps
  <2>4. CASE Goto(r, "write")
    <3>1. /\ pc' \in [Requests -> Places] /\ answer' \in [Requests -> Answers]
          /\ pc'[r] = "write" /\ answer'[r] = "none"
          /\ \A q \in Requests \ {r} : pc'[q] = pc[q] /\ answer'[q] = answer[q]
      BY <1>1, <2>2, <2>4, GotoFacts DEF ImagesInv
    <3>2. TypeOK'
      BY <2>1, <3>1 DEF ImagesInv, TypeOK, Places, Answers
    <3> USE DEF ImagesInv
    <3>3. \A q \in Requests : pc'[q] = pc[q] \/ q = r
      BY <3>1
    <3>4. UploadsSound'
      BY <2>1, <2>2, <3>1, Sorts DEF UploadsSound
    <3>5. \A f \in Uploads : Published(f) => Published(f)'
      BY <2>1, <3>1, Sorts DEF Published
    <3>6. ReadersSound'
      <4>1. \A q \in Removals \cup Streams : /\ pc'[q] = pc[q] /\ answer'[q] = answer[q]
                                             /\ image'[q] = image[q]
        BY <2>1, <3>1, Sorts
      <4>2. \A q \in Removals \cup Streams : image[q] # None =>
                pc'[image[q]] \in {"clean up", "done"} /\ disk'[image[q]] # "partial"
        BY <3>5, Sorts DEF ReadersSound, TypeOK, Published
      <4> QED
        BY <3>1, <4>1, <4>2 DEF ReadersSound, Published
    <3>7. RemovalsSound'
      BY <2>1, <3>1, Sorts DEF RemovalsSound, Took
    <3>8. OrphansSound'
      BY <2>1, <2>2, <3>1, Sorts DEF OrphansSound, Open
    <3>9. RowHasFile' /\ StreamsWhole'
      BY <2>1, <2>2, <3>1, Sorts DEF RowHasFile, StreamsWhole, TypeOK
    <3> QED
      BY <3>2, <3>4, <3>6, <3>7, <3>8, <3>9
  <2> QED
    BY <1>2, <2>3, <2>4 DEF Validate
<1>3. CASE StartFile(r)
  <2>1. /\ pc[r] = "write" /\ disk' = [disk EXCEPT ![r] = "partial"]
        /\ Goto(r, "writing") /\ UNCHANGED <<rows, warned, image>>
    BY <1>3 DEF StartFile, BeginWrite
  <2>2. r \notin rows /\ answer[r] = "none"
    BY <1>1, <2>1 DEF ImagesInv, UploadsSound, ReadersSound
  <2>3. /\ pc' \in [Requests -> Places] /\ answer' \in [Requests -> Answers]
        /\ pc'[r] = "writing" /\ answer'[r] = "none"
        /\ \A q \in Requests \ {r} : pc'[q] = pc[q] /\ answer'[q] = answer[q]
    BY <1>1, <2>1, <2>2, GotoFacts DEF ImagesInv
  <2>4. TypeOK' /\ \A f \in Uploads \ {r} : disk'[f] = disk[f]
    BY <2>1, <2>3 DEF ImagesInv, TypeOK, Places, Answers
  <2> QED
    BY <2>1, <2>2, <2>3, <2>4, UploadKeeps
<1>4. CASE WriteFile(r)
  <2>1. pc[r] = "writing" /\ UNCHANGED <<rows, image>>
    BY <1>4 DEF WriteFile
  <2>2. r \notin rows /\ answer[r] = "none"
    BY <1>1, <2>1 DEF ImagesInv, UploadsSound, ReadersSound
  <2>3. CASE EndWrite(r) /\ Goto(r, "insert")
    <3>1. disk' = [disk EXCEPT ![r] = "whole"] /\ UNCHANGED warned
      BY <2>3 DEF EndWrite
    <3>2. /\ pc' \in [Requests -> Places] /\ answer' \in [Requests -> Answers]
          /\ pc'[r] = "insert" /\ answer'[r] = "none"
          /\ \A q \in Requests \ {r} : pc'[q] = pc[q] /\ answer'[q] = answer[q]
      BY <1>1, <2>2, <2>3, GotoFacts DEF ImagesInv
    <3>3. TypeOK' /\ disk'[r] = "whole" /\ \A f \in Uploads \ {r} : disk'[f] = disk[f]
      BY <2>1, <3>1, <3>2 DEF ImagesInv, TypeOK, Places, Answers
    <3> QED
      BY <2>1, <2>2, <3>1, <3>2, <3>3, UploadKeeps
  <2>4. CASE warned' = warned \cup {r} /\ UNCHANGED disk /\ Finish(r, "5xx")
    <3>1. /\ pc' \in [Requests -> Places] /\ answer' \in [Requests -> Answers]
          /\ pc'[r] = "done" /\ answer'[r] = "5xx"
          /\ \A q \in Requests \ {r} : pc'[q] = pc[q] /\ answer'[q] = answer[q]
      BY <1>1, <2>4, FinishFacts DEF ImagesInv
    <3>2. TypeOK'
      BY <2>1, <2>4, <3>1 DEF ImagesInv, TypeOK, Places, Answers
    <3> QED
      BY <2>1, <2>2, <2>4, <3>1, <3>2, UploadKeeps
  <2> QED
    BY <1>4, <2>3, <2>4 DEF WriteFile
<1>5. CASE InsertRow(r)
  <2>1. pc[r] = "insert" /\ UNCHANGED <<disk, warned, image>>
    BY <1>5 DEF InsertRow, Ready
  <2>2. r \notin rows /\ answer[r] = "none" /\ disk[r] = "whole"
    BY <1>1, <2>1 DEF ImagesInv, UploadsSound, ReadersSound
  <2>3. CASE rows' = rows \cup {r} /\ Finish(r, "201")
    <3>1. /\ pc' \in [Requests -> Places] /\ answer' \in [Requests -> Answers]
          /\ pc'[r] = "done" /\ answer'[r] = "201"
          /\ \A q \in Requests \ {r} : pc'[q] = pc[q] /\ answer'[q] = answer[q]
      BY <1>1, <2>3, FinishFacts DEF ImagesInv
    <3>2. TypeOK'
      BY <2>1, <2>3, <3>1 DEF ImagesInv, TypeOK, Places, Answers
    <3> QED
      BY <2>1, <2>2, <2>3, <3>1, <3>2, UploadKeeps
  <2>4. CASE rows' \in {rows, rows \cup {r}} /\ Goto(r, "clean up")
    <3>1. /\ pc' \in [Requests -> Places] /\ answer' \in [Requests -> Answers]
          /\ pc'[r] = "clean up" /\ answer'[r] = "none"
          /\ \A q \in Requests \ {r} : pc'[q] = pc[q] /\ answer'[q] = answer[q]
      BY <1>1, <2>2, <2>4, GotoFacts DEF ImagesInv
    <3>2. TypeOK'
      BY <2>1, <2>4, <3>1 DEF ImagesInv, TypeOK, Places, Answers
    <3>3. \A f \in Uploads \ {r} : f \in rows' <=> f \in rows
      BY <2>4
    <3> QED
      BY <2>1, <2>2, <3>1, <3>2, <3>3, UploadKeeps
  <2> QED
    BY <1>5, <2>3, <2>4 DEF InsertRow, Inserted
<1>6. CASE CleanUp(r)
  <2>1. pc[r] = "clean up" /\ DeleteFile(r) /\ Finish(r, "5xx") /\ UNCHANGED <<rows, image>>
    BY <1>6 DEF CleanUp
  <2>2. disk[r] # "partial" /\ (r \in rows => disk[r] = "whole") /\ disk \in [Uploads -> {"none", "partial", "whole"}]
    BY <2>1 DEF ImagesInv, UploadsSound, TypeOK
  <2>3. /\ pc' \in [Requests -> Places] /\ answer' \in [Requests -> Answers]
        /\ pc'[r] = "done" /\ answer'[r] = "5xx"
        /\ \A q \in Requests \ {r} : pc'[q] = pc[q] /\ answer'[q] = answer[q]
    BY <1>1, <2>1, FinishFacts DEF ImagesInv
  <2>4. /\ disk' \in [Uploads -> {"none", "partial", "whole"}]
        /\ warned \subseteq warned' /\ warned' \subseteq warned \cup {r}
        /\ \A f \in Uploads \ {r} : disk'[f] = disk[f]
        /\ disk'[r] = "none" \/ (disk'[r] = disk[r] /\ r \in warned')
    BY <2>1, <2>2 DEF DeleteFile
  <2>5. TypeOK'
    BY <2>1, <2>3, <2>4 DEF ImagesInv, TypeOK, Places, Answers
  <2> QED
    BY <2>1, <2>2, <2>3, <2>4, <2>5, UploadKeeps
<1> QED
  BY <1>2, <1>3, <1>4, <1>5, <1>6 DEF Upload

----------------------------------------------------------------------------
\* A step of removal or stream r.
LEMMA ReaderKeeps ==
    ASSUME ImagesInv, TypeOK', NEW r \in Removals \cup Streams, pc[r] # "done",
           \A q \in Requests \ {r} : /\ pc'[q] = pc[q] /\ answer'[q] = answer[q]
                                     /\ image'[q] = image[q],
           image'[r] = image[r] \/ (image[r] = None /\ image'[r] \in rows),
           pc'[r] # "new", r \in Removals => pc'[r] \in {"delete", "unlink", "done"},
           r \in Streams => pc'[r] \in {"access", "open", "done"},
           pc'[r] # "done" => answer'[r] = "none" /\ image'[r] # None,
           answer'[r] # "200 cut", warned \subseteq warned', rows' \subseteq rows,
           \A f \in rows \ rows' : /\ r \in Removals /\ image'[r] = f
                                   /\ pc'[r] = "unlink",
           \A f \in Uploads : \/ disk'[f] = disk[f]
                              \/ disk'[f] = "none" /\ f \notin rows /\ Published(f),
           r \in Removals /\ (pc'[r] = "unlink" \/ answer'[r] = "204") =>
               /\ image'[r] \notin rows' /\ image'[r] # None
               /\ pc[r] = "unlink" \/ image[r] \in rows,
           r \in Removals /\ pc[r] = "unlink" /\ image[r] \in Uploads =>
               \/ answer'[r] = "died"
               \/ disk'[image[r]] = "none" \/ image[r] \in warned'
    PROVE  ImagesInv'
<1> USE DEF ImagesInv
<1>1. \A f \in Uploads : pc'[f] = pc[f] /\ answer'[f] = answer[f]
  BY Sorts
<1>2. rows \subseteq Uploads
  BY DEF TypeOK
<1>3. UploadsSound'
  <2>1. ASSUME NEW f \in Uploads, disk'[f] # disk[f]
        PROVE  disk'[f] = "none" /\ f \notin rows' /\ pc'[f] \in {"clean up", "done"}
    BY <1>1, <2>1 DEF Published
  <2> QED
    BY <1>1, <2>1 DEF UploadsSound
<1>4. \A f \in Uploads : Published(f) => pc'[f] \in {"clean up", "done"}
                                         /\ disk'[f] # "partial"
  BY <1>1 DEF Published
<1>5. \A f \in rows : Published(f)
  BY <1>2 DEF UploadsSound, RowHasFile, Published
<1>6. \A q \in Removals \cup Streams : image'[q] # None =>
          image'[q] \in Uploads /\ Published(image'[q])
  <2>1. \A q \in Removals \cup Streams : image[q] # None =>
            image[q] \in Uploads /\ Published(image[q])
    BY ReadImages
  <2>2. r \in Requests
    BY Sorts
  <2> HIDE DEF ImagesInv
  <2>3. \A q \in (Removals \cup Streams) \ {r} : image'[q] = image[q]
    BY Sorts
  <2> QED
    BY <1>2, <1>5, <2>1, <2>3
<1>7. ReadersSound'
  <2>1. \A q \in Removals \cup Streams : image'[q] # None => Published(image[q])'
    BY <1>4, <1>6 DEF Published
  <2>2. \A q \in Requests : pc'[q] # "done" => answer'[q] = "none"
    BY DEF ReadersSound
  <2>3. /\ \A q \in Removals : pc'[q] \in {"new", "delete", "unlink", "done"}
        /\ \A q \in Streams : pc'[q] \in {"new", "access", "open", "done"}
    BY Sorts DEF ReadersSound
  <2>4. \A q \in Removals \cup Streams :
            /\ pc'[q] = "new" => image'[q] = None
            /\ pc'[q] \in {"delete", "unlink", "access", "open"} => image'[q] # None
    BY Sorts DEF ReadersSound
  <2> QED
    BY <2>1, <2>2, <2>3, <2>4 DEF ReadersSound
<1>8. RemovalsSound'
  <2>1. \A q \in Removals \ {r} : /\ Took(q)' <=> Took(q)
                                  /\ image'[q] = image[q]
    BY Sorts DEF Took
  <2>2. ASSUME NEW q \in Removals, Took(q)' PROVE image'[q] \notin rows' /\ image'[q] # None
    BY <2>1, <2>2, Sorts DEF RemovalsSound, Took
  <2>3. ASSUME NEW q \in Removals \ {r}, r \in Removals, Took(r)', Took(q)',
               image'[q] = image'[r]
        PROVE  FALSE
    <3>1. Took(q) /\ image[q] = image'[r] /\ image[q] \notin rows /\ image[q] # None
      BY <2>1, <2>3 DEF RemovalsSound
    <3>2. pc[r] = "unlink" \/ image[r] \in rows
      BY <2>3 DEF Took
    <3>3. CASE pc[r] = "unlink"
      <4>1. Took(r) /\ image'[r] = image[r]
        BY <2>3, <3>3, Sorts DEF Took, ReadersSound
      <4> QED
        BY <2>3, <3>1, <4>1 DEF RemovalsSound
    <3>4. CASE image[r] \in rows
      <4>1. image[r] # None
        BY <1>2, <3>4, Sorts
      <4> QED
        BY <3>1, <3>4, <4>1
    <3> QED
      BY <3>2, <3>3, <3>4
  <2>4. ASSUME NEW q \in Removals, NEW s \in Removals, Took(q)', Took(s)',
               image'[q] = image'[s]
        PROVE  q = s
    <3>1. CASE q # r /\ s # r
      BY <2>1, <2>4, <3>1 DEF RemovalsSound
    <3>2. CASE q = r \/ s = r
      BY <2>3, <2>4, <3>2
    <3> QED
      BY <3>1, <3>2
  <2> QED
    BY <2>2, <2>4 DEF RemovalsSound
<1>9. OrphansSound'
  <2> SUFFICES ASSUME NEW f \in Uploads, disk'[f] # "none", f \notin rows'
               PROVE  \/ Open(f)' \/ answer'[f] = "died"
                      \/ f \in warned'
                      \/ \E q \in Removals : /\ image'[q] = f
                                             /\ pc'[q] = "unlink" \/ answer'[q] = "died"
    BY DEF OrphansSound
  <2>1. disk'[f] = disk[f]
    OBVIOUS
  <2>2. CASE f \in rows
    BY <2>2
  <2>3. CASE f \notin rows
    <3>1. \/ Open(f) \/ answer[f] = "died" \/ f \in warned
          \/ \E q \in Removals : /\ image[q] = f
                                 /\ pc[q] = "unlink" \/ answer[q] = "died"
      BY <2>1, <2>3 DEF OrphansSound
    <3>2. ASSUME NEW q \in Removals, image[q] = f, pc[q] = "unlink" \/ answer[q] = "died"
          PROVE  f \in warned' \/ /\ image'[q] = f
                                  /\ pc'[q] = "unlink" \/ answer'[q] = "died"
      <4>1. CASE q # r
        BY <3>2, <4>1, Sorts
      <4>2. CASE q = r
        <5>1. pc[r] = "unlink" /\ image'[r] = image[r]
          BY <3>2, <4>2, Sorts DEF ReadersSound
        <5> QED
          BY <3>2, <4>2, <5>1
      <4> QED
        BY <4>1, <4>2
    <3> QED
      BY <1>1, <3>1, <3>2 DEF Open
  <2> QED
    BY <2>2, <2>3
<1>10. RowHasFile'
  BY <1>1, <1>2 DEF RowHasFile
<1>11. StreamsWhole'
  BY Sorts DEF StreamsWhole
<1> QED
  BY <1>3, <1>7, <1>8, <1>9, <1>10, <1>11

LEMMA FindImageInv ==
    ASSUME ImagesInv, NEW r \in Removals \cup Streams, FindImage(r)
    PROVE  ImagesInv'
<1>1. /\ r \in Requests /\ "404" \in Answers /\ {"delete", "access"} \subseteq Places
      /\ r \in Removals => r \notin Streams
  BY Sorts DEF Answers, Places
<1>2. pc[r] = "new" /\ UNCHANGED <<rows, disk, warned>>
  BY DEF FindImage
<1>3. image[r] = None /\ answer[r] = "none" /\ rows \subseteq Uploads
      /\ image \in [Requests -> Uploads \cup {None}]
  BY <1>1, <1>2 DEF ImagesInv, ReadersSound, TypeOK
<1>4. CASE Finish(r, "404") /\ UNCHANGED image
  <2>1. /\ pc' \in [Requests -> Places] /\ answer' \in [Requests -> Answers]
        /\ pc'[r] = "done" /\ answer'[r] = "404"
        /\ \A q \in Requests \ {r} : pc'[q] = pc[q] /\ answer'[q] = answer[q]
    BY <1>1, <1>4, FinishFacts DEF ImagesInv
  <2>2. TypeOK'
    BY <1>2, <1>4, <2>1 DEF ImagesInv, TypeOK, Places, Answers
  <2> QED
    BY <1>1, <1>2, <1>4, <2>1, <2>2, ReaderKeeps
<1>5. ASSUME NEW f \in rows, image' = [image EXCEPT ![r] = f],
             Goto(r, IF r \in Removals THEN "delete" ELSE "access")
      PROVE  ImagesInv'
  <2>1. PICK place : place = IF r \in Removals THEN "delete" ELSE "access"
    OBVIOUS
  <2>2. /\ pc' \in [Requests -> Places] /\ answer' \in [Requests -> Answers]
        /\ pc'[r] = place /\ answer'[r] = "none"
        /\ \A q \in Requests \ {r} : pc'[q] = pc[q] /\ answer'[q] = answer[q]
    BY <1>1, <1>3, <1>5, <2>1, GotoFacts DEF ImagesInv
  <2>3. /\ image' \in [Requests -> Uploads \cup {None}] /\ image'[r] = f /\ f # None
        /\ \A q \in Requests \ {r} : image'[q] = image[q]
    BY <1>1, <1>3, <1>5, Sorts
  <2>4. TypeOK'
    BY <1>2, <2>2, <2>3 DEF ImagesInv, TypeOK, Places, Answers
  <2> QED
    BY <1>1, <1>2, <1>3, <2>1, <2>2, <2>3, <2>4, ReaderKeeps
<1> QED
  BY <1>4, <1>5 DEF FindImage

LEMMA RemoveInv ==
    ASSUME ImagesInv, NEW r \in Removals, Remove(r)
    PROVE  ImagesInv'
<1>1. /\ r \in Requests /\ {"404", "204"} \subseteq Answers /\ "unlink" \in Places
      /\ r \notin Streams
  BY Sorts DEF Answers, Places
<1>2. CASE FindImage(r)
  BY <1>2, FindImageInv
<1>3. CASE DeleteRow(r)
  <2>1. pc[r] = "delete" /\ UNCHANGED <<disk, warned, image>>
    BY <1>3 DEF DeleteRow
  <2>2. image[r] # None /\ answer[r] = "none"
    BY <1>1, <2>1 DEF ImagesInv, ReadersSound
  <2>3. CASE image[r] \in rows
    <3>1. rows' = rows \ {image[r]} /\ Goto(r, "unlink")
      BY <1>3, <2>3 DEF DeleteRow, Deletable
    <3>2. /\ pc' \in [Requests -> Places] /\ answer' \in [Requests -> Answers]
          /\ pc'[r] = "unlink" /\ answer'[r] = "none"
          /\ \A q \in Requests \ {r} : pc'[q] = pc[q] /\ answer'[q] = answer[q]
      BY <1>1, <2>2, <3>1, GotoFacts DEF ImagesInv
    <3>3. TypeOK'
      BY <2>1, <3>1, <3>2 DEF ImagesInv, TypeOK, Places, Answers
    <3> QED
      BY <1>1, <2>1, <2>2, <2>3, <3>1, <3>2, <3>3, ReaderKeeps
  <2>4. CASE image[r] \notin rows
    <3>1. UNCHANGED rows /\ Finish(r, "404")
      BY <1>3, <2>4 DEF DeleteRow, Deletable
    <3>2. /\ pc' \in [Requests -> Places] /\ answer' \in [Requests -> Answers]
          /\ pc'[r] = "done" /\ answer'[r] = "404"
          /\ \A q \in Requests \ {r} : pc'[q] = pc[q] /\ answer'[q] = answer[q]
      BY <1>1, <3>1, FinishFacts DEF ImagesInv
    <3>3. TypeOK'
      BY <2>1, <3>1, <3>2 DEF ImagesInv, TypeOK, Places, Answers
    <3> QED
      BY <1>1, <2>1, <3>1, <3>2, <3>3, ReaderKeeps
  <2> QED
    BY <2>3, <2>4
<1>4. CASE Unlink(r)
  <2>1. /\ pc[r] = "unlink" /\ DeleteFile(image[r]) /\ Finish(r, "204")
        /\ UNCHANGED <<rows, image>>
    BY <1>4 DEF Unlink, Unlinkable
  <2>2. PICK f : f = image[r]
    OBVIOUS
  <2>3. /\ f # None /\ f \in Uploads /\ f \notin rows /\ Published(f)
        /\ disk \in [Uploads -> {"none", "partial", "whole"}]
    BY <1>1, <2>1, <2>2 DEF ImagesInv, ReadersSound, RemovalsSound, Took, TypeOK
  <2>4. /\ pc' \in [Requests -> Places] /\ answer' \in [Requests -> Answers]
        /\ pc'[r] = "done" /\ answer'[r] = "204"
        /\ \A q \in Requests \ {r} : pc'[q] = pc[q] /\ answer'[q] = answer[q]
    BY <1>1, <2>1, FinishFacts DEF ImagesInv
  <2>5. /\ disk' \in [Uploads -> {"none", "partial", "whole"}]
        /\ warned \subseteq warned' /\ warned' \subseteq warned \cup {f}
        /\ \A g \in Uploads \ {f} : disk'[g] = disk[g]
        /\ disk'[f] = "none" \/ (disk'[f] = disk[f] /\ f \in warned')
    BY <2>1, <2>2, <2>3 DEF DeleteFile
  <2>6. TypeOK'
    BY <2>1, <2>3, <2>4, <2>5 DEF ImagesInv, TypeOK, Places, Answers
  <2> QED
    BY <1>1, <2>1, <2>2, <2>3, <2>4, <2>5, <2>6, ReaderKeeps
<1> QED
  BY <1>2, <1>3, <1>4 DEF Remove

LEMMA StreamInv ==
    ASSUME ImagesInv, NEW r \in Streams, Stream(r)
    PROVE  ImagesInv'
<1>1. /\ r \in Requests /\ {"404", "200", "200 cut"} \subseteq Answers
      /\ "open" \in Places /\ r \notin Removals
  BY Sorts DEF Answers, Places
<1>2. CASE FindImage(r)
  BY <1>2, FindImageInv
<1>3. CASE AccessFile(r) \/ OpenFile(r)
  <2>1. pc[r] \in {"access", "open"} /\ UNCHANGED <<rows, disk, warned, image>>
    BY <1>3 DEF AccessFile, OpenFile
  <2>2. image[r] # None /\ answer[r] = "none" /\ disk[image[r]] # "partial"
    BY <1>1, <2>1 DEF ImagesInv, ReadersSound, Published
  <2>3. Goto(r, "open") \/ Finish(r, "404") \/ Finish(r, "200")
    BY <1>3, <2>2 DEF AccessFile, OpenFile
  <2>4. /\ pc' \in [Requests -> Places] /\ answer' \in [Requests -> Answers]
        /\ \/ pc'[r] = "open" /\ answer'[r] = "none"
           \/ pc'[r] = "done" /\ answer'[r] \in {"404", "200"}
        /\ \A q \in Requests \ {r} : pc'[q] = pc[q] /\ answer'[q] = answer[q]
    <3>1. TypeOK
      BY DEF ImagesInv
    <3>2. CASE Goto(r, "open")
      BY <1>1, <2>2, <3>1, <3>2, GotoFacts
    <3>3. CASE Finish(r, "404")
      BY <1>1, <3>1, <3>3, FinishFacts
    <3>4. CASE Finish(r, "200")
      BY <1>1, <3>1, <3>4, FinishFacts
    <3> QED
      BY <2>3, <3>2, <3>3, <3>4
  <2>5. TypeOK'
    BY <2>1, <2>4 DEF ImagesInv, TypeOK, Places, Answers
  <2> QED
    BY <1>1, <2>1, <2>2, <2>4, <2>5, ReaderKeeps
<1> QED
  BY <1>2, <1>3 DEF Stream

LEMMA InterruptInv ==
    ASSUME ImagesInv, NEW r \in Requests, Interrupt(r)
    PROVE  ImagesInv'
<1>1. "died" \in Answers /\ pc[r] \notin {"new", "done"}
      /\ UNCHANGED <<rows, disk, warned, image>> /\ Finish(r, "died")
  BY DEF Interrupt, Open, Answers
<1>2. /\ pc' \in [Requests -> Places] /\ answer' \in [Requests -> Answers]
      /\ pc'[r] = "done" /\ answer'[r] = "died"
      /\ \A q \in Requests \ {r} : pc'[q] = pc[q] /\ answer'[q] = answer[q]
  BY <1>1, FinishFacts DEF ImagesInv
<1>3. TypeOK'
  BY <1>1, <1>2 DEF ImagesInv, TypeOK, Places, Answers
<1>4. CASE r \in Uploads
  <2>1. /\ r \in rows => disk[r] = "whole"
        /\ pc[r] = "clean up" => disk[r] # "partial"
    BY <1>1, <1>4 DEF ImagesInv, UploadsSound
  <2> QED
    BY <1>1, <1>2, <1>3, <1>4, <2>1, UploadKeeps
<1>5. CASE r \in Removals \cup Streams
  BY <1>1, <1>2, <1>3, <1>5, ReaderKeeps
<1> QED
  BY <1>4, <1>5 DEF Requests

LEMMA NextInv == ImagesInv /\ [Next]_vars => ImagesInv'
<1> SUFFICES ASSUME ImagesInv, [Next]_vars PROVE ImagesInv'
  OBVIOUS
<1>1. CASE Next
  BY <1>1, UploadInv, RemoveInv, StreamInv, InterruptInv DEF Next, Step
<1>2. CASE UNCHANGED vars
  <2>1. UNCHANGED <<rows, disk, warned, pc, answer, image>>
    BY <1>2 DEF vars
  <2>2. TypeOK' /\ UploadsSound'
    BY <2>1 DEF ImagesInv, TypeOK, UploadsSound
  <2>3. ReadersSound'
    BY <2>1 DEF ImagesInv, ReadersSound, Published
  <2>4. RemovalsSound'
    BY <2>1 DEF ImagesInv, RemovalsSound, Took
  <2>5. OrphansSound'
    BY <2>1 DEF ImagesInv, OrphansSound, Open
  <2>6. RowHasFile' /\ StreamsWhole'
    BY <2>1 DEF ImagesInv, RowHasFile, StreamsWhole
  <2> QED
    BY <2>2, <2>3, <2>4, <2>5, <2>6 DEF ImagesInv
<1> QED
  BY <1>1, <1>2

----------------------------------------------------------------------------
\* The strengthened invariant holds of every reachable state.
THEOREM ImagesInvariant == Spec => []ImagesInv
<1> QED
  BY InitInv, NextInv, PTL DEF Spec

\* A row whose upload was confirmed points at a whole file.
THEOREM RowsHaveFiles == Spec => []RowHasFile
<1>1. ImagesInv => RowHasFile
  BY DEF ImagesInv
<1> QED
  BY <1>1, ImagesInvariant, PTL

\* Every file without a row is accounted for.
THEOREM OrphansAreExplained == Spec => []OrphansExplained
<1>1. ImagesInv => OrphansExplained
  <2> SUFFICES ASSUME ImagesInv, NEW f \in Uploads, disk[f] # "none", f \notin rows
               PROVE  \/ Open(f) \/ answer[f] = "died"
                      \/ f \in warned
                      \/ \E r \in Removals : image[r] = f /\ (Open(r) \/ answer[r] = "died")
    BY DEF OrphansExplained
  <2> QED
    BY DEF ImagesInv, OrphansSound, Open
<1> QED
  BY <1>1, ImagesInvariant, PTL

\* Of the requests that remove an image together one answers that it did.
THEOREM RemovesOnce == Spec => []RemovedOnce
<1>1. ImagesInv => RemovedOnce
  BY DEF ImagesInv, RemovalsSound, Took, RemovedOnce
<1> QED
  BY <1>1, ImagesInvariant, PTL

\* No stream sends a part of an image.
THEOREM StreamsAreWhole == Spec => []StreamsWhole
<1>1. ImagesInv => StreamsWhole
  BY DEF ImagesInv
<1> QED
  BY <1>1, ImagesInvariant, PTL
=============================================================================
