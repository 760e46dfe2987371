------------------------------- MODULE Media --------------------------------
(* The files of the pictures (packages/media/src): they are named after their *)
(* content, so that the rows of several products, and of other tables, refer  *)
(* to one file; an upload writes the file and later the row; a sweep removes  *)
(* old files that no row refers to.  The three sizes of a picture are one     *)
(* file here: it is there when all of them are.                               *)
EXTENDS Naturals

CONSTANTS Images,                \* contents
          Uploads, Sweeps,       \* requests that are under way
          NoUpload, NoSweep,
          MaxRowsOf,             \* bound: rows of product_images for one content
          MaxUploads, MaxSweeps  \* bounds: requests

ASSUME MediaAssumption ==
  /\ NoUpload \notin Images
  /\ MaxRowsOf \in Nat /\ MaxUploads \in Nat /\ MaxSweeps \in Nat

VARIABLES file,      \* the file of each content: none, young, old
          pictures,  \* rows of product_images that refer to it
          adopted,   \* the contents that a banner, a category or a cheque refers to
          upload,    \* the content that each upload has saved
          sweep,     \* what each sweep has found out
          unlucky,   \* contents whose file went in one of the ways the code leaves open
          uploads, sweeps

mediaVars == <<file, pictures, adopted, upload, sweep, unlucky, uploads, sweeps>>

Pictured == {i \in Images : pictures[i] > 0}

\* Faulty variant: the reference list before migration 038.
ReferencedByProducts == Pictured

\* referencedMediaUrls, over all the columns of MEDIA_SOURCES.
Referenced == Pictured \cup adopted

MediaInit ==
  /\ file = [i \in Images |-> "none"] /\ pictures = [i \in Images |-> 0] /\ adopted = {}
  /\ upload = [u \in Uploads |-> NoUpload] /\ sweep = [s \in Sweeps |-> NoSweep]
  /\ unlucky = {} /\ uploads = 0 /\ sweeps = 0

-----------------------------------------------------------------------------
(* Uploads: saveUpload and attachImage in one request.                        *)

\* Sweeps that have this file on their list.
DoomedBy(i) == {s \in Sweeps : sweep[s] # NoSweep /\ i \in sweep[s].doomed}

\* Each size is written beside and renamed into its place: the file is there, and
\* new, even if it was there before.
Save(u, i) ==
  /\ upload[u] = NoUpload /\ uploads < MaxUploads /\ uploads' = uploads + 1
  /\ file' = [file EXCEPT ![i] = "young"]
  /\ upload' = [upload EXCEPT ![u] = i]
  /\ unlucky' = IF DoomedBy(i) # {} THEN unlucky \cup {i}
                ELSE IF \A s \in Sweeps : sweep[s] = NoSweep THEN unlucky \ {i}
                ELSE unlucky
  /\ UNCHANGED <<pictures, adopted, sweep, sweeps>>

\* A size cannot be written: those written before it are deleted, whoever else
\* refers to this content.
SaveFails(u, i) ==
  /\ upload[u] = NoUpload /\ uploads < MaxUploads /\ uploads' = uploads + 1
  /\ \/ UNCHANGED <<file, unlucky>>
     \/ file' = [file EXCEPT ![i] = "none"] /\ unlucky' = unlucky \cup {i}
  /\ UNCHANGED <<pictures, adopted, upload, sweep, sweeps>>

\* The row.
Attach(u) ==
  /\ upload[u] # NoUpload /\ pictures[upload[u]] < MaxRowsOf
  /\ pictures' = [pictures EXCEPT ![upload[u]] = @ + 1]
  /\ upload' = [upload EXCEPT ![u] = NoUpload]
  /\ UNCHANGED <<file, adopted, sweep, unlucky, uploads, sweeps>>

\* The product is gone, or the process dies: the file stays.
AttachFails(u) ==
  /\ upload[u] # NoUpload
  /\ upload' = [upload EXCEPT ![u] = NoUpload]
  /\ UNCHANGED <<file, pictures, adopted, sweep, unlucky, uploads, sweeps>>

\* detachImage leaves the file to the sweep.
Detach(i) ==
  /\ pictures[i] > 0 /\ pictures' = [pictures EXCEPT ![i] = @ - 1]
  /\ UNCHANGED <<file, adopted, upload, sweep, unlucky, uploads, sweeps>>

\* A banner, a category, a cheque, or the edit of a product is given the address of a
\* picture that is there.
Adopt(i) ==
  /\ i \notin adopted /\ file[i] # "none" /\ adopted' = adopted \cup {i}
  /\ unlucky' = IF \E s \in Sweeps : sweep[s] # NoSweep /\ i \notin sweep[s].wanted
                  THEN unlucky \cup {i} ELSE unlucky
  /\ UNCHANGED <<file, pictures, upload, sweep, uploads, sweeps>>

Abandon(i) ==
  /\ i \in adopted /\ adopted' = adopted \ {i}
  /\ UNCHANGED <<file, pictures, upload, sweep, unlucky, uploads, sweeps>>

\* The days of media_grace_days pass, which no upload lasts.  A sweep judges by the
\* time at which it has read the references.
Ages(i) ==
  /\ file[i] = "young" /\ \A u \in Uploads : upload[u] # i
  /\ \A s \in Sweeps : sweep[s] # NoSweep => sweep[s].step # "scanning"
  /\ file' = [file EXCEPT ![i] = "old"]
  /\ UNCHANGED <<pictures, adopted, upload, sweep, unlucky, uploads, sweeps>>

-----------------------------------------------------------------------------
(* mediaHygiene: the references, then the files, then the removal.            *)

ReadReferences(s) ==
  /\ sweep[s] = NoSweep /\ sweeps < MaxSweeps /\ sweeps' = sweeps + 1
  /\ sweep' = [sweep EXCEPT ![s] =
       [wanted |-> Referenced, doomed |-> {}, step |-> "scanning"]]
  /\ UNCHANGED <<file, pictures, adopted, upload, unlucky, uploads>>

\* The walk: an old file whose address nobody wanted is an orphan.
Scan(s) ==
  /\ sweep[s] # NoSweep /\ sweep[s].step = "scanning"
  /\ sweep' = [sweep EXCEPT ![s] =
       [@ EXCEPT !.doomed = {i \in Images \ sweep[s].wanted : file[i] = "old"},
                 !.step = "removing"]]
  /\ UNCHANGED <<file, pictures, adopted, upload, unlucky, uploads, sweeps>>

\* A preview; too large a share of orphans; the limit of one round; a crash; the end.
SweepEnds(s) ==
  /\ sweep[s] # NoSweep
  /\ sweep' = [sweep EXCEPT ![s] = NoSweep]
  /\ UNCHANGED <<file, pictures, adopted, upload, unlucky, uploads, sweeps>>

\* rm of one of them, whatever has become of it.
RemoveFile(s, i) ==
  /\ sweep[s] # NoSweep /\ i \in sweep[s].doomed
  /\ file' = [file EXCEPT ![i] = "none"]
  /\ sweep' = [sweep EXCEPT ![s].doomed = @ \ {i}]
  /\ UNCHANGED <<pictures, adopted, upload, unlucky, uploads, sweeps>>

-----------------------------------------------------------------------------
MediaNext ==
  \/ \E u \in Uploads :
       \/ \E i \in Images : Save(u, i) \/ SaveFails(u, i)
       \/ Attach(u) \/ AttachFails(u)
  \/ \E i \in Images : Detach(i) \/ Adopt(i) \/ Abandon(i) \/ Ages(i)
  \/ \E s \in Sweeps :
       \/ ReadReferences(s) \/ Scan(s) \/ SweepEnds(s)
       \/ \E i \in Images : RemoveFile(s, i)

MediaSpec == MediaInit /\ [][MediaNext]_mediaVars

-----------------------------------------------------------------------------
(* Properties.                                                                *)

\* Types.
MediaTypeOK ==
  /\ file \in [Images -> {"none", "young", "old"}]
  /\ pictures \in [Images -> 0 .. MaxRowsOf] /\ adopted \subseteq Images
  /\ upload \in [Uploads -> Images \cup {NoUpload}] /\ unlucky \subseteq Images
  /\ uploads \in 0 .. MaxUploads /\ sweeps \in 0 .. MaxSweeps
  /\ \A s \in Sweeps :
       sweep[s] # NoSweep => sweep[s].doomed \subseteq Images \ sweep[s].wanted

\* What a row shows, or is about to show, is there: no sweep, at whatever point of an
\* upload, takes the file of a picture, but one that was saved or given to a banner
\* again between the sweep's look and its removal, or that a failed upload took back.
PicturesAreKept ==
  MediaTypeOK /\ \A i \in Images \ unlucky :
    pictures[i] > 0 \/ i \in adopted \/ (\E u \in Uploads : upload[u] = i) => file[i] # "none"

\* The head of service.ts: a file is removed only if no row refers to it.
OnlyOrphansAreRemoved == \A i \in Referenced : file[i] # "none"
=============================================================================
