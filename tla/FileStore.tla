------------------------------ MODULE FileStore ------------------------------
(***************************************************************************)
(* The file server: uploads to, deletions from and downloads of the SPIFFS *)
(* partition through the web page.                                         *)
(*                                                                         *)
(* The httpd task runs one handler at a time, so no request meets a file   *)
(* that another one is writing; what interrupts an upload is the browser,  *)
(* a full partition and a loss of power.  A size counts buffers of the C   *)
(* library: full ones go to the partition at once, while the rest of a     *)
(* file (its tail) waits in memory until the file is closed.               *)
(***************************************************************************)
EXTENDS Integers, FiniteSetsExt

CONSTANTS
  Names,      \* of files
  Uploads,    \* what browsers upload: a size, and whether it ends in a tail
  MaxSize,    \* MAX_FILE_SIZE (200 KB)
  Capacity,   \* of the partition (104 KB, less than MAX_FILE_SIZE)
  HeapBlocks  \* file names for which the heap has room

ASSUME FileStoreAssumption ==
  /\ Uploads \subseteq [size : Nat, tail : BOOLEAN]
  /\ \A u \in Uploads : u.tail => u.size > 0
  /\ MaxSize \in Nat /\ Capacity \in Nat /\ HeapBlocks \in Nat

VARIABLES
  files,      \* the files in the partition, by name
  http,       \* where the httpd task stands
  name,       \* the file it works on, or worked on last
  remaining,  \* what is left to be received of an upload
  answer,     \* to the last request
  leaked,     \* names allocated by download_post_handler and never freed
  torn        \* history: files whose upload a loss of power cut short

vars == <<files, http, name, remaining, answer, leaked, torn>>

Answers == {"none", "uploaded", "deleted", "sent", "listed", "404", "500", "closed"}

\* A file in the partition: the upload it came from, and how much is stored.
File == [upload : Uploads, stored : Nat]

TypeOK ==
  /\ DOMAIN files \subseteq Names
  /\ files \in [DOMAIN files -> File]
  /\ http \in {"idle", "receive"}
  /\ name \in Names
  /\ remaining \in 0..MaxSize
  /\ http = "receive" => name \in DOMAIN files
  /\ answer \in Answers
  /\ leaked \in 0..HeapBlocks
  /\ torn \subseteq DOMAIN files

(***************************************************************************)
(* The partition.                                                          *)
(***************************************************************************)
Stored(n, f) == [m \in DOMAIN files \union {n} |-> IF m = n THEN f ELSE files[m]]

Unlinked(n) == [m \in DOMAIN files \ {n} |-> files[m]]

Used == MapThenSumSet(LAMBDA n : files[n].stored, DOMAIN files)

Grown == Stored(name, [files[name] EXCEPT !.stored = @ + 1])

(***************************************************************************)
(* upload_post_handler.                                                    *)
(***************************************************************************)

\* Faulty variant: the test for an existing file is left out.
AcceptableAny(n, u) == u.size <= MaxSize

\* Faulty variant: the test of the size is left out.
AcceptableLarge(n, u) == n \notin DOMAIN files

Acceptable(n, u) == n \notin DOMAIN files /\ u.size <= MaxSize

Upload(n, u) ==
  /\ http = "idle"
  /\ Acceptable(n, u)
  /\ files' = Stored(n, [upload |-> u, stored |-> 0])
  /\ torn' = torn \ {n}
  /\ name' = n /\ remaining' = u.size
  /\ answer' = "none"
  /\ http' = "receive"
  /\ UNCHANGED leaked

\* A file that exists, a file too large (which gets no answer), and a file
\* that cannot be created.
RefuseUpload(n, u) ==
  /\ http = "idle"
  /\ name' = n
  /\ answer' = IF n \notin DOMAIN files /\ u.size > MaxSize THEN "closed" ELSE "500"
  /\ UNCHANGED <<files, http, remaining, leaked, torn>>

Tail == remaining = 1 /\ files[name].upload.tail

\* Faulty variant: what has been received is not subtracted.
Count == remaining

CountDown == remaining - 1

\* The next buffer, which goes to the partition unless it is the tail.  A
\* timeout only repeats the reception.
Receive ==
  /\ http = "receive" /\ remaining > 0
  /\ IF Tail THEN UNCHANGED files ELSE Used < Capacity /\ files' = Grown
  /\ remaining' = CountDown
  /\ UNCHANGED <<http, name, answer, leaked, torn>>

\* Faulty variant: the unfinished file stays.
GiveUpKeepsFile ==
  /\ http = "receive" /\ remaining > 0
  /\ answer' = "500"
  /\ http' = "idle"
  /\ UNCHANGED <<files, name, remaining, leaked, torn>>

\* Faulty variant: a write to a full partition is repeated like a reception.
GiveUpWhenRoom ==
  /\ http = "receive" /\ remaining > 0
  /\ Used < Capacity
  /\ files' = Unlinked(name)
  /\ torn' = torn \ {name}
  /\ answer' = "500"
  /\ http' = "idle"
  /\ UNCHANGED <<name, remaining, leaked>>

\* The connection breaks, or a write fails (the partition need not be full
\* for that): the unfinished file is deleted.
GiveUp ==
  /\ http = "receive" /\ remaining > 0
  /\ files' = Unlinked(name)
  /\ torn' = torn \ {name}
  /\ answer' = "500"
  /\ http' = "idle"
  /\ UNCHANGED <<name, remaining, leaked>>

\* fclose writes the tail; nobody looks at its result.
Close ==
  /\ http = "receive" /\ remaining = 0
  /\ \/ UNCHANGED files
     \/ files[name].upload.tail /\ Used < Capacity /\ files' = Grown
  /\ files[name].upload.tail \/ UNCHANGED files
  /\ answer' = "uploaded"
  /\ http' = "idle"
  /\ UNCHANGED <<name, remaining, leaked, torn>>

(***************************************************************************)
(* delete_post_handler and download_post_handler.                          *)
(***************************************************************************)
Delete(n) ==
  /\ http = "idle"
  /\ name' = n
  /\ files' = Unlinked(n)
  /\ torn' = torn \ {n}
  /\ answer' = IF n \in DOMAIN files THEN "deleted" ELSE "closed"
  /\ UNCHANGED <<http, remaining, leaked>>

\* The name's copy is freed only where the whole file has been sent.
Download(n) ==
  /\ http = "idle"
  /\ leaked < HeapBlocks
  /\ name' = n
  /\ \/ n \in DOMAIN files /\ answer' = "sent" /\ UNCHANGED leaked
     \/ n \in DOMAIN files /\ answer' = "500" /\ leaked' = leaked + 1
     \/ n \notin DOMAIN files /\ answer' = "404" /\ leaked' = leaked + 1
  /\ UNCHANGED <<files, http, remaining, torn>>

\* The list of the files, unless the directory cannot be opened.
http_resp_dir_html == answer' \in {"listed", "404"}

\* POST /download/ lists the directory.
DownloadDirectory ==
  /\ http = "idle"
  /\ leaked < HeapBlocks
  /\ http_resp_dir_html /\ leaked' = leaked + 1
  /\ UNCHANGED <<files, http, name, remaining, torn>>

\* download_get_handler lists the directory for a name that ends in a slash;
\* it sends nothing for any other name.
GetDirectory ==
  /\ http = "idle"
  /\ http_resp_dir_html \/ answer' = "none"
  /\ UNCHANGED <<files, http, name, remaining, leaked, torn>>

\* A name that does not fit into its buffer, in any handler that takes it from
\* the address.
NameTooLong ==
  /\ http = "idle"
  /\ answer' = "500"
  /\ UNCHANGED <<files, http, name, remaining, leaked, torn>>

Reset ==
  /\ http' = "idle" /\ remaining' = 0 /\ answer' = "none" /\ leaked' = 0
  /\ UNCHANGED name

\* Without memory the name is written through a null pointer, before the
\* test for one.
DownloadWithoutMemory ==
  /\ http = "idle"
  /\ leaked = HeapBlocks
  /\ Reset
  /\ UNCHANGED <<files, torn>>

(***************************************************************************)
(* Loss of power.  SPIFFS caches what is written to an open file.          *)
(***************************************************************************)
PowerLoss ==
  /\ IF http = "receive"
     THEN /\ \E k \in 0..files[name].stored :
               files' = Stored(name, [files[name] EXCEPT !.stored = k])
          /\ torn' = torn \union {name}
     ELSE UNCHANGED <<files, torn>>
  /\ Reset

Init ==
  /\ files = [n \in {} |-> [upload |-> CHOOSE u \in Uploads : TRUE, stored |-> 0]]
  /\ http = "idle"
  /\ name \in Names
  /\ remaining = 0
  /\ answer = "none"
  /\ leaked = 0
  /\ torn = {}

Next ==
  \/ \E n \in Names, u \in Uploads : Upload(n, u) \/ RefuseUpload(n, u)
  \/ Receive \/ GiveUp \/ Close
  \/ \E n \in Names : Delete(n) \/ Download(n)
  \/ DownloadDirectory \/ DownloadWithoutMemory \/ GetDirectory \/ NameTooLong
  \/ PowerLoss

Spec == Init /\ [][Next]_vars

\* The browser sends the rest or its connection breaks, and a handler that
\* has received everything goes on.
Fairness == WF_vars(Receive \/ GiveUp) /\ WF_vars(Close)

FairSpec == Spec /\ Fairness

------------------------------------------------------------------------------
(***************************************************************************)
(* What the file server promises.                                          *)
(***************************************************************************)
Whole(f) == f.stored = f.upload.size

Uploading(n) == http = "receive" /\ name = n

\* A file that is not whole is being uploaded, or was when power was lost, or
\* lacks no more than its tail: no failed upload leaves a piece of a file.
PartialIsExplained ==
  \A n \in DOMAIN files :
    \/ Whole(files[n])
    \/ Uploading(n)
    \/ n \in torn
    \/ files[n].upload.tail /\ files[n].stored = files[n].upload.size - 1

\* While a file is uploaded, what is stored and what is to come add up to it
\* (but for a tail that is received and not yet written).
NothingLost ==
  http = "receive" =>
    LET f == files[name]
    IN  f.stored + remaining = f.upload.size
          - (IF f.upload.tail /\ remaining = 0 THEN 1 ELSE 0)

\* A file that nobody uploads is never changed, by no request and by no loss
\* of power: it stays as it is or is deleted as a whole.
FilesAreKept ==
  [][\A n \in DOMAIN files :
       ~Uploading(n) /\ n \in DOMAIN files' => files'[n] = files[n]]_vars

\* No upload keeps the web server for ever, once its browser goes on or away.
UploadEnds == http = "receive" ~> http = "idle"

\* OTAServer.c:877, "File uploaded successfully": the file is stored.
UploadedIsWhole == answer = "uploaded" => Whole(files[name])
==============================================================================
