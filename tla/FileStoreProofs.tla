--------------------------- MODULE FileStoreProofs ---------------------------
(***************************************************************************)
(* The safety of the file server, for every set of names and uploads and   *)
(* every size of the partition.  TypeOK, NothingLost and                   *)
(* PartialIsExplained are inductive together: the account of an upload is  *)
(* what decides, at its end, how much of the file can be missing.          *)
(***************************************************************************)
EXTENDS FileStore, TLAPS

FileInv == TypeOK /\ NothingLost /\ PartialIsExplained

\* The initial state satisfies the invariant.
LEMMA FileInit == Init => FileInv
  BY FileStoreAssumption
  DEF Init, FileInv, TypeOK, Answers, NothingLost, PartialIsExplained

\* A file added to the partition, or one more buffer of it, leaves the other
\* files as they are.
LEMMA StoredFile ==
  ASSUME TypeOK, NEW n \in Names, NEW f \in File
  PROVE  /\ DOMAIN Stored(n, f) = DOMAIN files \union {n}
         /\ Stored(n, f) \in [DOMAIN files \union {n} -> File]
         /\ Stored(n, f)[n] = f
         /\ \A m \in DOMAIN files \ {n} : Stored(n, f)[m] = files[m]
  BY DEF TypeOK, Stored

LEMMA GrownFile ==
  ASSUME TypeOK, http = "receive"
  PROVE  /\ DOMAIN Grown = DOMAIN files
         /\ Grown \in [DOMAIN files -> File]
         /\ Grown[name].upload = files[name].upload
         /\ Grown[name].stored = files[name].stored + 1
         /\ \A m \in DOMAIN files \ {name} : Grown[m] = files[m]
<1> DEFINE f == [files[name] EXCEPT !.stored = @ + 1]
<1>1. name \in DOMAIN files /\ name \in Names /\ files[name] \in File
  BY DEF TypeOK
<1>2. /\ f \in File
      /\ f.upload = files[name].upload
      /\ f.stored = files[name].stored + 1
  BY <1>1 DEF File
<1>3. DOMAIN files \union {name} = DOMAIN files
  BY <1>1
<1> QED
  BY <1>1, <1>2, <1>3, StoredFile DEF Grown

\* What a loss of power leaves of the file that is being uploaded.
LEMMA TornFile ==
  ASSUME TypeOK, http = "receive", NEW k \in 0..files[name].stored,
         NEW g, g = Stored(name, [files[name] EXCEPT !.stored = k])
  PROVE  /\ DOMAIN g = DOMAIN files
         /\ g \in [DOMAIN files -> File]
         /\ \A m \in DOMAIN files \ {name} : g[m] = files[m]
<1> DEFINE f == [files[name] EXCEPT !.stored = k]
<1>1. name \in DOMAIN files /\ name \in Names /\ files[name] \in File
  BY DEF TypeOK
<1>2. f \in File
  BY <1>1 DEF File
<1>3. DOMAIN files \union {name} = DOMAIN files
  BY <1>1
<1> HIDE DEF f
<1>4. /\ DOMAIN Stored(name, f) = DOMAIN files \union {name}
      /\ Stored(name, f) \in [DOMAIN files \union {name} -> File]
      /\ \A m \in DOMAIN files \ {name} : Stored(name, f)[m] = files[m]
  BY <1>1, <1>2, StoredFile
<1>5. g = Stored(name, f)
  BY DEF f
<1> QED
  BY <1>3, <1>4, <1>5

\* Every step preserves the invariant.
LEMMA FileNext == FileInv /\ [Next]_vars => FileInv'
<1> SUFFICES ASSUME FileInv, [Next]_vars PROVE FileInv'
  OBVIOUS
<1> USE FileStoreAssumption DEF FileInv
<1>1. ASSUME NEW n \in Names, NEW u \in Uploads, Upload(n, u) PROVE FileInv'
  <2> DEFINE f == [upload |-> u, stored |-> 0]
  <2>1. f \in File /\ n \notin DOMAIN files
    BY <1>1 DEF Upload, Acceptable, File
  <2>2. /\ files' \in [DOMAIN files \union {n} -> File]
        /\ DOMAIN files' = DOMAIN files \union {n}
        /\ files'[n] = f
        /\ \A m \in DOMAIN files : files'[m] = files[m]
    BY <1>1, <2>1, StoredFile DEF Upload
  <2>3. TypeOK'
    BY <1>1, <2>2 DEF Upload, Acceptable, TypeOK, Answers
  <2>4. NothingLost'
    BY <1>1, <2>2 DEF Upload, NothingLost
  <2>5. PartialIsExplained'
    <3> SUFFICES ASSUME NEW m \in DOMAIN files', m # n
                 PROVE  \/ Whole(files'[m]) \/ m \in torn'
                        \/ /\ files'[m].upload.tail
                           /\ files'[m].stored = files'[m].upload.size - 1
      BY <1>1 DEF PartialIsExplained, Whole, Uploading, Upload
    <3> QED
      BY <1>1, <2>2 DEF Upload, PartialIsExplained, Whole, Uploading
  <2> QED
    BY <2>3, <2>4, <2>5
<1>2. ASSUME NEW n \in Names, NEW u \in Uploads, RefuseUpload(n, u) PROVE FileInv'
  BY <1>2 DEF RefuseUpload, TypeOK, Answers, NothingLost, PartialIsExplained, Whole,
              Uploading
<1>3. CASE Receive
  <2>1. CASE Tail
    BY <1>3, <2>1 DEF Receive, Tail, CountDown, TypeOK, File, NothingLost,
                      PartialIsExplained, Whole, Uploading
  <2>2. CASE ~Tail
    <3>1. files' = Grown
      BY <1>3, <2>2 DEF Receive
    <3>2. TypeOK'
      BY <1>3, <3>1, GrownFile DEF Receive, TypeOK, CountDown
    <3>3. NothingLost'
      <4>1. files[name] \in File
        BY <1>3 DEF Receive, TypeOK
      <4>2. /\ files'[name].upload = files[name].upload
            /\ files'[name].stored = files[name].stored + 1
        BY <1>3, <3>1, GrownFile DEF Receive
      <4> QED
        BY <1>3, <2>2, <4>1, <4>2
        DEF Receive, NothingLost, Tail, CountDown, TypeOK, File
    <3>4. PartialIsExplained'
      BY <1>3, <3>1, GrownFile DEF Receive, PartialIsExplained, Whole, Uploading
    <3> QED
      BY <3>2, <3>3, <3>4
  <2> QED
    BY <2>1, <2>2
<1>4. CASE GiveUp
  BY <1>4 DEF GiveUp, Unlinked, TypeOK, Answers, NothingLost, PartialIsExplained,
              Whole, Uploading
<1>5. CASE Close
  <2>1. name \in DOMAIN files /\ files[name] \in File
    BY <1>5 DEF Close, TypeOK
  <2>2. files[name].stored = files[name].upload.size
          - (IF files[name].upload.tail THEN 1 ELSE 0)
    BY <1>5, <2>1 DEF Close, NothingLost, File
  <2>3. CASE UNCHANGED files
    <3>1. TypeOK' /\ NothingLost'
      BY <1>5, <2>3 DEF Close, TypeOK, Answers, NothingLost
    <3>2. PartialIsExplained'
      BY <1>5, <2>1, <2>2, <2>3
      DEF Close, PartialIsExplained, Whole, Uploading, File
    <3> QED
      BY <3>1, <3>2
  <2>4. CASE files[name].upload.tail /\ files' = Grown
    <3>1. TypeOK' /\ NothingLost'
      BY <1>5, <2>4, GrownFile DEF Close, TypeOK, Answers, NothingLost
    <3>2. Whole(files'[name])
      BY <1>5, <2>1, <2>2, <2>4, GrownFile DEF Close, Whole, File
    <3>3. PartialIsExplained'
      BY <1>5, <2>4, <3>2, GrownFile DEF Close, PartialIsExplained, Whole, Uploading
    <3> QED
      BY <3>1, <3>3
  <2> QED
    BY <1>5, <2>3, <2>4 DEF Close
<1>6. ASSUME NEW n \in Names, Delete(n) PROVE FileInv'
  BY <1>6 DEF Delete, Unlinked, TypeOK, Answers, NothingLost, PartialIsExplained,
              Whole, Uploading
<1>7. ASSUME NEW n \in Names, Download(n) PROVE FileInv'
  BY <1>7 DEF Download, TypeOK, Answers, NothingLost, PartialIsExplained, Whole,
              Uploading
<1>8. CASE DownloadDirectory \/ GetDirectory \/ NameTooLong
  BY <1>8
     DEF DownloadDirectory, GetDirectory, NameTooLong, http_resp_dir_html, TypeOK, Answers,
     NothingLost, PartialIsExplained,
              Whole, Uploading
<1>9. CASE DownloadWithoutMemory
  BY <1>9 DEF DownloadWithoutMemory, Reset, TypeOK, Answers, NothingLost,
              PartialIsExplained, Whole, Uploading
<1>10. CASE PowerLoss
  <2>1. CASE http = "receive"
    <3>1. PICK k \in 0..files[name].stored :
            files' = Stored(name, [files[name] EXCEPT !.stored = k])
      BY <1>10, <2>1 DEF PowerLoss
    <3>2. /\ DOMAIN files' = DOMAIN files
          /\ files' \in [DOMAIN files -> File]
          /\ \A m \in DOMAIN files \ {name} : files'[m] = files[m]
      BY <2>1, <3>1, TornFile
    <3> QED
      BY <1>10, <2>1, <3>2 DEF PowerLoss, Reset, TypeOK, Answers, NothingLost,
                               PartialIsExplained, Whole, Uploading
  <2>2. CASE http # "receive"
    BY <1>10, <2>2 DEF PowerLoss, Reset, TypeOK, Answers, NothingLost,
                       PartialIsExplained, Whole, Uploading
  <2> QED
    BY <2>1, <2>2
<1>11. CASE UNCHANGED vars
  BY <1>11 DEF vars, TypeOK, NothingLost, PartialIsExplained, Whole, Uploading
<1> QED
  BY <1>1, <1>2, <1>3, <1>4, <1>5, <1>6, <1>7, <1>8, <1>9, <1>10, <1>11 DEF Next

LEMMA FileAlways == Spec => []FileInv
  BY FileInit, FileNext, PTL DEF Spec

\* The types of the variables.
THEOREM TypeCorrect == Spec => []TypeOK
<1>1. FileInv => TypeOK
  BY DEF FileInv
<1> QED
  BY FileAlways, <1>1, PTL

\* A file that is not whole is being uploaded, was torn by a loss of power, or
\* lacks its tail: upload_post_handler never leaves a piece behind.
THEOREM NoPiecesLeft == Spec => []PartialIsExplained
<1>1. FileInv => PartialIsExplained
  BY DEF FileInv
<1> QED
  BY FileAlways, <1>1, PTL

\* No buffer of an upload is stored twice or skipped.
THEOREM NoBufferLost == Spec => []NothingLost
<1>1. FileInv => NothingLost
  BY DEF FileInv
<1> QED
  BY FileAlways, <1>1, PTL

\* A stored file is changed by no request and by no loss of power.
THEOREM FilesStay == Spec => FilesAreKept
<1> DEFINE Kept == \A n \in DOMAIN files :
                     ~Uploading(n) /\ n \in DOMAIN files' => files'[n] = files[n]
<1>1. ASSUME TypeOK, [Next]_vars PROVE [Kept]_vars
  <2> SUFFICES ASSUME NEW n \in DOMAIN files, ~Uploading(n), n \in DOMAIN files',
                      Next
               PROVE  files'[n] = files[n]
    BY <1>1 DEF vars
  <2>1. ASSUME NEW m \in Names, NEW u \in Uploads, Upload(m, u) \/ RefuseUpload(m, u)
        PROVE  files'[n] = files[n]
    BY <2>1 DEF Upload, RefuseUpload, Acceptable, Stored
  <2>2. CASE Receive \/ Close
    BY <1>1, <2>2, GrownFile DEF Receive, Close, Uploading
  <2>3. CASE GiveUp
    BY <2>3 DEF GiveUp, Unlinked
  <2>4. ASSUME NEW m \in Names, Delete(m) \/ Download(m)
        PROVE  files'[n] = files[n]
    BY <2>4 DEF Delete, Download, Unlinked
  <2>5. CASE \/ DownloadDirectory \/ DownloadWithoutMemory
             \/ GetDirectory \/ NameTooLong
    BY <2>5 DEF DownloadDirectory, DownloadWithoutMemory, GetDirectory, NameTooLong
  <2>6. CASE PowerLoss
    BY <1>1, <2>6, TornFile DEF PowerLoss, Uploading
  <2> QED
    BY <2>1, <2>2, <2>3, <2>4, <2>5, <2>6 DEF Next
<1>2. Spec => []TypeOK
  BY TypeCorrect
<1> QED
  BY <1>1, <1>2, PTL DEF Spec, FilesAreKept
==============================================================================
