--------------------------- MODULE PostFileProofs ---------------------------
(***************************************************************************)
(* PostFile keeps its inductive invariant IInv, for every number of pages, *)
(* growth quantum, page content and lock limit; hence every crash and      *)
(* every power loss is recoverable, and PostFile implements TxnImage.      *)
(***************************************************************************)
EXTENDS PostFileInv, TLAPS, FiniteSetTheorems, SequenceTheorems

USE SizesAssumption, ContentAssumption

-----------------------------------------------------------------------------
(* Facts about the operators. *)

\* ftruncate keeps what lies below the new length (Cut).
LEMMA CutType == ASSUME NEW img \in Image, NEW len \in Nat
                 PROVE  /\ Cut(img, len) \in Image
                        /\ \A p \in Page : p < len => Cut(img, len)[p] = img[p]
BY DEF Cut, Image, Page

\* hdr->file_size lies within the mapping.
LEMMA HdrType == ASSUME NEW img \in Image PROVE HdrSize(img) \in 0..MaxPages
BY DEF HdrSize, Image, Page

\* The pages an extended log covers (create_shadow_page).
LEMMA PagesAppend ==
  ASSUME NEW lg \in Seq(LogRecord), NEW r \in LogRecord
  PROVE  /\ Append(lg, r) \in Seq(LogRecord)
         /\ Pages(Append(lg, r)) = Pages(lg) \cup {r.page}
<1> DEFINE ap == Append(lg, r)
<1>1. /\ ap \in Seq(LogRecord) /\ Len(ap) = Len(lg) + 1
      /\ \A i \in 1..Len(lg) : ap[i] = lg[i]
      /\ ap[Len(lg) + 1] = r
  OBVIOUS
<1>2. DOMAIN ap = 1..Len(lg)+1 /\ DOMAIN lg = 1..Len(lg) /\ Len(lg) \in Nat
  BY <1>1
<1> HIDE DEF ap
<1>3. Pages(ap) = Pages(lg) \cup {r.page}
  <2>1. \A i \in DOMAIN ap : ap[i].page \in Pages(lg) \cup {r.page}
    BY <1>1, <1>2 DEF Pages
  <2>2. \A i \in DOMAIN lg : lg[i].page \in Pages(ap)
    BY <1>1, <1>2 DEF Pages
  <2>3. r.page \in Pages(ap)
    BY <1>1, <1>2 DEF Pages
  <2> QED BY <2>1, <2>2, <2>3 DEF Pages
<1> QED BY <1>1, <1>3 DEF ap

\* A truncated log covers no page (commit, close).
LEMMA PagesEmpty == Pages(<<>>) = {} /\ <<>> \in Seq(LogRecord)
BY DEF Pages

\* A prefix of the log covers some of its pages (power loss).
LEMMA PagesPrefix ==
  ASSUME NEW lg \in Seq(LogRecord), NEW n \in 0..Len(lg)
  PROVE  /\ SubSeq(lg, 1, n) \in Seq(LogRecord)
         /\ Len(SubSeq(lg, 1, n)) = n
         /\ \A i \in 1..n : SubSeq(lg, 1, n)[i] = lg[i]
         /\ Pages(SubSeq(lg, 1, n)) \subseteq Pages(lg)
BY DEF Pages

\* A prefix of a log without repetitions has none.
LEMMA DistinctPrefix ==
  ASSUME NEW lg \in Seq(LogRecord), NEW n \in 0..Len(lg), Distinct(lg)
  PROVE  Distinct(SubSeq(lg, 1, n))
<1> DEFINE s == SubSeq(lg, 1, n)
<1>1. /\ s \in Seq(LogRecord) /\ Len(s) = n
      /\ \A i \in 1..n : s[i] = lg[i]
  BY PagesPrefix
<1>2. DOMAIN s = 1..n /\ DOMAIN lg = 1..Len(lg) /\ Len(lg) \in Nat
  BY <1>1
<1> HIDE DEF s
<1>3. \A i \in DOMAIN s : i \in DOMAIN lg /\ s[i] = lg[i]
  BY <1>1, <1>2
<1> QED BY <1>3 DEF Distinct, s

-----------------------------------------------------------------------------
(* Types. *)

\* n_locked_pages is a number.
LEMMA LockedCount == TypeOK => Cardinality(locked) \in Nat
<1> SUFFICES ASSUME TypeOK PROVE Cardinality(locked) \in Nat
  OBVIOUS
<1>1. IsFiniteSet(Page)
  <2>1. 0 \in Int /\ MaxPages - 1 \in Int
    OBVIOUS
  <2> QED BY <2>1, FS_Interval DEF Page
<1> QED BY <1>1, FS_Subset, FS_CardinalityType DEF TypeOK

\* The initial states are well typed.
LEMMA InitType == Init => TypeOK
<1> SUFFICES ASSUME NEW img \in Image, Closed(img) PROVE TypeOK
  BY DEF Init
<1>1. flen \in Nat
  BY HdrType DEF Closed
<1>2. 0 \in 0..MaxPages /\ 0 \in Nat /\ 1 \in Nat \ {0}
  OBVIOUS
<1> QED BY <1>1, <1>2, PagesEmpty DEF Closed, TypeOK, Labels

\* Every action keeps the types.
LEMMA NextType == TypeOK /\ [Next]_vars => TypeOK'
<1> SUFFICES ASSUME TypeOK, [Next]_vars PROVE TypeOK'
  OBVIOUS
<1> USE DEF TypeOK
<1>1. ASSUME OpenNew PROVE TypeOK'
  BY <1>1, HdrType DEF OpenNew, OpenCommon, histVars, Labels
<1>2. ASSUME OpenExisting PROVE TypeOK'
  BY <1>2, HdrType DEF OpenExisting, OpenCommon, histVars, Labels
<1>3. ASSUME RecoverRecord PROVE TypeOK'
  <2>1. log[ri] \in LogRecord
    BY <1>3 DEF RecoverRecord
  <2>2. fdata' \in Image
    BY <1>3, <2>1 DEF RecoverRecord, LogRecord, Image
  <2> QED BY <1>3, <2>2 DEF RecoverRecord, histVars
<1>4. ASSUME RecoverEnd PROVE TypeOK'
  BY <1>4, HdrType DEF RecoverEnd, histVars, osVars, Labels
<1>5. ASSUME Msync PROVE TypeOK'
  <2>1. disk' \in Image
    BY <1>5 DEF Msync, Image
  <2> QED BY <1>5, <2>1 DEF Msync, Labels
<1>6. ASSUME TruncateLog PROVE TypeOK'
  BY <1>6, PagesEmpty DEF TruncateLog, Labels
<1>7. ASSUME Protect PROVE TypeOK'
  BY <1>7 DEF Protect, osVars, histVars, Labels
<1>8. ASSUME commit PROVE TypeOK'
  BY <1>8 DEF commit, flush_log_buffer, LogOnDisk, Labels
<1>9. ASSUME rollback PROVE TypeOK'
  BY <1>9 DEF rollback, osVars, histVars, Labels
<1>10. ASSUME close PROVE TypeOK'
  <2>1. flen' \in Nat /\ fdata' \in Image /\ disk' \in Image
    <3>1. size \in Nat /\ fdata \in Image /\ disk \in Image /\ flen \in Nat
      OBVIOUS
    <3>2. Cut(fdata, size) \in Image /\ Cut(disk, size) \in Image
      BY <3>1, CutType
    <3>3. \/ flen' = size /\ fdata' = Cut(fdata, size) /\ disk' = Cut(disk, size)
          \/ flen' = flen /\ fdata' = fdata /\ disk' = disk
      BY <1>10 DEF close
    <3> HIDE DEF TypeOK
    <3> QED BY <3>1, <3>2, <3>3
  <2>2. dlog' \in Seq(LogRecord) /\ pend' \in BOOLEAN /\ durable' \in Image
        /\ locked' \subseteq Page
    BY <1>10 DEF close, flush_log_buffer, LogOnDisk
  <2> QED BY <1>10, <2>1, <2>2 DEF close, Labels
<1>11. ASSUME NEW n \in 1..MaxPages+1, set_size(n) PROVE TypeOK'
  <2>1. flen' \in Nat /\ asize' \in Nat /\ fdata' \in Image /\ disk' \in Image
    <3>1. CASE n > asize
      <4>1. PICK a \in n..n+Quantum-1 : /\ asize' = a /\ flen' = a
                                        /\ fdata' = Cut(fdata, a)
                                        /\ disk' = Cut(disk, a)
        BY <1>11, <3>1 DEF set_size
      <4>2. a \in Nat
        OBVIOUS
      <4> QED BY <4>1, <4>2, CutType
    <3> QED BY <1>11, <3>1 DEF set_size
  <2> QED BY <1>11, <2>1 DEF set_size, histVars, Labels
<1>12. ASSUME NEW c \in Content, ExtendHeader(c) PROVE TypeOK'
  <2>1. fdata' \in Image
    BY <1>12 DEF ExtendHeader, Write, Image
  <2> QED BY <1>12, <2>1 DEF ExtendHeader, Write, histVars, Labels
<1>13. ASSUME NEW p \in Page, NEW c \in Content, Store(p, c) PROVE TypeOK'
  <2>1. fdata' \in Image
    BY <1>13 DEF Store, Write, Image
  <2> QED BY <1>13, <2>1 DEF Store, Write, histVars, Labels
<1>14. ASSUME NEW p \in Page, create_shadow_page(p) PROVE TypeOK'
  <2>1. [page |-> p, img |-> fdata[p]] \in LogRecord
    BY DEF LogRecord, Image
  <2>2. log' \in Seq(LogRecord)
    BY <1>14, <2>1 DEF create_shadow_page
  <2>3. maxLocked' \in Nat
    BY <1>14, LockedCount DEF create_shadow_page
  <2> QED BY <1>14, <2>2, <2>3 DEF create_shadow_page, LogOnDisk
<1>15. ASSUME UnlinkLog PROVE TypeOK'
  <2>1. ri' \in Nat \ {0} /\ size' \in 0..MaxPages /\ asize' \in Nat
        /\ maxLocked' \in Nat
    BY <1>15 DEF UnlinkLog, ProcessEnds
  <2>2. log' \in Seq(LogRecord) /\ unsaved' \subseteq Page
    BY <1>15, PagesEmpty DEF UnlinkLog
  <2> QED BY <1>15, <2>1, <2>2 DEF UnlinkLog, ProcessEnds, Labels
<1>16. ASSUME CrashProcess PROVE TypeOK'
  BY <1>16 DEF CrashProcess, ProcessEnds, Labels
<1>17. ASSUME LosePower PROVE TypeOK'
  <2>1. ri' \in Nat \ {0} /\ size' \in 0..MaxPages /\ asize' \in Nat
        /\ maxLocked' \in Nat
    BY <1>17 DEF LosePower, LoseCache, ProcessEnds
  <2>2. torn' \in BOOLEAN /\ logExists' \in BOOLEAN
    BY <1>17, Zenon DEF LosePower, LoseCache
  <2> QED BY <1>17, <2>1, <2>2 DEF LosePower, LoseCache, ProcessEnds, Labels
<1>18. ASSUME NEW p \in Page, WriteBack(p) PROVE TypeOK'
  <2>1. disk' \in Image
    BY <1>18 DEF WriteBack, Image
  <2> QED BY <1>18, <2>1 DEF WriteBack, procVars
<1>19. ASSUME NEW n \in 0..Len(log), WriteBackLog(n) PROVE TypeOK'
  BY <1>19, PagesPrefix DEF WriteBackLog, LogOnDisk, procVars
<1>20. CASE UNCHANGED vars
  BY <1>20 DEF vars, osVars, procVars, histVars
<1> QED
  BY <1>1, <1>2, <1>3, <1>4, <1>5, <1>6, <1>7, <1>8, <1>9, <1>10, <1>11,
     <1>12, <1>13, <1>14, <1>15, <1>16, <1>17, <1>18, <1>19, <1>20
  DEF Next, Open, Recover, Finish, Client, Kernel

-----------------------------------------------------------------------------
(* Invariance of IInv: one lemma per action, one step per conjunct. *)

\* The live pages of an image with a header are the first file_size ones.
LEMMA LiveDef ==
  ASSUME NEW img \in Image, HdrSize(img) > 0
  PROVE  /\ 0 \in Live(img)
         /\ \A p \in Page : p \in Live(img) <=> p < HdrSize(img)
         /\ Live(img) \subseteq Page
BY HdrType DEF Live, Page

\* Live pages of the committed and the durable image (headers only grow).
LEMMA LiveFacts ==
  ASSUME TypeOK, HeaderInv
  PROVE  /\ HdrSize(fdata) \in Nat /\ HdrSize(disk) \in Nat
         /\ HdrSize(committed) \in Nat /\ HdrSize(durable) \in Nat
         /\ HdrSize(committed) > 0 /\ size \in Nat
         /\ 0 \in D /\ 0 \in L /\ D \subseteq L /\ L \subseteq Page
         /\ \A p \in Page : p \in L <=> p < HdrSize(committed)
         /\ \A p \in Page : p \in D <=> p < HdrSize(durable)
         /\ \A p \in Page : p \in Nat
<1>1. /\ HdrSize(fdata) \in Nat /\ HdrSize(disk) \in Nat
      /\ HdrSize(committed) \in Nat /\ HdrSize(durable) \in Nat /\ size \in Nat
  BY HdrType DEF TypeOK
<1>2. HdrSize(durable) > 0 /\ HdrSize(committed) > 0
      /\ HdrSize(durable) <= HdrSize(committed)
  BY <1>1 DEF HeaderInv
<1>3. durable \in Image /\ committed \in Image /\ \A p \in Page : p \in Nat
  BY DEF TypeOK, Page
<1> QED BY <1>1, <1>2, <1>3, LiveDef DEF D, L

\* A page that is not locked may reach the disk at any time: it is as durable
\* has it, or its shadow is on disk.
LEMMA SafeToWrite ==
  ASSUME IInv, ~unlocked, NEW p \in D, p \notin locked
  PROVE  fdata[p] = durable[p] \/ p \in Pages(dlog)
<1>1. p \in L
  BY LiveFacts DEF IInv
<1>2. fdata[p] = committed[p] \/ p \in Pages(log)
  BY <1>1 DEF IInv, CrashRecoverable, Restores, L
<1>3. CASE pend
  BY <1>1, <1>2, <1>3 DEF IInv, PendingInv
<1>4. CASE ~pend
  BY <1>1, <1>2, <1>4 DEF IInv, SyncedInv
<1> QED BY <1>3, <1>4

\* open() without a log protects exactly the committed pages.
LEMMA OpenNewInv == ASSUME IInv, TypeOK', OpenNew PROVE IInv'
<1> USE DEF IInv, TypeOK, OpenNew, OpenCommon, histVars
<1>1. CrashRecoverable'
  BY DEF CrashRecoverable, Restores
<1>2. ShadowOnce'
  BY DEF ShadowOnce, Distinct
<1>3. HeaderInv'
  BY DEF HeaderInv
<1>4. LogInv'
  <2>1. Pages(log) = {} /\ log' = <<>> /\ committed' = committed
    BY PagesEmpty DEF LogInv
  <2>2. rw' \cap L = {} /\ L' = L
    BY LiveFacts DEF HeaderInv, L
  <2> QED BY <2>1, <2>2, PagesEmpty DEF LogInv, Working, Opening
<1>5. ReplayInv'
  BY DEF ReplayInv, L
<1>6. DiskInv'
  BY DEF DiskInv, L
<1>7. DurableInv'
  BY DEF DurableInv, D
<1>8. SyncedInv'
  BY DEF SyncedInv, L
<1>9. PendingInv'
  BY DEF PendingInv, L, D
<1> QED BY <1>1, <1>2, <1>3, <1>4, <1>5, <1>6, <1>7, <1>8, <1>9

\* open() with a log starts recovery on the file as it is.
LEMMA OpenExistingInv == ASSUME IInv, TypeOK', OpenExisting PROVE IInv'
<1> USE DEF IInv, TypeOK, OpenExisting, OpenCommon, histVars
<1>1. CrashRecoverable'
  BY DEF CrashRecoverable, Restores
<1>2. ShadowOnce'
  BY DEF ShadowOnce, Distinct
<1>3. HeaderInv'
  BY DEF HeaderInv
<1>4. LogInv'
  BY DEF LogInv, L, Working, Opening
<1>5. ReplayInv'
  BY DEF ReplayInv, L
<1>6. DiskInv'
  BY DEF DiskInv, L
<1>7. DurableInv'
  BY DEF DurableInv, D
<1>8. SyncedInv'
  BY DEF SyncedInv, L
<1>9. PendingInv'
  BY DEF PendingInv, L, D
<1> QED BY <1>1, <1>2, <1>3, <1>4, <1>5, <1>6, <1>7, <1>8, <1>9

\* recover_file() copies one record back: only committed content reappears.
LEMMA RecoverRecordInv == ASSUME IInv, TypeOK', RecoverRecord PROVE IInv'
<1> USE DEF IInv, TypeOK, RecoverRecord, histVars
<1>a. log[ri] \in LogRecord /\ ri \in DOMAIN log
  OBVIOUS
<1>b. log[ri].page \in L => log[ri].img = committed[log[ri].page]
  BY <1>a DEF CrashRecoverable, Restores, L
<1>c. \A p \in Page : fdata'[p] = IF p = log[ri].page THEN log[ri].img ELSE fdata[p]
  BY DEF Image
<1>1. CrashRecoverable'
  BY DEF CrashRecoverable, Restores
<1>2. ShadowOnce'
  BY DEF ShadowOnce, Distinct
<1>3. HeaderInv'
  <2>1. HdrSize(fdata') \in {HdrSize(fdata), HdrSize(committed)}
    <3>1. 0 \in L /\ 0 \in Page
      BY LiveFacts
    <3>2. CASE log[ri].page = 0
      BY <3>1, <3>2, <1>b, <1>c DEF HdrSize
    <3>3. CASE log[ri].page # 0
      BY <3>1, <3>3, <1>c DEF HdrSize
    <3> QED BY <3>2, <3>3
  <2> QED BY <2>1, LiveFacts DEF HeaderInv
<1>4. LogInv'
  BY DEF LogInv, L, Working, Opening
<1>5. ReplayInv'
  <2>1. L' = L /\ L \subseteq Page
    BY LiveFacts DEF L
  <2>2. ASSUME NEW i \in DOMAIN log, i < ri', log[i].page \in L
        PROVE  fdata'[log[i].page] = committed[log[i].page]
    <3>1. log[i].page \in Page /\ i \in Nat /\ ri \in Nat
      BY <2>1, <2>2
    <3>2. CASE log[i].page = log[ri].page
      BY <3>1, <3>2, <2>2, <1>b, <1>c
    <3>3. CASE log[i].page # log[ri].page
      <4>1. i < ri
        BY <3>1, <3>3, <2>2
      <4> QED BY <4>1, <3>1, <3>3, <2>2, <1>c DEF ReplayInv
    <3> QED BY <3>2, <3>3
  <2>3. ri' <= Len(log') + 1
    OBVIOUS
  <2> QED BY <2>1, <2>2, <2>3 DEF ReplayInv
<1>6. DiskInv'
  BY DEF DiskInv, L
<1>7. DurableInv'
  BY DEF DurableInv, D
<1>8. SyncedInv'
  BY DEF SyncedInv, L
<1>9. PendingInv'
  BY DEF PendingInv, L, D
<1> QED BY <1>1, <1>2, <1>3, <1>4, <1>5, <1>6, <1>7, <1>8, <1>9

\* At the end of the log every committed page is back.
LEMMA RecoverEndInv == ASSUME IInv, TypeOK', RecoverEnd PROVE IInv'
<1> USE DEF IInv, TypeOK, RecoverEnd, osVars, histVars
<1>1. CrashRecoverable'
  BY DEF CrashRecoverable, Restores
<1>2. ShadowOnce'
  BY DEF ShadowOnce, Distinct
<1>3. HeaderInv'
  BY DEF HeaderInv
<1>4. LogInv'
  BY DEF LogInv, L, Working, Opening
<1>5. ReplayInv'
  <2>1. \A p \in L : fdata[p] = committed[p]
    <3> SUFFICES ASSUME NEW p \in L, p \in Pages(log) PROVE fdata[p] = committed[p]
      BY DEF CrashRecoverable, Restores, L
    <3>1. PICK i \in DOMAIN log : log[i].page = p
      BY DEF Pages
    <3>2. i < ri
      OBVIOUS
    <3> QED BY <3>1, <3>2 DEF ReplayInv
  <2>2. pc' \in {"rmsync", "ready"} /\ L' = L
    BY DEF L
  <2> QED BY <2>1, <2>2 DEF ReplayInv
<1>6. DiskInv'
  BY DEF DiskInv, L
<1>7. DurableInv'
  BY DEF DurableInv, D
<1>8. SyncedInv'
  BY DEF SyncedInv, L
<1>9. PendingInv'
  BY DEF PendingInv, L, D
<1> QED BY <1>1, <1>2, <1>3, <1>4, <1>5, <1>6, <1>7, <1>8, <1>9

\* rollback() keeps the log and the writable pages.
LEMMA RollbackInv == ASSUME IInv, TypeOK', rollback PROVE IInv'
<1> USE DEF IInv, TypeOK, rollback, osVars, histVars
<1>1. CrashRecoverable'
  BY DEF CrashRecoverable, Restores
<1>2. ShadowOnce'
  BY DEF ShadowOnce, Distinct
<1>3. HeaderInv'
  BY DEF HeaderInv
<1>4. LogInv'
  BY DEF LogInv, L, Working, Opening
<1>5. ReplayInv'
  BY DEF ReplayInv, L
<1>6. DiskInv'
  BY DEF DiskInv, L
<1>7. DurableInv'
  BY DEF DurableInv, D
<1>8. SyncedInv'
  BY DEF SyncedInv, L
<1>9. PendingInv'
  BY DEF PendingInv, L, D
<1> QED BY <1>1, <1>2, <1>3, <1>4, <1>5, <1>6, <1>7, <1>8, <1>9

\* commit() first flushes the log if pages are locked.
LEMMA CommitInv == ASSUME IInv, TypeOK', commit PROVE IInv'
<1> USE DEF IInv, TypeOK, commit, flush_log_buffer, LogOnDisk
<1>1. CrashRecoverable'
  BY DEF CrashRecoverable, Restores
<1>2. ShadowOnce'
  BY DEF ShadowOnce, Distinct
<1>3. HeaderInv'
  <2>1. durable' \in {durable, committed}
    OBVIOUS
  <2> QED BY <2>1, LiveFacts DEF HeaderInv
<1>4. LogInv'
  BY DEF LogInv, L, Working, Opening
<1>5. ReplayInv'
  BY DEF ReplayInv, L
<1>6. DiskInv'
  BY DEF DiskInv, L
<1>7. DurableInv'
  <2>1. CASE locked = {}
    BY <2>1 DEF DurableInv, D
  <2>2. CASE locked # {}
    <3>1. dlog' = log /\ durable' = committed /\ D' = L /\ disk' = disk
          /\ unsaved' = unsaved
      BY <2>2 DEF L, D
    <3>2. \A i \in DOMAIN dlog' :
            dlog'[i].page \in D' => dlog'[i].img = durable'[dlog'[i].page]
      BY <3>1 DEF CrashRecoverable, Restores, L
    <3>3. \A p \in D' : \/ disk'[p] = durable'[p]
                        \/ p \in Pages(dlog') \/ p \in unsaved'
      BY <3>1 DEF DiskInv
    <3>4. Distinct(dlog')
      BY <3>1 DEF ShadowOnce
    <3> QED BY <3>2, <3>3, <3>4 DEF DurableInv
  <2> QED BY <2>1, <2>2
<1>8. SyncedInv'
  BY DEF SyncedInv, L
<1>9. PendingInv'
  BY DEF PendingInv, L, D
<1> QED BY <1>1, <1>2, <1>3, <1>4, <1>5, <1>6, <1>7, <1>8, <1>9

\* msync() may write changed pages: their shadows are on disk by now.
LEMMA MsyncInv == ASSUME IInv, TypeOK', Msync PROVE IInv'
<1> USE DEF IInv, TypeOK, Msync
<1>a. \A p \in Page : disk'[p] = IF p < size THEN fdata[p] ELSE disk[p]
  BY DEF Image
<1>b. L \subseteq Page /\ L' = L /\ D' = D /\ D \subseteq L /\ 0 \in L
  BY LiveFacts DEF L, D
<1>c. \A p \in L : disk'[p] = fdata[p]
  <2>1. \A p \in L : p \in Page /\ p < HdrSize(committed)
    BY LiveFacts
  <2>2. HdrSize(committed) <= size /\ HdrSize(committed) \in Nat /\ size \in Nat
    <3>1. HdrSize(committed) <= HdrSize(fdata) /\ HdrSize(fdata) <= size
      BY DEF HeaderInv
    <3>2. HdrSize(committed) \in Nat /\ HdrSize(fdata) \in Nat /\ size \in Nat
      BY LiveFacts
    <3> HIDE DEF IInv, TypeOK, Msync
    <3> QED BY <3>1, <3>2
  <2>3. \A p \in L : p \in Nat
    BY LiveFacts
  <2>4. \A p \in L : p < size
    <3> HIDE DEF IInv, TypeOK, Msync
    <3> QED BY <2>1, <2>2, <2>3
  <2> QED BY <1>a, <2>1, <2>4
<1>d. locked = {}
  BY DEF LogInv
<1>1. CrashRecoverable'
  BY DEF CrashRecoverable, Restores
<1>2. ShadowOnce'
  BY DEF ShadowOnce, Distinct
<1>3. HeaderInv'
  <2>1. HdrSize(disk') = HdrSize(fdata)
    BY <1>b, <1>c DEF HdrSize
  <2> QED BY <2>1, LiveFacts DEF HeaderInv
<1>4. LogInv'
  BY DEF LogInv, L, Working, Opening
<1>5. ReplayInv'
  <2>1. \A p \in Page : p < size => disk'[p] = fdata[p] /\ p \notin unsaved'
    <3>1. \A p \in unsaved' : p >= size
      OBVIOUS
    <3>2. \A p \in Page : p \in Nat /\ size \in Nat
      BY LiveFacts
    <3>3. \A p \in Page : p < size => p \notin unsaved'
      BY <3>1, <3>2
    <3> QED BY <1>a, <3>3
  <2> QED BY <2>1, <1>b DEF ReplayInv
<1>6. DiskInv'
  BY <1>b, <1>c DEF DiskInv, CrashRecoverable, Restores, L
<1>7. DurableInv'
  <2>1. ~unlocked => \A p \in D : disk'[p] = durable[p] \/ p \in Pages(dlog)
    BY <1>b, <1>c, <1>d, SafeToWrite
  <2> QED BY <2>1, <1>b DEF DurableInv
<1>8. SyncedInv'
  BY DEF SyncedInv, L
<1>9. PendingInv'
  <2>1. pend /\ ~unlocked => \A p \in L : disk'[p] = committed[p]
    BY <1>c, <1>d DEF PendingInv, CrashRecoverable, Restores, L
  <2> QED BY <2>1, <1>b DEF PendingInv
<1> QED BY <1>1, <1>2, <1>3, <1>4, <1>5, <1>6, <1>7, <1>8, <1>9

\* Truncating the log is the commit point.
LEMMA TruncateLogInv == ASSUME IInv, TypeOK', TruncateLog PROVE IInv'
<1> USE DEF IInv, TypeOK, TruncateLog
<1>a. HdrSize(committed') = HdrSize(fdata)
  <2>1. pc = "rtrunc" => fdata[0] = committed[0]
    BY LiveFacts DEF ReplayInv
  <2> QED BY <2>1 DEF HdrSize
<1>b. \A p \in Page : p \in L' <=> p < HdrSize(fdata)
  BY <1>a, LiveFacts, LiveDef DEF L, HeaderInv
<1>c. \A p \in L' : p \in Page /\ fdata[p] = committed'[p]
  <2>1. ASSUME pc = "rtrunc" PROVE L' = L
    BY <2>1 DEF L
  <2> QED BY <2>1 DEF ReplayInv, L, Live
<1>d. \A p \in L' : disk[p] = committed'[p]
  BY <1>b, <1>c, LiveFacts DEF ReplayInv, HeaderInv
<1>e. D' = D /\ locked = {} /\ D \subseteq L /\ Pages(log') = {}
  BY LiveFacts, PagesEmpty DEF D, LogInv
<1>f. \A p \in D : fdata[p] = durable[p] \/ p \in Pages(dlog)
  <2>1. CASE pc = "trunc"
    BY <2>1, <1>e, SafeToWrite DEF LogInv, Opening
  <2>2. CASE pc = "rtrunc"
    BY <2>2, <1>e DEF ReplayInv, SyncedInv, PendingInv
  <2> QED BY <2>1, <2>2
<1>1. CrashRecoverable'
  BY <1>c, PagesEmpty DEF CrashRecoverable, Restores, L
<1>2. ShadowOnce'
  BY DEF ShadowOnce, Distinct
<1>3. HeaderInv'
  <2>1. HdrSize(disk) = HdrSize(fdata)
    <3>1. disk[0] = fdata[0]
      BY LiveFacts DEF HeaderInv, ReplayInv
    <3> QED BY <3>1 DEF HdrSize
  <2> QED BY <2>1, <1>a, LiveFacts DEF HeaderInv
<1>4. LogInv'
  BY DEF LogInv, L, Working, Opening
<1>5. ReplayInv'
  BY <1>c DEF ReplayInv
<1>6. DiskInv'
  BY <1>d DEF DiskInv
<1>7. DurableInv'
  <2>1. \A p \in D : disk[p] = fdata[p]
    BY <1>e, LiveFacts DEF ReplayInv, HeaderInv
  <2> QED BY <2>1, <1>e, <1>f DEF DurableInv
<1>8. SyncedInv'
  BY DEF SyncedInv, L
<1>9. PendingInv'
  <2>1. \A p \in D : committed'[p] = durable[p] \/ p \in Pages(dlog)
    <3>1. \A p \in D : p \in L'
      BY <1>b, <1>e, LiveFacts DEF HeaderInv
    <3> QED BY <3>1, <1>c, <1>f
  <2> QED BY <2>1, <1>d, <1>e DEF PendingInv
<1> QED BY <1>1, <1>2, <1>3, <1>4, <1>5, <1>6, <1>7, <1>8, <1>9

\* mprotect() covers every committed page.
LEMMA ProtectInv == ASSUME IInv, TypeOK', Protect PROVE IInv'
<1> USE DEF IInv, TypeOK, Protect, osVars, histVars
<1>1. CrashRecoverable'
  BY DEF CrashRecoverable, Restores
<1>2. ShadowOnce'
  BY DEF ShadowOnce, Distinct
<1>3. HeaderInv'
  BY DEF HeaderInv
<1>4. LogInv'
  <2>1. rw' \cap L' = {} /\ log' = <<>> /\ Pages(log') = {}
    BY LiveFacts, PagesEmpty DEF HeaderInv, LogInv, L
  <2> QED BY <2>1 DEF LogInv, L, Working, Opening
<1>5. ReplayInv'
  BY DEF ReplayInv, L
<1>6. DiskInv'
  BY DEF DiskInv, L
<1>7. DurableInv'
  BY DEF DurableInv, D
<1>8. SyncedInv'
  BY DEF SyncedInv, L
<1>9. PendingInv'
  BY DEF PendingInv, L, D
<1> QED BY <1>1, <1>2, <1>3, <1>4, <1>5, <1>6, <1>7, <1>8, <1>9

\* set_size() never cuts a committed page off.
LEMMA SetSizeInv == ASSUME IInv, TypeOK', NEW n \in 1..MaxPages+1, set_size(n) PROVE IInv'
<1> USE DEF IInv, TypeOK, set_size, histVars
<1>a. \A q \in Page : q < HdrSize(fdata) =>
        fdata'[q] = fdata[q] /\ disk'[q] = disk[q]
  <2>1. CASE n > asize
    <3>1. PICK a \in n..n+Quantum-1 : /\ fdata' = Cut(fdata, a)
                                      /\ disk' = Cut(disk, a)
      BY <2>1
    <3>2. a \in Nat /\ \A q \in Page : q < HdrSize(fdata) => q < a
      BY LiveFacts
    <3>3. \A q \in Page : q < a => Cut(fdata, a)[q] = fdata[q] /\ Cut(disk, a)[q] = disk[q]
      BY <3>2, CutType
    <3> QED BY <3>1, <3>2, <3>3
  <2> QED BY <2>1
<1>b. L' = L /\ L \subseteq Page /\ D \subseteq L /\ 0 \in L
      /\ \A q \in L : q < HdrSize(fdata)
  BY LiveFacts DEF L, HeaderInv
<1>c. \A q \in L : fdata'[q] = fdata[q] /\ disk'[q] = disk[q]
  BY <1>a, <1>b
<1>d. HdrSize(fdata') = HdrSize(fdata) /\ HdrSize(disk') = HdrSize(disk)
  BY <1>b, <1>c DEF HdrSize
<1>e. D' = D
  BY DEF D
<1>1. CrashRecoverable'
  BY <1>b, <1>c DEF CrashRecoverable, Restores, L
<1>2. ShadowOnce'
  BY DEF ShadowOnce, Distinct
<1>3. HeaderInv'
  BY <1>d, LiveFacts DEF HeaderInv
<1>4. LogInv'
  BY DEF LogInv, L, Working, Opening
<1>5. ReplayInv'
  BY DEF ReplayInv, L
<1>6. DiskInv'
  BY <1>b, <1>c DEF DiskInv
<1>7. DurableInv'
  BY <1>b, <1>c, <1>e DEF DurableInv
<1>8. SyncedInv'
  BY DEF SyncedInv, L
<1>9. PendingInv'
  BY <1>b, <1>c, <1>e DEF PendingInv
<1> QED BY <1>1, <1>2, <1>3, <1>4, <1>5, <1>6, <1>7, <1>8, <1>9

\* The new file_size is stored in a page that has its shadow.
LEMMA ExtendHeaderInv == ASSUME IInv, TypeOK', NEW c \in Content, ExtendHeader(c) PROVE IInv'
<1> USE DEF IInv, TypeOK, ExtendHeader, Write, histVars
<1>a. 0 \in L /\ L' = L /\ 0 \in Page /\ L \subseteq Page
  BY LiveFacts DEF L
<1>b. \A q \in Page : fdata'[q] = IF q = 0 THEN c ELSE fdata[q]
  BY DEF Image
<1>1. CrashRecoverable'
  <2>1. 0 \in Pages(log)
    BY <1>a DEF LogInv, Working
  <2> QED BY <2>1, <1>a, <1>b DEF CrashRecoverable, Restores, L
<1>2. ShadowOnce'
  BY DEF ShadowOnce, Distinct
<1>3. HeaderInv'
  <2>1. HdrSize(fdata') = size
    BY <1>a, <1>b DEF HdrSize
  <2> QED BY <2>1, LiveFacts DEF HeaderInv
<1>4. LogInv'
  BY DEF LogInv, L, Working, Opening
<1>5. ReplayInv'
  BY DEF ReplayInv, L
<1>6. DiskInv'
  BY DEF DiskInv, L
<1>7. DurableInv'
  BY DEF DurableInv, D
<1>8. SyncedInv'
  BY DEF SyncedInv, L
<1>9. PendingInv'
  BY DEF PendingInv, L, D
<1> QED BY <1>1, <1>2, <1>3, <1>4, <1>5, <1>6, <1>7, <1>8, <1>9

\* A store hits a page that has its shadow, or is not committed.
LEMMA StoreInv == ASSUME IInv, TypeOK', NEW p \in Page, NEW c \in Content, Store(p, c) PROVE IInv'
<1> USE DEF IInv, TypeOK, Store, Write, histVars
<1>a. L' = L /\ 0 \in Page /\ L \subseteq Page
  BY LiveFacts DEF L
<1>b. \A q \in Page : fdata'[q] = IF q = p THEN c ELSE fdata[q]
  BY DEF Image
<1>1. CrashRecoverable'
  <2>1. p \in L => p \in Pages(log)
    BY DEF LogInv, Working
  <2> QED BY <2>1, <1>a, <1>b DEF CrashRecoverable, Restores, L
<1>2. ShadowOnce'
  BY DEF ShadowOnce, Distinct
<1>3. HeaderInv'
  <2>1. HdrSize(fdata') = HdrSize(fdata)
    BY <1>a, <1>b DEF HdrSize
  <2> QED BY <2>1, LiveFacts DEF HeaderInv
<1>4. LogInv'
  BY DEF LogInv, L, Working, Opening
<1>5. ReplayInv'
  BY DEF ReplayInv, L
<1>6. DiskInv'
  BY DEF DiskInv, L
<1>7. DurableInv'
  BY DEF DurableInv, D
<1>8. SyncedInv'
  BY DEF SyncedInv, L
<1>9. PendingInv'
  BY DEF PendingInv, L, D
<1> QED BY <1>1, <1>2, <1>3, <1>4, <1>5, <1>6, <1>7, <1>8, <1>9

\* create_shadow_page() saves the committed content of the page.
LEMMA ShadowPageInv == ASSUME IInv, TypeOK', NEW p \in Page, create_shadow_page(p) PROVE IInv'
<1> USE DEF IInv, TypeOK, create_shadow_page, Touches, LogOnDisk
<1> DEFINE r == [page |-> p, img |-> fdata[p]]
<1>a. r \in LogRecord /\ r.page = p /\ r.img = fdata[p]
  BY DEF LogRecord, Image
<1> HIDE DEF r
<1>b. /\ Len(log') = Len(log) + 1
      /\ \A i \in 1..Len(log) : log'[i] = log[i]
      /\ log'[Len(log) + 1] = r
  BY <1>a DEF r
<1>c. Pages(log') = Pages(log) \cup {p}
  BY <1>a, PagesAppend DEF r
<1>d. DOMAIN log = 1..Len(log) /\ DOMAIN log' = 1..Len(log)+1 /\ Len(log) \in Nat
  BY <1>b
<1>e. L' = L /\ L \subseteq Page /\ p \notin Pages(log) /\ ~unlocked
  BY LiveFacts DEF L, LogInv, Working, Opening
<1>f. p \in L => fdata[p] = committed[p]
  BY <1>e DEF CrashRecoverable, Restores, L
<1>g. \/ dlog' = log' /\ durable' = committed /\ ~pend' /\ locked' = {}
      \/ dlog' = dlog /\ durable' = durable /\ pend' = pend
         /\ locked' = locked \cup {p}
  <2>1. maxLocked = 0 => locked = {}
    BY DEF LogInv
  <2> QED BY <2>1
<1>1. CrashRecoverable'
  <2>1. \A i \in DOMAIN log' :
          log'[i].page \in L => log'[i].img = committed[log'[i].page]
    BY <1>a, <1>b, <1>d, <1>f DEF CrashRecoverable, Restores, L
  <2>2. \A q \in L : fdata[q] = committed[q] \/ q \in Pages(log')
    BY <1>c DEF CrashRecoverable, Restores, L
  <2> QED BY <2>1, <2>2 DEF CrashRecoverable, Restores, L
<1>2. ShadowOnce'
  <2>1. \A i \in 1..Len(log) : log'[i].page # p
    BY <1>b, <1>d, <1>e DEF Pages
  <2>2. log'[Len(log) + 1].page = p
    BY <1>a, <1>b
  <2> QED BY <2>1, <2>2, <1>b, <1>d DEF ShadowOnce, Distinct
<1>3. HeaderInv'
  <2>1. durable' \in {durable, committed}
    BY <1>g
  <2> QED BY <2>1, LiveFacts DEF HeaderInv
<1>4. LogInv'
  <2>1. maxLocked' = 0 => locked' = {}
    BY LockedCount DEF LogInv
  <2> QED BY <2>1, <1>c, <1>e DEF LogInv, Working, Opening
<1>5. ReplayInv'
  BY DEF ReplayInv, L
<1>6. DiskInv'
  BY <1>c, <1>e DEF DiskInv
<1>7. DurableInv'
  <2>1. CASE dlog' = log' /\ durable' = committed
    <3>1. D' = L
      BY <2>1 DEF D, L
    <3>2. Distinct(dlog')
      BY <2>1, <1>2 DEF ShadowOnce
    <3> QED BY <2>1, <3>1, <3>2, <1>1, <1>6, <1>e
        DEF CrashRecoverable, Restores, DiskInv, DurableInv, L
  <2>2. CASE dlog' = dlog /\ durable' = durable
    BY <2>2 DEF DurableInv, D
  <2> QED BY <2>1, <2>2, <1>g
<1>8. SyncedInv'
  <2>1. CASE dlog' = log' /\ durable' = committed
    BY <2>1 DEF SyncedInv
  <2>2. CASE dlog' = dlog /\ durable' = durable /\ pend' = pend
             /\ locked' = locked \cup {p}
    BY <2>2, <1>b, <1>c, <1>d, <1>e DEF SyncedInv
  <2> QED BY <2>1, <2>2, <1>g
<1>9. PendingInv'
  <2>1. CASE pend' = pend /\ dlog' = dlog /\ durable' = durable
             /\ locked' = locked \cup {p}
    BY <2>1, <1>c, <1>e DEF PendingInv, D
  <2> QED BY <2>1, <1>g DEF PendingInv
<1> QED BY <1>1, <1>2, <1>3, <1>4, <1>5, <1>6, <1>7, <1>8, <1>9

\* close() flushes the log and cuts the file at its size.
LEMMA CloseInv == ASSUME IInv, TypeOK', close PROVE IInv'
<1> USE DEF IInv, TypeOK, close, flush_log_buffer, LogOnDisk
<1>a. \A q \in Page : q < HdrSize(fdata) =>
        fdata'[q] = fdata[q] /\ disk'[q] = disk[q]
  <2>1. size \in Nat /\ \A q \in Page : q < HdrSize(fdata) => q < size
    BY LiveFacts DEF HeaderInv
  <2>2. \A q \in Page : q < size =>
          Cut(fdata, size)[q] = fdata[q] /\ Cut(disk, size)[q] = disk[q]
    BY <2>1, CutType
  <2> QED BY <2>1, <2>2

<1>b. L' = L /\ L \subseteq Page /\ D \subseteq L /\ 0 \in L
      /\ \A q \in L : q < HdrSize(fdata)
  BY LiveFacts DEF L, HeaderInv
<1>c. \A q \in L : fdata'[q] = fdata[q] /\ disk'[q] = disk[q]
  BY <1>a, <1>b
<1>d. HdrSize(fdata') = HdrSize(fdata) /\ HdrSize(disk') = HdrSize(disk)
  BY <1>b, <1>c DEF HdrSize
<1>1. CrashRecoverable'
  BY <1>b, <1>c DEF CrashRecoverable, Restores, L
<1>2. ShadowOnce'
  BY DEF ShadowOnce, Distinct
<1>3. HeaderInv'
  <2>1. durable' \in {durable, committed}
    OBVIOUS
  <2> QED BY <2>1, <1>d, LiveFacts DEF HeaderInv
<1>4. LogInv'
  BY DEF LogInv, L, Working, Opening
<1>5. ReplayInv'
  BY DEF ReplayInv, L
<1>6. DiskInv'
  BY <1>b, <1>c DEF DiskInv
<1>7. DurableInv'
  <2>1. CASE locked = {}
    <3>1. D' = D
      BY <2>1 DEF D
    <3> QED BY <2>1, <3>1, <1>b, <1>c DEF DurableInv
  <2>2. CASE locked # {}
    <3>1. dlog' = log /\ durable' = committed /\ D' = L /\ unsaved' = unsaved
      BY <2>2 DEF L, D
    <3>2. \A i \in DOMAIN dlog' :
            dlog'[i].page \in D' => dlog'[i].img = durable'[dlog'[i].page]
      BY <3>1 DEF CrashRecoverable, Restores, L
    <3>3. \A p \in D' : \/ disk'[p] = durable'[p]
                        \/ p \in Pages(dlog') \/ p \in unsaved'
      BY <3>1, <1>c DEF DiskInv
    <3>4. Distinct(dlog')
      BY <3>1 DEF ShadowOnce
    <3> QED BY <3>2, <3>3, <3>4 DEF DurableInv
  <2> QED BY <2>1, <2>2
<1>8. SyncedInv'
  BY DEF SyncedInv, L
<1>9. PendingInv'
  <2>1. CASE locked = {}
    <3>1. D' = D
      BY <2>1 DEF D
    <3> QED BY <2>1, <3>1, <1>b, <1>c DEF PendingInv
  <2> QED BY <2>1 DEF PendingInv
<1> QED BY <1>1, <1>2, <1>3, <1>4, <1>5, <1>6, <1>7, <1>8, <1>9

\* Removing the log commits; the pages not yet on disk are unsaved.
LEMMA UnlinkLogInv == ASSUME IInv, TypeOK', UnlinkLog PROVE IInv'
<1> USE DEF IInv, TypeOK, UnlinkLog, ProcessEnds
<1>a. \A p \in Page : p \in L' <=> p < HdrSize(fdata)
  <2>1. L' = Live(fdata)
    BY DEF L
  <2>2. fdata \in Image /\ HdrSize(fdata) > 0
    BY LiveFacts DEF HeaderInv
  <2> QED BY <2>1, <2>2, LiveDef
<1>b. L' \subseteq Page /\ D \subseteq L' /\ D' = D
  BY <1>a, LiveFacts DEF L, D, HeaderInv, Live
<1>c. ~unlocked /\ locked = {} /\ Pages(log') = {}
  BY PagesEmpty DEF LogInv, Opening
<1>d. \A p \in Page : disk[p] = committed'[p] \/ p \in unsaved'
  OBVIOUS
<1>e. \A p \in D : committed'[p] = durable[p] \/ p \in Pages(dlog)
  BY <1>c, SafeToWrite
<1>1. CrashRecoverable'
  BY DEF CrashRecoverable, Restores
<1>2. ShadowOnce'
  BY DEF ShadowOnce, Distinct
<1>3. HeaderInv'
  <2>1. HdrSize(committed') = HdrSize(fdata)
    OBVIOUS
  <2>2. HdrSize(disk) = HdrSize(fdata) \/ 0 \in unsaved'
    BY <1>d, LiveFacts DEF HdrSize
  <2> QED BY <2>1, <2>2, LiveFacts DEF HeaderInv
<1>4. LogInv'
  BY DEF LogInv, L, Working, Opening
<1>5. ReplayInv'
  BY DEF ReplayInv, L
<1>6. DiskInv'
  BY <1>b, <1>d DEF DiskInv
<1>7. DurableInv'
  BY <1>b, <1>d, <1>e DEF DurableInv
<1>8. SyncedInv'
  BY DEF SyncedInv, L
<1>9. PendingInv'
  BY <1>b, <1>c, <1>d, <1>e DEF PendingInv
<1> QED BY <1>1, <1>2, <1>3, <1>4, <1>5, <1>6, <1>7, <1>8, <1>9

\* A crash of the process leaves files alone.
LEMMA CrashProcessInv == ASSUME IInv, TypeOK', CrashProcess PROVE IInv'
<1> USE DEF IInv, TypeOK, CrashProcess, ProcessEnds
<1>1. CrashRecoverable'
  BY DEF CrashRecoverable, Restores
<1>2. ShadowOnce'
  BY DEF ShadowOnce, Distinct
<1>3. HeaderInv'
  BY DEF HeaderInv
<1>4. LogInv'
  BY DEF LogInv, L, Working, Opening
<1>5. ReplayInv'
  BY DEF ReplayInv, L
<1>6. DiskInv'
  BY DEF DiskInv, L
<1>7. DurableInv'
  BY DEF DurableInv, D
<1>8. SyncedInv'
  BY DEF SyncedInv, L
<1>9. PendingInv'
  BY DEF PendingInv, L, D
<1> QED BY <1>1, <1>2, <1>3, <1>4, <1>5, <1>6, <1>7, <1>8, <1>9

\* A power loss leaves the durable image and its log.
LEMMA LosePowerInv == ASSUME IInv, TypeOK', LosePower PROVE IInv'
<1> USE DEF IInv, TypeOK, LosePower, LoseCache, ProcessEnds
<1>a. L' = D /\ D' = D /\ Pages(log') = Pages(dlog)
  BY DEF L, D
<1>b. \A p \in D : disk[p] = durable[p] \/ p \in Pages(dlog)
  BY DEF DurableInv
<1>1. CrashRecoverable'
  BY <1>a, <1>b DEF CrashRecoverable, Restores, DurableInv, L, D
<1>2. ShadowOnce'
  BY DEF ShadowOnce, DurableInv
<1>3. HeaderInv'
  <2>1. HdrSize(fdata') = HdrSize(disk) /\ HdrSize(committed') = HdrSize(durable)
    OBVIOUS
  <2> QED BY <2>1, LiveFacts DEF HeaderInv
<1>4. LogInv'
  BY DEF LogInv, L, Working, Opening
<1>5. ReplayInv'
  BY DEF ReplayInv, L
<1>6. DiskInv'
  BY <1>a, <1>b DEF DiskInv
<1>7. DurableInv'
  BY DEF DurableInv, D
<1>8. SyncedInv'
  BY DEF SyncedInv, L
<1>9. PendingInv'
  BY DEF PendingInv, L, D
<1> QED BY <1>1, <1>2, <1>3, <1>4, <1>5, <1>6, <1>7, <1>8, <1>9

\* The kernel writes a page that is not locked.
LEMMA WriteBackInv == ASSUME IInv, TypeOK', NEW p \in Page, WriteBack(p) PROVE IInv'
<1> USE DEF IInv, TypeOK, WriteBack, procVars
<1>a. \A q \in Page : disk'[q] = IF q = p THEN fdata[q] ELSE disk[q]
  BY DEF Image
<1>b. L' = L /\ D' = D /\ L \subseteq Page /\ D \subseteq L /\ 0 \in L
  BY LiveFacts DEF L, D
<1>c. p \in L => fdata[p] = committed[p] \/ p \in Pages(log)
  BY DEF CrashRecoverable, Restores, L
<1>1. CrashRecoverable'
  BY DEF CrashRecoverable, Restores
<1>2. ShadowOnce'
  BY DEF ShadowOnce, Distinct
<1>3. HeaderInv'
  <2>1. HdrSize(disk') = IF p = 0 THEN HdrSize(fdata) ELSE HdrSize(disk)
    BY <1>a, <1>b DEF HdrSize
  <2> QED BY <2>1, LiveFacts DEF HeaderInv
<1>4. LogInv'
  BY DEF LogInv, L, Working, Opening
<1>5. ReplayInv'
  BY <1>a, <1>b DEF ReplayInv
<1>6. DiskInv'
  BY <1>a, <1>b, <1>c DEF DiskInv
<1>7. DurableInv'
  <2>1. ~unlocked /\ p \in D => fdata[p] = durable[p] \/ p \in Pages(dlog)
    BY SafeToWrite
  <2> QED BY <2>1, <1>a, <1>b DEF DurableInv
<1>8. SyncedInv'
  BY DEF SyncedInv, L
<1>9. PendingInv'
  BY <1>a, <1>b, <1>c DEF PendingInv
<1> QED BY <1>1, <1>2, <1>3, <1>4, <1>5, <1>6, <1>7, <1>8, <1>9

\* The kernel writes part of the log.
LEMMA WriteBackLogInv == ASSUME IInv, TypeOK', NEW n \in 0..Len(log), WriteBackLog(n) PROVE IInv'
<1> USE DEF IInv, TypeOK, WriteBackLog, LogOnDisk, procVars
<1>a. /\ Len(dlog') = n /\ Pages(dlog') \subseteq Pages(log)
      /\ \A i \in 1..n : dlog'[i] = log[i]
  BY PagesPrefix
<1>b. DOMAIN dlog' = 1..n /\ 1..n \subseteq DOMAIN log
  BY <1>a
<1>c. D' = L /\ L' = L /\ D \subseteq L
  BY LiveFacts DEF D, L
<1>d. ~pend => Pages(dlog) \subseteq Pages(dlog') /\ D = L
  <2>1. ASSUME ~pend, NEW i \in DOMAIN dlog PROVE i \in 1..n /\ dlog'[i] = dlog[i]
    <3>1. DOMAIN dlog = 1..Len(dlog) /\ Len(dlog) \in Nat /\ Len(dlog) <= n
      BY <2>1
    <3> QED BY <2>1, <3>1, <1>a DEF SyncedInv
  <2>2. ~pend => Pages(dlog) \subseteq Pages(dlog')
    BY <2>1, <1>b DEF Pages
  <2>3. ~pend => D = L
    BY DEF SyncedInv, D, L
  <2> QED BY <2>2, <2>3
<1>e. n = Len(log) => dlog' = log
  BY <1>a
<1>1. CrashRecoverable'
  BY DEF CrashRecoverable, Restores
<1>2. ShadowOnce'
  BY DEF ShadowOnce, Distinct
<1>3. HeaderInv'
  BY LiveFacts DEF HeaderInv
<1>4. LogInv'
  BY DEF LogInv, L, Working, Opening
<1>5. ReplayInv'
  BY DEF ReplayInv, L
<1>6. DiskInv'
  BY DEF DiskInv, L
<1>7. DurableInv'
  <2>1. Distinct(dlog')
    <3>1. log \in Seq(LogRecord) /\ Distinct(log) /\ dlog' = SubSeq(log, 1, n)
      BY DEF ShadowOnce
    <3> HIDE DEF IInv, TypeOK, WriteBackLog, LogOnDisk
    <3> QED BY <3>1, DistinctPrefix
  <2>2. \A i \in DOMAIN dlog' :
          dlog'[i].page \in L => dlog'[i].img = committed[dlog'[i].page]
    <3>1. \A i \in DOMAIN log : log[i].page \in L => log[i].img = committed[log[i].page]
      BY DEF CrashRecoverable, Restores, L
    <3> HIDE DEF IInv, TypeOK, WriteBackLog, LogOnDisk
    <3> QED BY <3>1, <1>a, <1>b
  <2>3. ASSUME ~unlocked', NEW p \in L
        PROVE  disk[p] = committed[p] \/ p \in Pages(dlog') \/ p \in unsaved
    <3>1. CASE n = Len(log)
      BY <3>1, <1>e DEF DiskInv
    <3>2. CASE n # Len(log)
      <4>1. ~unlocked
        BY <2>3, <3>2
      <4> QED BY <4>1, <1>d DEF PendingInv, DurableInv, SyncedInv
    <3> QED BY <3>1, <3>2
  <2> QED BY <2>1, <2>2, <2>3, <1>c DEF DurableInv
<1>8. SyncedInv'
  <2>1. ASSUME ~unlocked', NEW p \in Pages(log), p \in L
        PROVE  p \in locked \cup Pages(dlog')
    <3>1. CASE n = Len(log)
      BY <3>1, <2>1, <1>e
    <3>2. CASE n # Len(log)
      <4>1. ~unlocked
        BY <2>1, <3>2
      <4> QED BY <2>1, <4>1, <1>d DEF PendingInv, SyncedInv
    <3> QED BY <3>1, <3>2
  <2> QED BY <2>1, <1>a, <1>c DEF SyncedInv
<1>9. PendingInv'
  BY DEF PendingInv, L, D
<1> QED BY <1>1, <1>2, <1>3, <1>4, <1>5, <1>6, <1>7, <1>8, <1>9

\* The invariant holds in a storage that was closed properly.
LEMMA InitInv == Init => IInv
<1> SUFFICES ASSUME Init PROVE IInv
  OBVIOUS
<1>1. TypeOK
  BY InitType
<1>0. PICK img \in Image : HdrSize(img) > 0 /\ Closed(img)
  BY DEF Init
<1> USE <1>0 DEF Closed
<1>2. Pages(<<>>) = {} /\ Len(<<>>) = 0 /\ HdrSize(img) \in Nat
  BY PagesEmpty, HdrType
<1>3. CrashRecoverable /\ ShadowOnce
  BY <1>2 DEF CrashRecoverable, Restores, ShadowOnce, Distinct
<1>4. HeaderInv /\ LogInv
  BY <1>2 DEF HeaderInv, LogInv, Working, Opening
<1>5. ReplayInv /\ DiskInv
  BY <1>2 DEF ReplayInv, DiskInv, L
<1>6. DurableInv /\ SyncedInv /\ PendingInv
  BY <1>2 DEF DurableInv, SyncedInv, PendingInv, Distinct, D, L
<1> QED BY <1>1, <1>3, <1>4, <1>5, <1>6 DEF IInv

\* Every step keeps the invariant.
LEMMA NextInv == IInv /\ [Next]_vars => IInv'
<1> SUFFICES ASSUME IInv, [Next]_vars PROVE IInv'
  OBVIOUS
<1>1. TypeOK'
  BY NextType DEF IInv
<1>2. CASE UNCHANGED vars
  <2> USE <1>2 DEF vars, osVars, procVars, histVars
  <2>1. TypeOK' /\ CrashRecoverable' /\ ShadowOnce' /\ HeaderInv'
    BY <1>1 DEF IInv, CrashRecoverable, ShadowOnce, HeaderInv
  <2>2. LogInv' /\ ReplayInv' /\ DiskInv'
    BY DEF IInv, LogInv, ReplayInv, DiskInv, L
  <2>3. DurableInv' /\ SyncedInv' /\ PendingInv'
    BY DEF IInv, DurableInv, SyncedInv, PendingInv, L, D
  <2> QED BY <2>1, <2>2, <2>3 DEF IInv
<1>3. CASE Open
  BY <1>1, <1>3, OpenNewInv, OpenExistingInv DEF Open
<1>4. CASE Recover
  BY <1>1, <1>4, RecoverRecordInv, RecoverEndInv DEF Recover
<1>5. CASE Finish
  BY <1>1, <1>5, MsyncInv, TruncateLogInv, ProtectInv DEF Finish
<1>6. CASE Client
  BY <1>1, <1>6, CommitInv, RollbackInv, CloseInv, SetSizeInv, ExtendHeaderInv,
     StoreInv, ShadowPageInv DEF Client
<1>7. CASE UnlinkLog
  BY <1>1, <1>7, UnlinkLogInv
<1>8. CASE CrashProcess
  BY <1>1, <1>8, CrashProcessInv
<1>9. CASE LosePower
  BY <1>1, <1>9, LosePowerInv
<1>10. CASE Kernel
  BY <1>1, <1>10, WriteBackInv, WriteBackLogInv DEF Kernel
<1> QED
  BY <1>2, <1>3, <1>4, <1>5, <1>6, <1>7, <1>8, <1>9, <1>10 DEF Next

-----------------------------------------------------------------------------
(* The theorems. *)

\* The variables of post_file and of the two files keep their types.
THEOREM TypeCorrect == Spec => []TypeOK
<1>1. Init => TypeOK
  BY InitType
<1>2. TypeOK /\ [Next]_vars => TypeOK'
  BY NextType
<1> QED BY <1>1, <1>2, PTL DEF Spec

\* IInv is an invariant.
THEOREM Invariance == Spec => []IInv
<1> QED BY InitInv, NextInv, PTL DEF Spec

\* A process crash at any point of commit(), rollback(), recovery, close() or
\* the fault handler leaves a log that takes the file back to the last commit.
THEOREM CrashSafety == Spec => []CrashRecoverable
<1>1. IInv => CrashRecoverable
  BY DEF IInv
<1> QED BY <1>1, Invariance, PTL

\* After a power loss the log on disk takes the file on disk back to a
\* committed image, whatever the kernel had written.
THEOREM PowerLossSafety == Spec => []PowerLossRecoverable
<1>1. IInv => PowerLossRecoverable
  BY DEF IInv, PowerLossRecoverable, DurableInv, Restores, D
<1> QED BY <1>1, Invariance, PTL

\* No page is saved twice in one log.
THEOREM LogBounded == Spec => []ShadowOnce
<1>1. IInv => ShadowOnce
  BY DEF IInv
<1> QED BY <1>1, Invariance, PTL

\* post_file::size always spans the committed pages.
THEOREM SizeSafety == Spec => []SizeCoversCommitted
<1>1. IInv => SizeCoversCommitted
  BY DEF IInv, SizeCoversCommitted, HeaderInv
<1> QED BY <1>1, Invariance, PTL

-----------------------------------------------------------------------------
(* Accesses stay within the file. *)

\* Truncating the file to one page or more keeps its header.
LEMMA HdrCut ==
  ASSUME NEW img \in Image, NEW len \in Nat, len > 0
  PROVE  HdrSize(Cut(img, len)) = HdrSize(img)
<1>1. 0 \in Page
  BY DEF Page
<1>2. Cut(img, len)[0] = img[0]
  BY <1>1, CutType
<1> QED BY <1>2 DEF HdrSize

\* A file with nothing to undo, or with everything undone, has the committed
\* header.
LEMMA HdrRestored ==
  ASSUME IInv, log = <<>> \/ pc \in {"rmsync", "rtrunc", "protect"}
  PROVE  HdrSize(fdata) = HdrSize(committed)
<1>1. 0 \in L
  BY LiveFacts DEF IInv
<1>2. CASE log = <<>>
  BY <1>1, <1>2, PagesEmpty DEF IInv, CrashRecoverable, Restores, L, HdrSize
<1>3. CASE pc \in {"rmsync", "rtrunc", "protect"}
  BY <1>1, <1>3 DEF IInv, ReplayInv, HdrSize
<1> QED BY <1>2, <1>3

\* The steps of open() and of recover_file() keep BoundInv.
LEMMA RecoverBound ==
  ASSUME IInv, IInv', BoundInv, Open \/ Recover PROVE BoundInv'
<1> USE DEF BoundInv, LengthInv, LoggedInv, SizeInv
<1>a. TypeOK /\ HeaderInv /\ TypeOK' /\ HeaderInv'
  BY DEF IInv
<1>b. flen \in Nat /\ asize \in Nat
  BY <1>a DEF TypeOK
<1>1. CASE OpenNew
  <2>1. /\ HdrSize(fdata) = HdrSize(committed) /\ fdata' = fdata
        /\ committed' = committed /\ L' = L /\ D' = D
    BY <1>1, HdrRestored DEF OpenNew, OpenCommon, IInv, LogInv, histVars, L, D
  <2>2. Page \ rw' \subseteq L
    BY <1>1, <1>a, <2>1, LiveFacts DEF OpenNew
  <2> QED BY <1>1, <1>a, <1>b, <2>1, <2>2, LiveFacts DEF OpenNew, OpenCommon
<1>2. CASE OpenExisting
  BY <1>2 DEF OpenExisting, OpenCommon, histVars, L, D
<1>3. CASE RecoverRecord
  <2>1. log[ri] \in LogRecord /\ ri \in DOMAIN log
    BY <1>3, <1>a DEF RecoverRecord, TypeOK
  <2>2. \A p \in Page : fdata'[p] = IF p = log[ri].page THEN log[ri].img ELSE fdata[p]
    BY <1>3, <1>a DEF RecoverRecord, TypeOK, Image
  <2>3. HdrSize(fdata') \in {HdrSize(fdata), HdrSize(committed)}
    <3>1. 0 \in L /\ 0 \in Page
      BY <1>a, LiveFacts
    <3>2. log[ri].page = 0 => log[ri].img = committed[0]
      BY <2>1, <3>1 DEF IInv, CrashRecoverable, Restores, L
    <3> QED BY <2>2, <3>1, <3>2 DEF HdrSize
  <2> QED BY <1>3, <2>3, <1>a, <1>b, LiveFacts
          DEF RecoverRecord, histVars, L, D
<1>4. CASE RecoverEnd
  <2>1. /\ fdata' = fdata /\ committed' = committed /\ log' = log /\ dlog' = dlog
        /\ L' = L /\ D' = D /\ flen' = flen /\ rw' = rw /\ torn' = torn
        /\ size' = HdrSize(fdata) /\ asize' = HdrSize(fdata)
        /\ pc' = IF pc = "recover" THEN "rmsync" ELSE "ready"
        /\ pc \in {"recover", "undo"}
    BY <1>4 DEF RecoverEnd, osVars, histVars, L, D
  <2>2. HdrSize(fdata) <= flen
    <3>1. CASE pc = "recover"
      <4>1. pc' = "rmsync" /\ 0 \in L'
        BY <3>1, <2>1, <1>a, LiveFacts
      <4>2. HdrSize(fdata) = HdrSize(committed)
        BY <4>1, <2>1 DEF IInv, ReplayInv, HdrSize
      <4> QED BY <4>2
    <3> QED BY <3>1, <2>1
  <2> QED BY <2>1, <2>2
<1> QED BY <1>1, <1>2, <1>3, <1>4 DEF Open, Recover

\* commit(), rollback() and close() keep BoundInv.
LEMMA FinishBound ==
  ASSUME IInv, IInv', BoundInv,
         Finish \/ commit \/ rollback \/ close \/ UnlinkLog
  PROVE  BoundInv'
<1> USE DEF BoundInv, LengthInv, LoggedInv, SizeInv
<1>a. TypeOK /\ HeaderInv /\ TypeOK' /\ HeaderInv'
  BY DEF IInv
<1>b. flen \in Nat /\ asize \in Nat
  BY <1>a DEF TypeOK
<1>1. CASE Msync
  BY <1>1 DEF Msync, L, D
<1>2. CASE TruncateLog
  <2>1. L \subseteq L' /\ D' = D /\ dlog' = dlog
    BY <1>2, <1>a, LiveFacts DEF TruncateLog, L, D, HeaderInv, Live
  <2>2. HdrSize(committed') <= flen
    BY <1>2 DEF TruncateLog
  <2>3. LengthInv'
    BY <1>2, <2>2 DEF TruncateLog
  <2>4. LoggedInv'
    BY <1>2, <2>1, PagesEmpty DEF TruncateLog
  <2> QED BY <1>2, <2>3, <2>4 DEF TruncateLog
<1>3. CASE Protect
  <2>1. HdrSize(fdata) = HdrSize(committed) /\ size = HdrSize(fdata)
    BY <1>3, HdrRestored DEF Protect
  <2>2. Page \ rw' \subseteq L
    BY <1>3, <1>a, <2>1, LiveFacts DEF Protect
  <2> QED BY <1>3, <2>2 DEF Protect, osVars, histVars, L, D
<1>4. CASE commit
  <2>1. Pages(dlog') \subseteq D'
    BY <1>4 DEF commit, flush_log_buffer, LogOnDisk, L, D
  <2> QED BY <1>4, <2>1 DEF commit, L
<1>5. CASE rollback
  BY <1>5 DEF rollback, osVars, histVars, L, D
<1>6. CASE close
  <2>1. Pages(dlog') \subseteq D'
    BY <1>6 DEF close, flush_log_buffer, LogOnDisk, L, D
  <2>2. HdrSize(fdata) = size /\ size > 0 /\ size \in Nat
    BY <1>6, <1>a, LiveFacts DEF close, HeaderInv
  <2>3. HdrSize(fdata') = HdrSize(fdata)
    BY <1>6, <1>a, <2>2, HdrCut DEF close, TypeOK
  <2>4. HdrSize(committed) <= HdrSize(fdata) /\ flen' \in {size, flen}
    BY <1>6, <1>a DEF close, HeaderInv
  <2> QED BY <1>6, <2>1, <2>2, <2>3, <2>4, <1>a, <1>b, LiveFacts
          DEF close, L
<1>7. CASE UnlinkLog
  <2>1. L \subseteq L' /\ D' = D /\ dlog' = dlog
    BY <1>7, <1>a, LiveFacts DEF UnlinkLog, L, D, HeaderInv, Live
  <2> QED BY <1>7, <2>1, PagesEmpty DEF UnlinkLog, ProcessEnds
<1> QED BY <1>1, <1>2, <1>3, <1>4, <1>5, <1>6, <1>7 DEF Finish

\* The growth of the file, stores and the fault handler keep BoundInv.
LEMMA ClientBound ==
  ASSUME IInv, IInv', BoundInv,
         \/ \E n \in 1..MaxPages+1 : set_size(n)
         \/ \E c \in Content : ExtendHeader(c)
         \/ \E p \in Page, c \in Content : Store(p, c)
         \/ \E p \in Page : create_shadow_page(p)
  PROVE  BoundInv'
<1> USE DEF BoundInv, LengthInv, LoggedInv, SizeInv
<1>a. TypeOK /\ HeaderInv /\ TypeOK' /\ HeaderInv'
  BY DEF IInv
<1>b. flen \in Nat /\ asize \in Nat /\ 0 \in Page
  BY <1>a, LiveFacts DEF TypeOK
<1>1. ASSUME NEW n \in 1..MaxPages+1, set_size(n) PROVE BoundInv'
  <2>1. /\ pc = "ready" /\ pc' = "extend" /\ size' = n /\ rw' = rw
        /\ log' = log /\ dlog' = dlog /\ committed' = committed /\ D' = D
        /\ L' = L /\ torn' = torn /\ n > HdrSize(fdata)
    BY <1>1 DEF set_size, histVars, L, D
  <2>2. HdrSize(committed) <= HdrSize(fdata) /\ n \in Nat /\ n > 0
    BY <1>a DEF HeaderInv
  <2>3. CASE n > asize
    <3>1. PICK a \in n..n+Quantum-1 :
             asize' = a /\ flen' = a /\ fdata' = Cut(fdata, a)
      BY <1>1, <2>3 DEF set_size
    <3>2. HdrSize(fdata') = HdrSize(fdata)
      BY <3>1, <2>2, <1>a, HdrCut DEF TypeOK
    <3>3. HdrSize(fdata) \in Nat /\ HdrSize(committed) \in Nat /\ a \in Nat /\ a >= n
      BY <3>1, <2>2, <1>a, LiveFacts
    <3>4. HdrSize(committed) <= a /\ HdrSize(fdata) <= a
      BY <3>3, <2>1, <2>2
    <3> QED BY <2>1, <3>1, <3>2, <3>3, <3>4
  <2>4. CASE ~(n > asize)
    <3>1. asize' = asize /\ flen' = flen /\ fdata' = fdata /\ n <= asize
      BY <1>1, <2>2, <2>4, <1>b DEF set_size
    <3> QED BY <2>1, <2>2, <3>1, <1>b
  <2> QED BY <2>3, <2>4
<1>2. ASSUME NEW c \in Content, ExtendHeader(c) PROVE BoundInv'
  <2>1. HdrSize(fdata') = size
    BY <1>2, <1>a, <1>b DEF ExtendHeader, Write, TypeOK, Image, HdrSize
  <2> QED BY <1>2, <2>1 DEF ExtendHeader, Write, histVars, L, D
<1>3. ASSUME NEW p \in Page, NEW c \in Content, Store(p, c) PROVE BoundInv'
  <2>1. HdrSize(fdata') = HdrSize(fdata)
    BY <1>3, <1>a, <1>b DEF Store, Write, TypeOK, Image, HdrSize
  <2> QED BY <1>3, <2>1 DEF Store, Write, histVars, L, D
<1>4. ASSUME NEW p \in Page, create_shadow_page(p) PROVE BoundInv'
  <2>1. /\ fdata' = fdata /\ flen' = flen /\ pc' = pc /\ size' = size
        /\ asize' = asize /\ committed' = committed /\ torn' = torn /\ L' = L
        /\ rw' = rw \cup {p} /\ p \notin rw /\ pc \in {"ready", "extend"}
    BY <1>4 DEF create_shadow_page, Touches, L
  <2>2. Pages(log') \subseteq L
    <3>1. [page |-> p, img |-> fdata[p]] \in LogRecord /\ log \in Seq(LogRecord)
      BY <1>a DEF TypeOK, Image, LogRecord
    <3>2. Pages(log') = Pages(log) \cup {p}
      BY <1>4, <3>1, PagesAppend DEF create_shadow_page
    <3> QED BY <3>2, <2>1
  <2>3. Pages(dlog') \subseteq D'
    <3>1. \/ dlog' = dlog /\ durable' = durable
          \/ dlog' = log' /\ durable' = committed
      BY <1>4 DEF create_shadow_page, LogOnDisk
    <3> QED BY <3>1, <2>2 DEF L, D
  <2> QED BY <2>1, <2>2, <2>3
<1> QED BY <1>1, <1>2, <1>3, <1>4

\* Crashes, power loss and the kernel keep BoundInv.
LEMMA FailureBound ==
  ASSUME ~TornTail, IInv, IInv', BoundInv, CrashProcess \/ LosePower \/ Kernel
  PROVE  BoundInv'
<1> USE DEF BoundInv, LengthInv, LoggedInv, SizeInv
<1>a. TypeOK /\ HeaderInv /\ TypeOK' /\ HeaderInv'
  BY DEF IInv
<1>1. CASE CrashProcess
  BY <1>1 DEF CrashProcess, ProcessEnds, L, D
<1>2. CASE LosePower
  <2>1. /\ committed' = durable /\ durable' = durable /\ log' = dlog /\ dlog' = dlog
        /\ flen' = flen /\ pc' = "down" /\ torn' = FALSE
    BY <1>2 DEF LosePower, LoseCache, ProcessEnds
  <2>2. L' = D /\ D' = D
    BY <2>1 DEF L, D
  <2>3. HdrSize(durable) <= flen
    <3>1. /\ HdrSize(durable) \in Nat /\ HdrSize(committed) \in Nat /\ flen \in Nat
          /\ HdrSize(durable) <= HdrSize(committed) /\ HdrSize(committed) <= flen
      BY <1>a, LiveFacts DEF HeaderInv, TypeOK
    <3> QED BY <3>1
  <2> QED BY <2>1, <2>2, <2>3
<1>3. ASSUME NEW p \in Page, WriteBack(p) PROVE BoundInv'
  BY <1>3 DEF WriteBack, procVars, L, D
<1>4. ASSUME NEW n \in 0..Len(log), WriteBackLog(n) PROVE BoundInv'
  <2>1. /\ dlog' = SubSeq(log, 1, n) /\ durable' = committed
        /\ committed' = committed
    BY <1>4 DEF WriteBackLog, LogOnDisk
  <2>2. Pages(dlog') \subseteq D' /\ L' = L
    BY <2>1, <1>a, PagesPrefix DEF L, D, TypeOK
  <2> QED BY <1>4, <2>2 DEF WriteBackLog, procVars
<1> QED BY <1>1, <1>2, <1>3, <1>4 DEF Kernel

\* As long as no append to the log is cut short, neither a client nor
\* recover_file() touches the mapping beyond the end of the file: across
\* rollbacks, after which set_size() may shorten it, crashes and power losses.
THEOREM AccessWithinFile == ~TornTail => (Spec => []NoBusError)
<1> SUFFICES ASSUME ~TornTail PROVE Spec => []NoBusError
  OBVIOUS
<1>1. Init => BoundInv
  <2> SUFFICES ASSUME Init PROVE BoundInv
    OBVIOUS
  <2>1. PICK img \in Image : HdrSize(img) > 0 /\ Closed(img)
    BY DEF Init
  <2> QED BY <2>1, HdrType, PagesEmpty
          DEF Closed, BoundInv, LengthInv, LoggedInv, SizeInv
<1>2. IInv /\ IInv' /\ BoundInv /\ [Next]_vars => BoundInv'
  <2> SUFFICES ASSUME IInv, IInv', BoundInv, [Next]_vars PROVE BoundInv'
    OBVIOUS
  <2>1. CASE UNCHANGED vars
    BY <2>1 DEF vars, osVars, procVars, histVars, BoundInv, LengthInv, LoggedInv,
                SizeInv, L, D
  <2>2. CASE Next
    BY <2>2, RecoverBound, FinishBound, ClientBound, FailureBound DEF Next, Client
  <2> QED BY <2>1, <2>2
<1>3. IInv /\ BoundInv => NoBusError
  <2> SUFFICES ASSUME IInv, BoundInv PROVE NoBusError
    OBVIOUS
  <2>1. \A i \in DOMAIN log : log[i].page \in L
    BY DEF BoundInv, LoggedInv, Pages
  <2>2. \A i \in DOMAIN log : log[i].page < flen
    BY <2>1, LiveFacts DEF IInv, TypeOK, BoundInv, LengthInv
  <2> QED BY <2>2 DEF NoBusError, BoundInv, LengthInv
<1> QED BY <1>1, <1>2, <1>3, Invariance, PTL DEF Spec

-----------------------------------------------------------------------------
(* PostFile implements TxnImage, step by step. *)

\* Two images that agree on the live pages of one are the same to a client.
LEMMA ClipEq ==
  ASSUME NEW a \in Image, NEW b \in Image, \A p \in Live(b) : a[p] = b[p]
  PROVE  Clip(a) = Clip(b)
<1>1. HdrSize(a) = HdrSize(b)
  BY DEF Live, HdrSize, Page
<1>2. \A p \in Page : p < HdrSize(b) => a[p] = b[p]
  BY DEF Live
<1> QED BY <1>1, <1>2 DEF Clip, Cut

\* What a client sees is an image.
LEMMA ClipType == ASSUME NEW a \in Image PROVE Clip(a) \in Image
BY HdrType, CutType DEF Clip

\* open() on a closed storage starts from the committed image.
LEMMA InitRefines == Init => Txn!Init
BY ClipType DEF Init, Closed, Txn!Init, TxnSt, TxnCur

\* With no log, or at the end of the log, the file holds the committed image.
LEMMA Recovered ==
  ASSUME IInv, \/ ~logExists
               \/ pc \in {"recover", "undo"} /\ ri > Len(log)
               \/ pc = "rtrunc"
  PROVE  Clip(fdata) = Clip(committed)
<1> USE DEF IInv, TypeOK
<1> SUFFICES ASSUME NEW p \in L PROVE fdata[p] = committed[p]
  BY ClipEq DEF L
<1>1. fdata[p] = committed[p] \/ p \in Pages(log)
  BY DEF CrashRecoverable, Restores, L
<1>2. CASE ~logExists
  BY <1>1, <1>2, PagesEmpty DEF LogInv
<1>3. CASE pc \in {"recover", "undo"} /\ ri > Len(log)
  <2> SUFFICES ASSUME NEW i \in DOMAIN log, log[i].page = p
               PROVE  fdata[p] = committed[p]
    BY <1>1 DEF Pages
  <2>1. i < ri
    BY <1>3
  <2> QED BY <2>1, <1>3 DEF ReplayInv
<1>4. CASE pc = "rtrunc"
  BY <1>4 DEF ReplayInv
<1> QED BY <1>2, <1>3, <1>4

\* ftruncate of the data file does not change what the client sees.
LEMMA CutInvisible ==
  ASSUME TypeOK, NEW len \in Nat, HdrSize(fdata) <= len
  PROVE  Clip(Cut(fdata, len)) = Clip(fdata)
<1>1. Cut(fdata, len) \in Image /\ fdata \in Image
      /\ \A p \in Page : p < len => Cut(fdata, len)[p] = fdata[p]
  BY CutType DEF TypeOK
<1>2. HdrSize(fdata) \in Nat
  BY HdrType DEF TypeOK
<1>3. CASE len > 0
  <2>1. \A p \in Live(fdata) : p \in Page /\ p < len
    BY <1>2, <1>3 DEF Live, Page
  <2> QED BY <1>1, <2>1, ClipEq
<1>4. CASE len = 0
  <2>1. Cut(fdata, len) = [p \in Page |-> Zero] /\ HdrSize(fdata) = 0
    BY <1>2, <1>4 DEF Cut, Page
  <2>2. HdrSize([p \in Page |-> Zero]) = 0
    BY DEF HdrSize, Page
  <2> QED BY <2>1, <2>2, <1>4 DEF Clip, Cut, Page
<1> QED BY <1>3, <1>4

\* Every step of PostFile is a step of TxnImage or leaves its variables alone.
LEMMA NextRefines ==
  IInv /\ IInv' /\ [Next]_vars => [Txn!Next]_<<TxnSt, TxnCur, Clip(committed), Clip(durable)>>
<1> SUFFICES ASSUME IInv, IInv', [Next]_vars
             PROVE  Txn!Next \/ UNCHANGED <<TxnSt, TxnCur, Clip(committed), Clip(durable)>>
  OBVIOUS
<1> USE DEF TxnSt, TxnCur
<1>0. TypeOK /\ fdata' \in Image /\ Clip(fdata') \in Image
  BY ClipType DEF IInv, TypeOK
<1>1. ASSUME OpenNew PROVE Txn!Open
  BY <1>1, Recovered DEF OpenNew, OpenCommon, histVars, Txn!Open
<1>2. ASSUME OpenExisting PROVE UNCHANGED <<TxnSt, TxnCur, committed, durable>>
  BY <1>2 DEF OpenExisting, OpenCommon, histVars
<1>3. ASSUME RecoverRecord PROVE UNCHANGED <<TxnSt, TxnCur, committed, durable>>
  BY <1>3 DEF RecoverRecord, histVars
<1>4. ASSUME RecoverEnd PROVE UNCHANGED <<TxnSt, TxnCur, committed, durable>>
  <2>1. Clip(fdata) = Clip(committed)
    <3>1. ri > Len(log) /\ pc \in {"recover", "undo"}
      BY <1>4 DEF RecoverEnd
    <3> QED BY <3>1, Recovered
  <2> QED BY <1>4, <2>1 DEF RecoverEnd, osVars, histVars
<1>5. ASSUME rollback PROVE Txn!Rollback
  BY <1>5 DEF rollback, osVars, histVars, Txn!Rollback
<1>6. ASSUME commit PROVE Txn!Begin("commit")
  BY <1>6 DEF commit, flush_log_buffer, LogOnDisk, Txn!Begin
<1>7. ASSUME Msync PROVE UNCHANGED <<TxnSt, TxnCur, committed, durable>>
  BY <1>7 DEF Msync
<1>8. ASSUME TruncateLog PROVE Txn!Commit \/ Txn!Open
  <2>1. CASE pc = "trunc"
    BY <1>8, <2>1 DEF TruncateLog, Txn!Commit
  <2>2. CASE pc = "rtrunc"
    BY <1>8, <2>2, Recovered DEF TruncateLog, Txn!Open
  <2> QED BY <1>8, <2>1, <2>2 DEF TruncateLog
<1>9. ASSUME Protect PROVE UNCHANGED <<TxnSt, TxnCur, committed, durable>>
  BY <1>9 DEF Protect, osVars, histVars
<1>10. ASSUME NEW n \in 1..MaxPages+1, set_size(n)
       PROVE  UNCHANGED <<TxnSt, TxnCur, committed, durable>>
  <2>1. Clip(fdata') = Clip(fdata)
    <3>1. CASE n > asize
      <4>1. PICK a \in n..n+Quantum-1 : fdata' = Cut(fdata, a)
        BY <1>10, <3>1 DEF set_size
      <4>2. a \in Nat /\ HdrSize(fdata) <= a
        BY <1>0, <1>10, HdrType DEF set_size, TypeOK
      <4> QED BY <4>1, <4>2, <1>0, CutInvisible
    <3> QED BY <1>10, <3>1 DEF set_size
  <2> QED BY <1>10, <2>1 DEF set_size, histVars
<1>11. ASSUME NEW c \in Content, ExtendHeader(c) PROVE Txn!Write
  BY <1>0, <1>11 DEF ExtendHeader, Write, histVars, Txn!Write
<1>12. ASSUME NEW p \in Page, NEW c \in Content, Store(p, c) PROVE Txn!Write
  BY <1>0, <1>12 DEF Store, Write, histVars, Txn!Write
<1>13. ASSUME NEW p \in Page, create_shadow_page(p)
       PROVE  Txn!Harden \/ UNCHANGED <<TxnSt, TxnCur, committed, durable>>
  BY <1>13 DEF create_shadow_page, LogOnDisk, Txn!Harden
<1>14. ASSUME close PROVE Txn!Begin("close")
  <2>1. Clip(fdata') = Clip(fdata)
    <3>1. size \in Nat /\ HdrSize(fdata) <= size
      BY <1>0, <1>14 DEF close, TypeOK, IInv, HeaderInv
    <3> QED BY <1>14, <3>1, <1>0, CutInvisible DEF close
  <2> QED BY <1>14, <2>1 DEF close, flush_log_buffer, LogOnDisk, Txn!Begin
<1>15. ASSUME UnlinkLog PROVE Txn!Close
  BY <1>15 DEF UnlinkLog, ProcessEnds, Txn!Close
<1>16. ASSUME CrashProcess PROVE Txn!Crash
  BY <1>16 DEF CrashProcess, ProcessEnds, Txn!Crash
<1>17. ASSUME LosePower PROVE Txn!PowerLoss
  BY <1>17 DEF LosePower, LoseCache, ProcessEnds, Txn!PowerLoss
<1>18. ASSUME NEW p \in Page, WriteBack(p)
       PROVE  UNCHANGED <<TxnSt, TxnCur, committed, durable>>
  BY <1>18 DEF WriteBack, procVars
<1>19. ASSUME NEW n \in 0..Len(log), WriteBackLog(n) PROVE Txn!Harden
  BY <1>19 DEF WriteBackLog, LogOnDisk, procVars, Txn!Harden
<1>20. ASSUME UNCHANGED vars PROVE UNCHANGED <<TxnSt, TxnCur, committed, durable>>
  BY <1>20 DEF vars, osVars, procVars, histVars
<1>21. ASSUME UNCHANGED <<TxnSt, TxnCur, committed, durable>>
       PROVE  UNCHANGED <<TxnSt, TxnCur, Clip(committed), Clip(durable)>>
  BY <1>21
<1> HIDE DEF TxnSt, TxnCur
<1> QED
  BY <1>1, <1>2, <1>3, <1>4, <1>5, <1>6, <1>7, <1>8, <1>9, <1>10, <1>11,
     <1>12, <1>13, <1>14, <1>15, <1>16, <1>17, <1>18, <1>19, <1>20, <1>21
  DEF Next, Open, Recover, Finish, Client, Kernel, Txn!Next

\* The transactional file implements the transactional image.
THEOREM Refinement == Spec => ImplementsTxnImage
<1>1. Init => Txn!Init
  BY InitRefines
<1>2. IInv /\ IInv' /\ [Next]_vars => [Txn!Next]_(Txn!vars)
  BY NextRefines DEF Txn!vars
<1> QED BY <1>1, <1>2, Invariance, PTL DEF Spec, ImplementsTxnImage, Txn!Spec
=============================================================================
