------------------------------ MODULE PostFile ------------------------------
(***************************************************************************)
(* The transactional file of POST++ (class post_file, Unix version, mode   *)
(* shadow_pages_transaction) with the operating system under it.           *)
(*                                                                         *)
(* The data file is mapped shared, read-only where it holds committed      *)
(* pages.  The first store to such a page raises SIGSEGV; the handler      *)
(* appends the page's old image to the log file and makes the page         *)
(* writable.  commit() forces the pages to disk and truncates the log,     *)
(* rollback() and the next open() copy the log's images back.              *)
(*                                                                         *)
(* Two kinds of failure are modelled.  A process crash keeps the page      *)
(* cache; a power loss leaves only what had reached the disk.              *)
(***************************************************************************)
EXTENDS Integers, Sequences, FiniteSets

CONSTANTS MaxPages,    \* mapped_size, in pages
          Quantum,     \* file_extension_granularity, in pages
          Content,     \* what one page may hold
          Zero,        \* a page of zero bytes
          FileSizeOf,  \* hdr->file_size, in pages, if page 0 holds this
          MaxLocked,   \* max_locked_pages given to the constructor
          TornTail     \* an interrupted append may leave part of a record

ASSUME SizesAssumption ==
  /\ MaxPages \in Nat \ {0}
  /\ Quantum \in Nat \ {0}
  /\ MaxLocked \in Nat
  /\ TornTail \in BOOLEAN

ASSUME ContentAssumption ==
  /\ Zero \in Content
  /\ FileSizeOf \in [Content -> 0..MaxPages]
  /\ FileSizeOf[Zero] = 0

Page      == 0..MaxPages-1
Image     == [Page -> Content]
LogRecord == [page : Page, img : Content]

VARIABLES
  (* operating system *)
  fdata,      \* the data file as every process sees it (page cache)
  disk,       \* the data file as the disk holds it
  flen,       \* physical length of the data file, in pages
  log,        \* complete records of the log file
  logExists,  \* the log file is in its directory
  torn,       \* the log ends in an incomplete record
  dlog,       \* records of the log the disk holds
  pend,       \* a truncation or removal of the log has not reached the disk
  (* process *)
  pc,         \* what the process is doing
  ri,         \* next log record recover_file() will read
  size,       \* post_file::size, in pages
  asize,      \* post_file::allocated_size, in pages
  rw,         \* pages mapped PROT_READ|PROT_WRITE
  locked,     \* locked_page[0..n_locked_pages-1]
  maxLocked,  \* post_file::max_locked_pages
  (* history *)
  committed,  \* image the last committed transaction left
  durable,    \* image a power loss is to fall back on
  unsaved,    \* pages close() left dirty, not written back since
  unlocked    \* a crash dropped locks on pages whose records are not on disk

osVars   == <<fdata, disk, flen, log, logExists, torn, dlog, pend>>
procVars == <<pc, ri, size, asize, rw, locked, maxLocked>>
histVars == <<committed, durable, unsaved, unlocked>>
vars     == <<osVars, procVars, histVars>>

(***************************************************************************)
(* Labels.  "recover", "rmsync", "rtrunc" are recover_file() and commit()  *)
(* called from open(); "undo" is recover_file() called from rollback();    *)
(* "extend" lies between set_size() and the store that raises file_size.   *)
(***************************************************************************)
Labels == {"down", "recover", "rmsync", "rtrunc", "protect", "ready",
           "extend", "undo", "msync", "trunc", "unlink"}

Pages(lg)     == {lg[i].page : i \in DOMAIN lg}
HdrSize(img)  == FileSizeOf[img[0]]
Live(img)     == {p \in Page : p = 0 \/ p < HdrSize(img)}

\* ftruncate(fd, len): what lies beyond the new length is gone.
Cut(img, len) == [p \in Page |-> IF p < len THEN img[p] ELSE Zero]

TypeOK ==
  /\ fdata \in Image /\ disk \in Image /\ flen \in Nat
  /\ log \in Seq(LogRecord) /\ dlog \in Seq(LogRecord)
  /\ logExists \in BOOLEAN /\ torn \in BOOLEAN /\ pend \in BOOLEAN
  /\ pc \in Labels
  /\ ri \in Nat \ {0}
  /\ size \in 0..MaxPages /\ asize \in Nat
  /\ rw \subseteq Page /\ locked \subseteq Page
  /\ maxLocked \in Nat
  /\ committed \in Image /\ durable \in Image
  /\ unsaved \subseteq Page /\ unlocked \in BOOLEAN

(***************************************************************************)
(* A storage that was closed, its file on disk; or no storage at all.      *)
(***************************************************************************)
Closed(img) ==
  /\ fdata = img /\ disk = img /\ committed = img /\ durable = img
  /\ flen = HdrSize(img)
  /\ log = <<>> /\ dlog = <<>>
  /\ logExists = FALSE /\ torn = FALSE /\ pend = FALSE
  /\ pc = "down" /\ ri = 1 /\ size = 0 /\ asize = 0
  /\ rw = {} /\ locked = {} /\ maxLocked = 0
  /\ unsaved = {} /\ unlocked = FALSE

Init == \E img \in Image : /\ HdrSize(img) > 0
                           /\ img = Cut(img, HdrSize(img))
                           /\ Closed(img)

\* The process has ended; its memory, mappings and page locks are gone.
ProcessEnds ==
  /\ pc' = "down" /\ ri' = 1 /\ size' = 0 /\ asize' = 0
  /\ rw' = {} /\ locked' = {} /\ maxLocked' = 0

(***************************************************************************)
(* The log reaches the disk: O_SYNC write, or fdatasync in                 *)
(* flush_log_buffer(), which then unlocks the pages.                       *)
(***************************************************************************)
LogOnDisk(lg) ==
  /\ dlog' = lg
  /\ pend' = FALSE
  /\ durable' = committed

\* Variant: pages are unlocked without fdatasync.
UnlockOnly == locked' = {} /\ UNCHANGED <<dlog, pend, durable>>

flush_log_buffer ==
  IF locked # {} THEN LogOnDisk(log) /\ locked' = {}
                 ELSE UNCHANGED <<dlog, pend, durable, locked>>

(***************************************************************************)
(* post_file::open.  The header is read before any recovery.  Whether      *)
(* mlock() is usable is probed by the constructor.                         *)
(***************************************************************************)
\* Variant: size is not set from the header.
OpenSizeZero ==
  /\ pc = "down"
  /\ maxLocked' \in {0, MaxLocked}
  /\ size' = 0
  /\ asize' = HdrSize(fdata)
  /\ UNCHANGED <<fdata, disk, flen, log, torn, dlog, pend, locked, histVars>>

OpenCommon ==
  /\ pc = "down"
  /\ maxLocked' \in {0, MaxLocked}
  /\ size' = HdrSize(fdata)
  /\ asize' = HdrSize(fdata)
  /\ UNCHANGED <<fdata, disk, flen, log, torn, dlog, pend, locked, histVars>>

OpenNew ==
  /\ ~logExists
  /\ OpenCommon
  /\ logExists' = TRUE
  /\ rw' = {p \in Page : p >= HdrSize(fdata)}
  /\ pc' = "ready"
  /\ UNCHANGED ri

OpenExisting ==
  /\ logExists
  /\ OpenCommon
  /\ rw' = Page
  /\ ri' = 1
  /\ pc' = "recover"
  /\ UNCHANGED logExists

(***************************************************************************)
(* recover_file(), one record at a time.  Access beyond the file's length  *)
(* raises SIGBUS, which ends the process.  A torn tail leaves size and     *)
(* allocated_size as they were; open() ignores the failure.                *)
(***************************************************************************)
\* Variant: the read position does not advance.
RereadRecord ==
  /\ pc \in {"recover", "undo"}
  /\ ri <= Len(log)
  /\ log[ri].page < flen
  /\ fdata' = [fdata EXCEPT ![log[ri].page] = log[ri].img]
  /\ UNCHANGED <<disk, flen, log, logExists, torn, dlog, pend, pc, ri, size,
                 asize, rw, locked, maxLocked, histVars>>

RecoverRecord ==
  /\ pc \in {"recover", "undo"}
  /\ ri <= Len(log)
  /\ log[ri].page < flen
  /\ fdata' = [fdata EXCEPT ![log[ri].page] = log[ri].img]
  /\ ri' = ri + 1
  /\ UNCHANGED <<disk, flen, log, logExists, torn, dlog, pend, pc, size,
                 asize, rw, locked, maxLocked, histVars>>

\* Variant: the last record is not copied back.
RecoverEndEarly ==
  /\ pc \in {"recover", "undo"}
  /\ ri >= Len(log)
  /\ IF torn THEN UNCHANGED <<size, asize>>
             ELSE size' = HdrSize(fdata) /\ asize' = HdrSize(fdata)
  /\ pc' = IF pc = "recover" THEN "rmsync" ELSE "ready"
  /\ UNCHANGED <<osVars, ri, rw, locked, maxLocked, histVars>>

RecoverEnd ==
  /\ pc \in {"recover", "undo"}
  /\ ri > Len(log)
  /\ IF torn THEN UNCHANGED <<size, asize>>
             ELSE /\ flen > 0
                  /\ size' = HdrSize(fdata)
                  /\ asize' = HdrSize(fdata)
  /\ pc' = IF pc = "recover" THEN "rmsync" ELSE "ready"
  /\ UNCHANGED <<osVars, ri, rw, locked, maxLocked, histVars>>

\* Variant: rollback() protects the pages again but keeps the log.
RollbackProtects ==
  /\ pc = "ready"
  /\ ri' = 1
  /\ pc' = "undo"
  /\ rw' = {p \in rw : p >= size}
  /\ UNCHANGED <<osVars, size, asize, locked, maxLocked, histVars>>

rollback ==
  /\ pc = "ready"
  /\ ri' = 1
  /\ pc' = "undo"
  /\ UNCHANGED <<osVars, size, asize, rw, locked, maxLocked, histVars>>

(***************************************************************************)
(* commit(): flush_log_buffer(), msync(), ftruncate(log), mprotect().      *)
(* ftruncate takes effect for other processes at once, on disk later.      *)
(***************************************************************************)
\* Variant: the log buffer is not flushed before the pages are.
CommitNoFlush ==
  /\ pc = "ready"
  /\ pc' = "msync"
  /\ UNCHANGED <<osVars, ri, size, asize, rw, locked, maxLocked, histVars>>

commit ==
  /\ pc = "ready"
  /\ flush_log_buffer
  /\ pc' = "msync"
  /\ UNCHANGED <<fdata, disk, flen, log, logExists, torn, ri, size, asize,
                 rw, maxLocked, committed, unsaved, unlocked>>

Msync ==
  /\ pc \in {"msync", "rmsync"}
  /\ disk' = [p \in Page |-> IF p < size THEN fdata[p] ELSE disk[p]]
  /\ unsaved' = {p \in unsaved : p >= size}
  /\ pc' = IF pc = "msync" THEN "trunc" ELSE "rtrunc"
  /\ UNCHANGED <<fdata, flen, log, logExists, torn, dlog, pend, ri, size,
                 asize, rw, locked, maxLocked, committed, durable, unlocked>>

TruncateLog ==
  /\ pc \in {"trunc", "rtrunc"}
  /\ log' = <<>> /\ torn' = FALSE /\ pend' = TRUE
  /\ committed' = IF pc = "trunc" THEN fdata ELSE committed
  /\ unlocked' = FALSE
  /\ pc' = "protect"
  /\ UNCHANGED <<fdata, disk, flen, logExists, dlog, ri, size, asize, rw,
                 locked, maxLocked, durable, unsaved>>

\* Variant: the pages stay writable after commit().
NoProtect ==
  /\ pc = "protect"
  /\ pc' = "ready"
  /\ UNCHANGED <<osVars, ri, size, asize, rw, locked, maxLocked, histVars>>

Protect ==
  /\ pc = "protect"
  /\ rw' = {p \in rw : p >= size}
  /\ pc' = "ready"
  /\ UNCHANGED <<osVars, ri, size, asize, locked, maxLocked, histVars>>

(***************************************************************************)
(* Growth of the file: storage::alloc_page and storage::open call          *)
(* set_size() and then store the new hdr->file_size in page 0.             *)
(***************************************************************************)
\* Variant: the file is not extended.
SetSizeNoTruncate(n) ==
  /\ pc = "ready"
  /\ n <= MaxPages
  /\ n > HdrSize(fdata)
  /\ size' = n
  /\ pc' = "extend"
  /\ UNCHANGED <<osVars, asize, ri, rw, locked, maxLocked, histVars>>

set_size(n) ==
  /\ pc = "ready"
  /\ n <= MaxPages               \* else file_mapping_size_exceeded, abort()
  /\ n > HdrSize(fdata)
  /\ IF n > asize
     THEN \E a \in n..n+Quantum-1 :
            /\ a % Quantum = 0
            /\ asize' = a /\ flen' = a
            /\ fdata' = Cut(fdata, a) /\ disk' = Cut(disk, a)
     ELSE UNCHANGED <<asize, flen, fdata, disk>>
  /\ size' = n
  /\ pc' = "extend"
  /\ UNCHANGED <<log, logExists, torn, dlog, pend, ri, rw, locked, maxLocked,
                 histVars>>

Write(p, c) ==
  /\ p \in rw
  /\ p < flen
  /\ fdata' = [fdata EXCEPT ![p] = c]
  /\ pc' = "ready"
  /\ UNCHANGED <<disk, flen, log, logExists, torn, dlog, pend, ri, size,
                 asize, rw, locked, maxLocked, histVars>>

ExtendHeader(c) ==
  /\ pc = "extend"
  /\ FileSizeOf[c] = size
  /\ Write(0, c)

Store(p, c) ==
  /\ pc = "ready"
  /\ p < HdrSize(fdata)
  /\ p = 0 => FileSizeOf[c] = HdrSize(fdata)
  /\ Write(p, c)

(***************************************************************************)
(* create_shadow_page(), entered from the SIGSEGV handler on a store to a  *)
(* protected page: make it writable, append its image, then either the     *)
(* record is on disk (O_SYNC), or the page is locked in memory, or - no    *)
(* lock left, or mlock() fails - the whole log is flushed.  The store is   *)
(* restarted afterwards (Store, ExtendHeader).                             *)
(***************************************************************************)
Touches(p) ==
  \/ pc = "ready" /\ p < HdrSize(fdata)
  \/ pc = "extend" /\ p = 0

create_shadow_page(p) ==
  /\ Touches(p)
  /\ p \notin rw
  /\ rw' = rw \cup {p}
  /\ log' = Append(log, [page |-> p, img |-> fdata[p]])
  /\ \/ /\ maxLocked = 0
        /\ LogOnDisk(log')
        /\ UNCHANGED <<locked, maxLocked>>
     \/ /\ Cardinality(locked) < maxLocked
        /\ locked' = locked \cup {p}
        /\ UNCHANGED <<dlog, pend, durable, maxLocked>>
     \/ /\ maxLocked > 0
        /\ Cardinality(locked) >= maxLocked
        /\ LogOnDisk(log')
        /\ locked' = {}
        /\ UNCHANGED maxLocked
     \/ /\ Cardinality(locked) < maxLocked      \* mlock() failed
        /\ LogOnDisk(log')
        /\ locked' = {}
        /\ maxLocked' = IF locked # {} THEN Cardinality(locked) ELSE maxLocked
  /\ UNCHANGED <<fdata, disk, flen, logExists, torn, pc, ri, size, asize,
                 committed, unsaved, unlocked>>

(***************************************************************************)
(* close(): flush_log_buffer(), munmap(), ftruncate(fd, size); then the    *)
(* log is removed.  Nothing forces the data pages to disk.                 *)
(***************************************************************************)
close ==
  /\ pc = "ready"
  /\ flush_log_buffer
  /\ IF size # asize
     THEN /\ flen' = size
          /\ fdata' = Cut(fdata, size) /\ disk' = Cut(disk, size)
     ELSE UNCHANGED <<flen, fdata, disk>>
  /\ pc' = "unlink"
  /\ UNCHANGED <<log, logExists, torn, ri, size, asize, rw, maxLocked,
                 committed, unsaved, unlocked>>

UnlinkLog ==
  /\ pc = "unlink"
  /\ log' = <<>> /\ logExists' = FALSE /\ pend' = TRUE
  /\ committed' = fdata
  /\ unsaved' = {p \in Page : disk[p] # fdata[p]}
  /\ ProcessEnds
  /\ UNCHANGED <<fdata, disk, flen, torn, dlog, durable, unlocked>>

(***************************************************************************)
(* The process dies (a signal, abort(), SIGBUS).  Inside the handler the   *)
(* last record may be incomplete.  Its page locks go with it.              *)
(***************************************************************************)
CrashProcess ==
  /\ pc # "down"
  /\ \/ UNCHANGED torn
     \/ /\ \E p \in Page : Touches(p) /\ p \notin rw
        /\ torn' = TornTail
  /\ unlocked' = (unlocked \/ locked # {})
  /\ ProcessEnds
  /\ UNCHANGED <<fdata, disk, flen, log, logExists, dlog, pend, committed,
                 durable, unsaved>>

(***************************************************************************)
(* Power loss: the page cache is gone.  A log file whose durable content   *)
(* is empty may or may not be in the directory afterwards.                 *)
(***************************************************************************)
LoseCache ==
  /\ fdata' = disk
  /\ committed' = durable
  /\ log' = dlog
  /\ torn' \in (IF pend \/ torn \/ Len(dlog) < Len(log) THEN {FALSE, TornTail}
                ELSE {FALSE})
  /\ logExists' \in (IF dlog # <<>> \/ torn' THEN {TRUE} ELSE BOOLEAN)
  /\ pend' = FALSE /\ unsaved' = {} /\ unlocked' = FALSE
  /\ ProcessEnds
  /\ UNCHANGED <<disk, flen, dlog, durable>>

LosePower ==
  /\ unsaved = {}
  /\ ~unlocked
  /\ LoseCache

(***************************************************************************)
(* The kernel writes a dirty page back, unless it is locked, and the log   *)
(* (its truncation, then its records in order), whenever it likes.         *)
(***************************************************************************)
WriteBack(p) ==
  /\ p \notin locked
  /\ disk' = [disk EXCEPT ![p] = fdata[p]]
  /\ unsaved' = unsaved \ {p}
  /\ UNCHANGED <<fdata, flen, log, logExists, torn, dlog, pend, procVars,
                 committed, durable, unlocked>>

WriteBackLog(n) ==
  /\ n <= Len(log)
  /\ ~pend => n >= Len(dlog)
  /\ LogOnDisk(SubSeq(log, 1, n))
  /\ unlocked' = (unlocked /\ n < Len(log))
  /\ UNCHANGED <<fdata, disk, flen, log, logExists, torn, procVars,
                 committed, unsaved>>

Open     == OpenNew \/ OpenExisting
Recover  == RecoverRecord \/ RecoverEnd
Finish   == Msync \/ TruncateLog \/ Protect
Client   == \/ commit \/ rollback \/ close
            \/ \E n \in 1..MaxPages+1 : set_size(n)
            \/ \E c \in Content : ExtendHeader(c)
            \/ \E p \in Page, c \in Content : Store(p, c)
            \/ \E p \in Page : create_shadow_page(p)
Kernel   == \/ \E p \in Page : WriteBack(p)
            \/ \E n \in 0..Len(log) : WriteBackLog(n)

Next == \/ Open \/ Recover \/ Finish \/ Client \/ UnlinkLog
        \/ CrashProcess \/ LosePower \/ Kernel

Spec == Init /\ [][Next]_vars

\* open() and commit() go on by themselves once they have begun.
Fairness == WF_vars(Recover) /\ WF_vars(Finish)
FairSpec == Spec /\ Fairness

-----------------------------------------------------------------------------
(***************************************************************************)
(* Variants of the specification.                                          *)
(***************************************************************************)
\* The machine stays up: only the process may crash.
CrashNext == Open \/ Recover \/ Finish \/ Client \/ UnlinkLog \/ CrashProcess
CrashSpec == Init /\ [][CrashNext]_vars

\* Power is lost although close() left pages to the kernel.
LosePowerAfterClose == ~unlocked /\ LoseCache
CloseSpec == Init /\ [][Next \/ LosePowerAfterClose]_vars

-----------------------------------------------------------------------------
(***************************************************************************)
(* Properties.                                                             *)
(***************************************************************************)
\* Copying the records of lg back into img, some of them and then all of them
\* in any order, gives target wherever target is live.
Restores(img, lg, target) ==
  /\ \A i \in DOMAIN lg :
       lg[i].page \in Live(target) => lg[i].img = target[lg[i].page]
  /\ \A p \in Live(target) : img[p] = target[p] \/ p \in Pages(lg)

\* Whenever the process dies - inside commit(), rollback(), recovery, the
\* fault handler or close() - the log still takes the file, as the page cache
\* holds it, back to the last committed transaction.
CrashRecoverable == Restores(fdata, log, committed)

\* The same for power loss and what the disk holds, whatever pages and log
\* records the kernel chose to write: a page reaches the disk changed only
\* after its shadow did.  Two situations the code does not cover are excluded:
\* pages dirty at close(), and a power loss after a crash that dropped the
\* locks of pages whose records were still in the cache.
PowerLossRecoverable ==
  (unsaved = {} /\ ~unlocked) => Restores(disk, dlog, durable)

\* A page is saved in the log at most once between two commits, across any
\* number of rollbacks: the log never outgrows the file.
Distinct(lg) == \A i, j \in DOMAIN lg : lg[i].page = lg[j].page => i = j
ShadowOnce == Distinct(log)

\* Neither the client nor recover_file() touches the mapping beyond the end of
\* the file (SIGBUS): set_size() after a rollback may shorten the file again.
NoBusError ==
  /\ pc \in {"ready", "extend"} => HdrSize(fdata) <= flen
  /\ \A i \in DOMAIN log : log[i].page < flen

\* size always spans the committed pages, so that commit() syncs and protects
\* every one of them, also when recovery stopped at a torn record.
SizeCoversCommitted ==
  pc # "down" => /\ HdrSize(committed) <= HdrSize(fdata)
                 /\ HdrSize(fdata) <= size

\* An open() that found a log ends with the storage ready, however often
\* earlier recoveries were cut short, unless the process crashes again.
RecoveryEnds == pc = "recover" ~> pc \in {"ready", "down"}
=============================================================================
