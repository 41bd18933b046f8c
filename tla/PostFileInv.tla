---------------------------- MODULE PostFileInv ----------------------------
(***************************************************************************)
(* The inductive invariant behind the recoverability of PostFile, and the  *)
(* mapping under which PostFile implements TxnImage.                       *)
(***************************************************************************)
EXTENDS PostFile

Opening == {"recover", "rmsync", "rtrunc"}
Working == {"ready", "extend", "undo", "msync", "trunc", "unlink"}

\* The file as a client sees it: nothing beyond hdr->file_size.
Clip(img) == Cut(img, HdrSize(img))

TxnSt == IF pc \in {"msync", "trunc"} THEN "commit"
         ELSE IF pc = "unlink" THEN "close"
         ELSE IF pc \in {"ready", "extend", "undo", "protect"} THEN "open"
         ELSE "closed"

\* During rollback the committed image is already what counts.
TxnCur == IF pc \in {"ready", "extend", "msync", "trunc", "protect", "unlink"}
          THEN Clip(fdata) ELSE Clip(committed)

Txn == INSTANCE TxnImage WITH Image <- Image, st <- TxnSt, cur <- TxnCur,
                              com <- Clip(committed), dcom <- Clip(durable)

\* PostFile implements the abstract transactional image: at every point an
\* open, a rollback or a recovery shows exactly the committed image, and
\* commit() and close() replace it in one step.
ImplementsTxnImage == Txn!Spec

-----------------------------------------------------------------------------
L == Live(committed)
D == Live(durable)

HeaderInv ==
  /\ HdrSize(durable) > 0
  /\ HdrSize(durable) <= HdrSize(committed)
  /\ HdrSize(committed) <= HdrSize(fdata)
  /\ pc # "down" => HdrSize(fdata) <= size
  /\ pc = "extend" => HdrSize(fdata) < size
  /\ HdrSize(committed) <= HdrSize(disk) \/ 0 \in unsaved

LogInv ==
  /\ ~logExists => log = <<>> /\ pc = "down"
  /\ pc = "protect" => log = <<>>
  /\ pc \in Working => Pages(log) \subseteq rw /\ rw \cap L \subseteq Pages(log)
  /\ locked # {} => pc \in {"ready", "extend", "undo"}
  /\ maxLocked = 0 => locked = {}
  /\ unlocked => logExists /\ pc \in Opening \cup {"down"}

\* Records already copied back, and what the end of recovery established.
ReplayInv ==
  /\ ri <= Len(log) + 1 \/ pc \notin {"recover", "undo"}
  /\ pc \in {"recover", "undo"} =>
       \A i \in DOMAIN log : i < ri /\ log[i].page \in L =>
         fdata[log[i].page] = committed[log[i].page]
  /\ pc \in {"rmsync", "rtrunc", "protect"} =>
       \A p \in L : fdata[p] = committed[p]
  /\ pc \in {"trunc", "rtrunc"} => 
       \A p \in Page : p < size => disk[p] = fdata[p] /\ p \notin unsaved

\* The disk against the log in the cache.
DiskInv == \A p \in L : disk[p] = committed[p] \/ p \in Pages(log) \/ p \in unsaved

\* The disk against the log on disk.
DurableInv ==
  /\ Distinct(dlog)
  /\ \A i \in DOMAIN dlog :
       dlog[i].page \in D => dlog[i].img = durable[dlog[i].page]
  /\ ~unlocked => \A p \in D : \/ disk[p] = durable[p]
                               \/ p \in Pages(dlog) \/ p \in unsaved

\* The two logs.
SyncedInv ==
  ~pend => /\ durable = committed
           /\ Len(dlog) <= Len(log)
           /\ \A i \in 1..Len(dlog) : dlog[i] = log[i]
           /\ ~unlocked => \A p \in Pages(log) \cap L : p \in locked \cup Pages(dlog)

PendingInv ==
  pend => /\ \A p \in D : committed[p] = durable[p] \/ p \in Pages(dlog)
          /\ ~unlocked => /\ Pages(log) \cap L \subseteq locked
                          /\ \A p \in L : disk[p] = committed[p] \/ p \in unsaved

IInv == /\ TypeOK /\ CrashRecoverable /\ ShadowOnce
        /\ HeaderInv /\ LogInv /\ ReplayInv
        /\ DiskInv /\ DurableInv /\ SyncedInv /\ PendingInv

-----------------------------------------------------------------------------
(***************************************************************************)
(* The strengthening of NoBusError for a log that never ends in a torn     *)
(* record: the file spans the committed pages, and only those are logged.  *)
(***************************************************************************)
LengthInv ==
  /\ HdrSize(committed) <= flen
  /\ pc \notin {"down", "recover"} => HdrSize(fdata) <= flen
  /\ pc \notin {"down", "recover", "unlink"} => asize <= flen
  /\ pc = "extend" => size <= flen

LoggedInv ==
  /\ Pages(log) \subseteq L /\ Pages(dlog) \subseteq D
  /\ pc # "down" => Page \ rw \subseteq L

SizeInv ==
  pc \in {"rmsync", "rtrunc", "protect", "ready", "msync", "trunc"} =>
    size = HdrSize(fdata)

BoundInv ==
  /\ ~torn
  /\ LengthInv
  /\ LoggedInv
  /\ SizeInv
=============================================================================
