----------------------------- MODULE ShadowRace -----------------------------
(***************************************************************************)
(* Several threads of one process store into a storage opened in           *)
(* transaction mode.  The SIGSEGV handler takes no lock: it opens the page *)
(* for writing, copies it to the log and, if log writes are buffered,      *)
(* locks it in memory.  Each system call of the handler is a step here;    *)
(* PostFile has the handler as one step, which is what one thread sees.    *)
(*                                                                         *)
(* The application is taken to commit and roll back only while no thread   *)
(* is inside a store, since a transaction is one for the whole storage;    *)
(* and mlock(), which the constructor has tried, to succeed (PostFile has  *)
(* its failure).                                                           *)
(***************************************************************************)
EXTENDS Integers, SequencesExt

CONSTANTS Thread, Page, Value,
          Touches,       \* Touches[t]: pages thread t stores into
          MaxLocked,     \* max_locked_pages given to the constructor
          MaxLog         \* bound on the records of the log

ASSUME RaceAssumption ==
  /\ Touches \in [Thread -> SUBSET Page]
  /\ MaxLocked \in Nat /\ MaxLog \in Nat

VARIABLES
  mem,      \* the mapped pages
  rw,       \* pages mapped PROT_READ|PROT_WRITE
  log,      \* records of the log file
  synced,   \* how many of them are on the disk
  mlocked,  \* pages locked in memory
  slots,    \* locked_page[0..n_locked_pages-1]
  maxLocked,\* post_file::max_locked_pages; 0: the log is opened O_SYNC
  pc,       \* where each thread is: in the client or in the handler
  at,       \* the page it faulted on
  base      \* pages as the last commit left them

vars == <<mem, rw, log, synced, mlocked, slots, maxLocked, pc, at, base>>
handler == <<pc, at>>

TypeOK ==
  /\ mem \in [Page -> Value] /\ base \in [Page -> Value]
  /\ rw \subseteq Page /\ mlocked \subseteq Page
  /\ log \in Seq([page : Page, img : Value]) /\ synced \in 0..Len(log)
  /\ slots \in Seq(Page) /\ maxLocked \in 0..MaxLocked
  /\ pc \in [Thread -> {"client", "protect", "write", "lock", "push",
                        "fsync", "unlock"}]
  /\ at \in [Thread -> Page]

Init ==
  /\ mem \in [Page -> Value] /\ base = mem
  /\ rw = {} /\ log = <<>> /\ synced = 0
  /\ mlocked = {} /\ slots = <<>> /\ maxLocked \in {0, MaxLocked}
  /\ pc = [t \in Thread |-> "client"]
  /\ at \in [Thread -> Page]

Goto(t, label) == pc' = [pc EXCEPT ![t] = label]

\* A store into a writable page.
Store(t, p, v) ==
  /\ pc[t] = "client" /\ p \in Touches[t] /\ p \in rw
  /\ mem' = [mem EXCEPT ![p] = v]
  /\ UNCHANGED <<rw, log, synced, mlocked, slots, maxLocked, handler, base>>

\* A store into a protected page enters the handler.
sigsegv_handler(t, p) ==
  /\ pc[t] = "client" /\ p \in Touches[t] /\ p \notin rw
  /\ Goto(t, "protect")
  /\ at' = [at EXCEPT ![t] = p]
  /\ UNCHANGED <<mem, rw, log, synced, mlocked, slots, maxLocked, base>>

mprotect(t) ==
  /\ pc[t] = "protect"
  /\ rw' = rw \cup {at[t]}
  /\ Goto(t, "write")
  /\ UNCHANGED <<mem, log, synced, mlocked, slots, maxLocked, at, base>>

\* Variant: the copy is never written.
NoWritev(t) ==
  /\ pc[t] = "write" /\ Len(log) < MaxLog
  /\ Goto(t, "client")
  /\ UNCHANGED <<mem, rw, log, synced, mlocked, slots, maxLocked, at, base>>

\* Variant: the log is not opened O_SYNC.
WritevCached(t) ==
  /\ pc[t] = "write" /\ Len(log) < MaxLog
  /\ log' = Append(log, [page |-> at[t], img |-> mem[at[t]]])
  /\ Goto(t, IF maxLocked = 0 THEN "client" ELSE "lock")
  /\ UNCHANGED <<mem, rw, synced, mlocked, slots, maxLocked, at, base>>

writev(t) ==
  /\ pc[t] = "write" /\ Len(log) < MaxLog
  /\ log' = Append(log, [page |-> at[t], img |-> mem[at[t]]])
  /\ synced' = IF maxLocked = 0 THEN Len(log') ELSE synced
  /\ Goto(t, IF maxLocked = 0 THEN "client" ELSE "lock")
  /\ UNCHANGED <<mem, rw, mlocked, slots, maxLocked, at, base>>

\* The test of n_locked_pages, and mlock() if there is room.
mlock(t) ==
  /\ pc[t] = "lock"
  /\ IF Len(slots) >= maxLocked
     THEN Goto(t, "fsync") /\ UNCHANGED mlocked
     ELSE Goto(t, "push") /\ mlocked' = mlocked \cup {at[t]}
  /\ UNCHANGED <<mem, rw, log, synced, slots, maxLocked, at, base>>

\* locked_page[n_locked_pages++] = page
PushLocked(t) ==
  /\ pc[t] = "push"
  /\ slots' = Append(slots, at[t])
  /\ Goto(t, "client")
  /\ UNCHANGED <<mem, rw, log, synced, mlocked, maxLocked, at, base>>

\* flush_log_buffer(): fsync, then munlock of what locked_page holds by then.
fsync(t) ==
  /\ pc[t] = "fsync"
  /\ synced' = Len(log)
  /\ Goto(t, "unlock")
  /\ UNCHANGED <<mem, rw, log, mlocked, slots, maxLocked, at, base>>

munlock(t) ==
  /\ pc[t] = "unlock"
  /\ mlocked' = mlocked \ Range(slots)
  /\ slots' = <<>>
  /\ Goto(t, "client")
  /\ UNCHANGED <<mem, rw, log, synced, maxLocked, at, base>>

Quiet == \A t \in Thread : pc[t] = "client"

commit ==
  /\ Quiet
  /\ base' = mem
  /\ rw' = {} /\ log' = <<>> /\ synced' = 0
  /\ mlocked' = mlocked \ Range(slots) /\ slots' = <<>>
  /\ UNCHANGED <<mem, maxLocked, handler>>

\* The records of a page.
Shadows(p) == {i \in 1..Len(log) : log[i].page = p}

\* recover_file(): the records in the order they were written, so that the
\* last one of a page stays.
Undone ==
  [p \in Page |-> IF Shadows(p) = {} THEN mem[p] ELSE log[Max(Shadows(p))].img]

\* The log stays and the pages stay writable.
rollback ==
  /\ Quiet
  /\ mem' = Undone
  /\ UNCHANGED <<rw, log, synced, mlocked, slots, maxLocked, handler, base>>

Next ==
  \/ \E t \in Thread :
       \/ \E p \in Page : sigsegv_handler(t, p) \/ \E v \in Value : Store(t, p, v)
       \/ mprotect(t) \/ writev(t) \/ mlock(t) \/ PushLocked(t)
       \/ fsync(t) \/ munlock(t)
  \/ commit
  \/ rollback

Spec == Init /\ [][Next]_vars

\* Whenever the process ends, copying the logged pages back undoes every store
\* made since the commit.
ChangesUndone == Undone = base

\* A page that differs from its committed image either has its shadow on the
\* disk or is locked in memory, so that it is not written out before the log.
WriteAhead ==
  \A p \in Page :
    mem[p] # base[p] =>
      \/ p \in mlocked
      \/ \E i \in 1..synced : log[i].page = p

\* With synchronous log writes no page runs ahead of the log, whichever thread
\* changed it and wherever the others are in the handler.
SyncWriteAhead == maxLocked = 0 => WriteAhead

-----------------------------------------------------------------------------
(* The inductive invariant, for threads with pages of their own.           *)

OwnPages == \A t, u \in Thread : t # u => Touches[t] \cap Touches[u] = {}

\* Inside the handler a thread is at a page of its own, which it has not
\* opened yet, or has opened and not yet copied.
HandlerInv ==
  \A t \in Thread :
    /\ pc[t] # "client" => at[t] \in Touches[t]
    /\ pc[t] = "protect" => at[t] \notin rw
    /\ pc[t] = "write" => /\ at[t] \in rw /\ Shadows(at[t]) = {}
                          /\ mem[at[t]] = base[at[t]]

\* A page that was never opened is unchanged; one that was opened is in the
\* log or about to be copied there.
PageInv ==
  \A p \in Page :
    IF p \in rw
    THEN Shadows(p) # {} \/ \E t \in Thread : pc[t] = "write" /\ at[t] = p
    ELSE Shadows(p) = {} /\ mem[p] = base[p]

\* The log holds the committed images, one for a page.
LogInv ==
  /\ \A i \in 1..Len(log) : log[i].img = base[log[i].page]
  /\ \A i, j \in 1..Len(log) : log[i].page = log[j].page => i = j
  /\ maxLocked = 0 => synced = Len(log)

RaceInv == TypeOK /\ HandlerInv /\ PageInv /\ LogInv
=============================================================================
