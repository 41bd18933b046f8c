-------------------------- MODULE ShadowRaceProofs --------------------------
(***************************************************************************)
(* Any number of threads inside the fault handler at the same time, each   *)
(* storing into pages of its own: the log undoes every store, and with     *)
(* synchronous log writes no page runs ahead of it.                        *)
(***************************************************************************)
EXTENDS ShadowRace, TLAPS

USE RaceAssumption

Record == [page : Page, img : Value]

-----------------------------------------------------------------------------
(* Facts about the log. *)

\* writev() adds the record at the end.
LEMMA AppendRecord ==
  ASSUME NEW lg \in Seq(Record), NEW r \in Record
  PROVE  /\ Append(lg, r) \in Seq(Record)
         /\ Len(Append(lg, r)) = Len(lg) + 1 /\ Len(lg) \in Nat
         /\ \A i \in 1..Len(lg) : Append(lg, r)[i] = lg[i]
         /\ Append(lg, r)[Len(lg) + 1] = r
OBVIOUS

\* The log brings back what the last commit left (recover_file).
LEMMA LogUndoes == ASSUME RaceInv PROVE Undone = base
<1>1. ASSUME NEW p \in Page PROVE Undone[p] = base[p]
  <2>1. CASE Shadows(p) = {}
    <3>1. mem[p] = base[p]
      BY <2>1 DEF RaceInv, PageInv, HandlerInv
    <3> QED BY <2>1, <3>1 DEF Undone
  <2>2. CASE Shadows(p) # {}
    <3>1. PICK i \in Shadows(p) : TRUE
      BY <2>2
    <3>2. i \in 1..Len(log) /\ log[i].page = p /\ \A j \in Shadows(p) : j = i
      BY <3>1 DEF RaceInv, LogInv, Shadows
    <3>3. Max(Shadows(p)) = i
      <4>1. i \in Shadows(p) /\ \A j \in Shadows(p) : i >= j
        BY <3>1, <3>2
      <4> QED BY <3>2, <4>1 DEF Max
    <3> QED BY <2>2, <3>2, <3>3 DEF Undone, RaceInv, LogInv
  <2> QED BY <2>1, <2>2
<1> QED BY <1>1 DEF Undone, RaceInv, TypeOK

-----------------------------------------------------------------------------
(* Every step keeps the invariant. *)

LEMMA InitInv == Init => RaceInv
BY DEF Init, RaceInv, TypeOK, HandlerInv, PageInv, LogInv, Shadows

\* A thread with pages of its own is the only one at them.
LEMMA Alone ==
  ASSUME OwnPages, RaceInv, NEW t \in Thread, NEW u \in Thread, NEW p \in Touches[t],
         pc[u] # "client", at[u] = p
  PROVE  u = t
BY DEF OwnPages, RaceInv, HandlerInv

LEMMA StoreInv ==
  ASSUME OwnPages, RaceInv, NEW t \in Thread, NEW p \in Page, NEW v \in Value, Store(t, p, v)
  PROVE  RaceInv'
<1> USE DEF Store, handler
<1>1. TypeOK'
  BY DEF RaceInv, TypeOK
<1>2. \A q \in Page : Shadows(q)' = Shadows(q)
  BY DEF Shadows
<1>3. \A u \in Thread : pc[u] = "write" => at[u] # p
  BY Alone
<1>4. HandlerInv'
  BY <1>2, <1>3 DEF RaceInv, TypeOK, HandlerInv
<1>5. PageInv'
  BY <1>2 DEF RaceInv, TypeOK, PageInv
<1>6. LogInv'
  BY DEF RaceInv, LogInv
<1> QED BY <1>1, <1>4, <1>5, <1>6 DEF RaceInv

LEMMA FaultInv ==
  ASSUME OwnPages, RaceInv, NEW t \in Thread, NEW p \in Page, sigsegv_handler(t, p)
  PROVE  RaceInv'
<1> USE DEF sigsegv_handler, Goto
<1>1. TypeOK'
  BY DEF RaceInv, TypeOK
<1>2. \A q \in Page : Shadows(q)' = Shadows(q)
  BY DEF Shadows
<1>3. HandlerInv'
  BY <1>2 DEF RaceInv, TypeOK, HandlerInv
<1>4. PageInv'
  BY <1>2 DEF RaceInv, TypeOK, PageInv
<1>5. LogInv'
  BY DEF RaceInv, LogInv
<1> QED BY <1>1, <1>3, <1>4, <1>5 DEF RaceInv

LEMMA MprotectInv ==
  ASSUME OwnPages, RaceInv, NEW t \in Thread, mprotect(t) PROVE RaceInv'
<1> USE DEF mprotect, Goto
<1>1. TypeOK'
  BY DEF RaceInv, TypeOK
<1>2. \A q \in Page : Shadows(q)' = Shadows(q)
  BY DEF Shadows
<1>3. \A u \in Thread : pc[u] = "protect" /\ u # t => at[u] # at[t]
  BY Alone DEF RaceInv, HandlerInv
<1>4. Shadows(at[t]) = {} /\ mem[at[t]] = base[at[t]] /\ at[t] \in Page
  BY DEF RaceInv, TypeOK, HandlerInv, PageInv
<1>5. HandlerInv'
  BY <1>2, <1>3, <1>4 DEF RaceInv, TypeOK, HandlerInv
<1>6. PageInv'
  BY <1>2, <1>4 DEF RaceInv, TypeOK, PageInv
<1>7. LogInv'
  BY DEF RaceInv, LogInv
<1> QED BY <1>1, <1>5, <1>6, <1>7 DEF RaceInv

LEMMA WritevInv ==
  ASSUME OwnPages, RaceInv, NEW t \in Thread, writev(t) PROVE RaceInv'
<1> DEFINE p == at[t]
           r == [page |-> p, img |-> mem[p]]
           n == Len(log)
<1>1. /\ pc[t] = "write" /\ log' = Append(log, r)
      /\ synced' = IF maxLocked = 0 THEN Len(log') ELSE synced
      /\ pc' = [pc EXCEPT ![t] = IF maxLocked = 0 THEN "client" ELSE "lock"]
      /\ UNCHANGED <<mem, rw, mlocked, slots, maxLocked, at, base>>
  BY DEF writev, Goto
<1>2. p \in Page /\ r \in Record /\ log \in Seq(Record)
  BY DEF RaceInv, TypeOK, Record
<1>3. /\ log' \in Seq(Record) /\ Len(log') = n + 1 /\ n \in Nat
      /\ \A i \in 1..n : log'[i] = log[i]
      /\ log'[n + 1] = r
  BY <1>1, <1>2, AppendRecord
<1>4. \A q \in Page :
        Shadows(q)' = Shadows(q) \cup (IF q = p THEN {n + 1} ELSE {})
  <2>1. \A q : {i \in 1..Len(log') : log'[i].page = q}
                  = {i \in 1..n : log[i].page = q} \cup (IF q = p THEN {n + 1} ELSE {})
    BY <1>3
  <2> QED BY <1>1, <2>1 DEF Shadows
<1>5. Shadows(p) = {} /\ mem[p] = base[p] /\ p \in rw
  BY <1>1 DEF RaceInv, HandlerInv
<1>6. \A u \in Thread : pc[u] = "write" /\ u # t => at[u] # p
  BY <1>1, Alone DEF RaceInv, HandlerInv
<1> HIDE DEF p, r, n
<1>7. TypeOK'
  BY <1>1, <1>3 DEF RaceInv, TypeOK, Record, n
<1>8. HandlerInv'
  BY <1>1, <1>4, <1>6 DEF RaceInv, TypeOK, HandlerInv
<1>9. PageInv'
  <2> SUFFICES ASSUME NEW q \in Page
               PROVE  IF q \in rw
                      THEN Shadows(q)' # {} \/ \E u \in Thread : pc'[u] = "write" /\ at[u] = q
                      ELSE Shadows(q)' = {} /\ mem[q] = base[q]
    BY <1>1 DEF PageInv
  <2>1. CASE q = p
    BY <1>4, <1>5, <2>1
  <2>2. CASE q # p
    <3>1. Shadows(q)' = Shadows(q)
      BY <1>4, <2>2
    <3>2. ASSUME NEW u \in Thread, pc[u] = "write", at[u] = q PROVE pc'[u] = "write"
      BY <1>1, <2>2, <3>2 DEF RaceInv, TypeOK, p
    <3> QED BY <3>1, <3>2 DEF RaceInv, PageInv
  <2> QED BY <2>1, <2>2
<1>10. LogInv'
  <2>1. \A i \in 1..n : log[i].page # p
    BY <1>5 DEF Shadows, n
  <2>2. r.page = p /\ r.img = mem[p]
    BY DEF r
  <2>3. \A i \in 1..n + 1 : log'[i].img = base[log'[i].page]
    BY <1>3, <1>5, <2>2 DEF RaceInv, LogInv, n
  <2>4. \A i, j \in 1..n + 1 : log'[i].page = log'[j].page => i = j
    <3>1. \A i, j \in 1..n : log'[i].page = log'[j].page => i = j
      BY <1>3 DEF RaceInv, LogInv, n
    <3>2. \A i \in 1..n : log'[i].page # log'[n + 1].page
      BY <1>3, <2>1, <2>2
    <3> QED BY <1>3, <3>1, <3>2
  <2> QED BY <1>1, <1>3, <2>3, <2>4 DEF LogInv
<1> QED BY <1>7, <1>8, <1>9, <1>10 DEF RaceInv

\* The rest of the handler is about locks on pages and leaves the log alone.
LEMMA LocksInv ==
  ASSUME RaceInv, NEW t \in Thread, mlock(t) \/ PushLocked(t) \/ fsync(t) \/ munlock(t)
  PROVE  RaceInv'
<1>1. UNCHANGED <<mem, rw, log, maxLocked, at, base>>
  BY DEF mlock, PushLocked, fsync, munlock
<1>2. \E l \in {"push", "fsync", "unlock", "client"} : pc' = [pc EXCEPT ![t] = l]
  BY DEF mlock, PushLocked, fsync, munlock, Goto
<1>3. pc[t] \in {"lock", "push", "fsync", "unlock"}
  BY DEF mlock, PushLocked, fsync, munlock
<1>4. synced' \in {synced, Len(log)}
  BY DEF mlock, PushLocked, fsync, munlock
<1>5. slots' \in Seq(Page) /\ mlocked' \subseteq Page
  <2> USE DEF RaceInv, TypeOK
  <2>1. CASE mlock(t)
    BY <2>1 DEF mlock
  <2>2. CASE PushLocked(t)
    BY <2>2 DEF PushLocked
  <2>3. CASE fsync(t)
    BY <2>3 DEF fsync
  <2>4. CASE munlock(t)
    BY <2>4 DEF munlock
  <2> QED BY <2>1, <2>2, <2>3, <2>4
<1>6. \A q \in Page : Shadows(q)' = Shadows(q)
  BY <1>1 DEF Shadows
<1>7. TypeOK'
  BY <1>1, <1>2, <1>4, <1>5 DEF RaceInv, TypeOK
<1>8. HandlerInv'
  BY <1>1, <1>2, <1>3, <1>6 DEF RaceInv, TypeOK, HandlerInv
<1>9. PageInv'
  BY <1>1, <1>2, <1>3, <1>6 DEF RaceInv, TypeOK, PageInv
<1>10. LogInv'
  BY <1>1, <1>4 DEF RaceInv, LogInv
<1> QED BY <1>7, <1>8, <1>9, <1>10 DEF RaceInv

LEMMA CommitInv == ASSUME RaceInv, commit PROVE RaceInv'
<1> USE DEF commit, handler, Quiet
<1>1. TypeOK'
  BY DEF RaceInv, TypeOK
<1>2. \A q \in Page : Shadows(q)' = {}
  BY DEF Shadows
<1>3. HandlerInv' /\ PageInv' /\ LogInv'
  BY <1>2 DEF RaceInv, TypeOK, HandlerInv, PageInv, LogInv
<1> QED BY <1>1, <1>3 DEF RaceInv

LEMMA RollbackInv == ASSUME RaceInv, rollback PROVE RaceInv'
<1> USE DEF rollback, handler, Quiet
<1>1. mem' = base
  BY LogUndoes
<1>2. TypeOK'
  BY <1>1 DEF RaceInv, TypeOK
<1>3. \A q \in Page : Shadows(q)' = Shadows(q)
  BY DEF Shadows
<1>4. HandlerInv' /\ LogInv'
  BY <1>3 DEF RaceInv, HandlerInv, LogInv
<1>5. PageInv'
  BY <1>1, <1>3 DEF RaceInv, PageInv
<1> QED BY <1>2, <1>4, <1>5 DEF RaceInv

LEMMA StepInv == OwnPages => (RaceInv /\ [Next]_vars => RaceInv')
<1> SUFFICES ASSUME OwnPages, RaceInv, [Next]_vars PROVE RaceInv'
  OBVIOUS
<1>1. ASSUME NEW t \in Thread, NEW p \in Page, sigsegv_handler(t, p) PROVE RaceInv'
  BY <1>1, FaultInv
<1>2. ASSUME NEW t \in Thread, NEW p \in Page, NEW v \in Value, Store(t, p, v) PROVE RaceInv'
  BY <1>2, StoreInv
<1>3. ASSUME NEW t \in Thread, mprotect(t) PROVE RaceInv'
  BY <1>3, MprotectInv
<1>4. ASSUME NEW t \in Thread, writev(t) PROVE RaceInv'
  BY <1>4, WritevInv
<1>5. ASSUME NEW t \in Thread, mlock(t) \/ PushLocked(t) \/ fsync(t) \/ munlock(t) PROVE RaceInv'
  BY <1>5, LocksInv
<1>6. CASE commit
  BY <1>6, CommitInv
<1>7. CASE rollback
  BY <1>7, RollbackInv
<1>8. CASE UNCHANGED vars
  BY <1>8 DEF vars, RaceInv, TypeOK, HandlerInv, PageInv, LogInv, Shadows
<1> QED
  BY <1>1, <1>2, <1>3, <1>4, <1>5, <1>6, <1>7, <1>8 DEF Next

-----------------------------------------------------------------------------
(* The results. *)

\* Threads with pages of their own keep the invariant that relates pages, log
\* and handler, however their system calls interleave.
THEOREM RaceInvariance == OwnPages => (Spec => []RaceInv)
<1> SUFFICES ASSUME OwnPages PROVE Spec => []RaceInv
  OBVIOUS
<1>1. Init => RaceInv
  BY InitInv
<1>2. RaceInv /\ [Next]_vars => RaceInv'
  BY StepInv
<1> QED BY <1>1, <1>2, PTL DEF Spec

\* If no page is stored into by two threads, a process that ends at any point
\* of any handler leaves a log that undoes every store since the commit.
THEOREM ThreadsUndone == OwnPages => (Spec => []ChangesUndone)
<1> SUFFICES ASSUME OwnPages PROVE Spec => []ChangesUndone
  OBVIOUS
<1>1. RaceInv => ChangesUndone
  BY LogUndoes DEF ChangesUndone
<1> QED BY <1>1, RaceInvariance, PTL

\* And with synchronous log writes the shadow of a changed page is on the disk
\* before the page can be.
THEOREM ThreadsWriteAhead == OwnPages => (Spec => []SyncWriteAhead)
<1> SUFFICES ASSUME OwnPages PROVE Spec => []SyncWriteAhead
  OBVIOUS
<1>1. RaceInv => SyncWriteAhead
  <2> SUFFICES ASSUME RaceInv, maxLocked = 0, NEW p \in Page, mem[p] # base[p]
               PROVE  \E i \in 1..synced : log[i].page = p
    BY DEF SyncWriteAhead, WriteAhead
  <2>1. Shadows(p) # {}
    BY DEF RaceInv, HandlerInv, PageInv
  <2> QED BY <2>1 DEF RaceInv, LogInv, Shadows
<1> QED BY <1>1, RaceInvariance, PTL
=============================================================================
