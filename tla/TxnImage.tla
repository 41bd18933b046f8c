------------------------------ MODULE TxnImage ------------------------------
(***************************************************************************)
(* What the transactional file promises its client: an image that is       *)
(* changed freely while the storage is open, replaces the committed image  *)
(* as a whole, and is otherwise forgotten.                                 *)
(***************************************************************************)
CONSTANT Image

VARIABLES st,    \* "closed", "open", or inside "commit" or "close"
          cur,   \* the image the client works on
          com,   \* the image a crash of the process leaves
          dcom   \* the image a power loss leaves

vars == <<st, cur, com, dcom>>

Init == /\ st = "closed"
        /\ com \in Image
        /\ cur = com
        /\ dcom = com

Open == st = "closed" /\ st' = "open" /\ cur' = com /\ UNCHANGED <<com, dcom>>

Write == st = "open" /\ cur' \in Image /\ UNCHANGED <<st, com, dcom>>

Rollback == st = "open" /\ cur' = com /\ UNCHANGED <<st, com, dcom>>

\* A commit or close has begun: the image can no longer change.  The last
\* committed image may become durable with it.
Begin(s) ==
  st = "open" /\ st' = s /\ dcom' \in {dcom, com} /\ UNCHANGED <<cur, com>>

Commit == st = "commit" /\ com' = cur /\ st' = "open" /\ UNCHANGED <<cur, dcom>>

Close == st = "close" /\ com' = cur /\ st' = "closed" /\ UNCHANGED <<cur, dcom>>

Crash == st' = "closed" /\ cur' = com /\ UNCHANGED <<com, dcom>>

PowerLoss == st' = "closed" /\ com' = dcom /\ cur' = dcom /\ UNCHANGED dcom

Harden == dcom' = com /\ UNCHANGED <<st, cur, com>>

Next == \/ Open \/ Write \/ Rollback \/ Begin("commit") \/ Begin("close")
        \/ Commit \/ Close \/ Crash \/ PowerLoss \/ Harden

Spec == Init /\ [][Next]_vars
=============================================================================
