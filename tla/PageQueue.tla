---------------------------- MODULE PageQueue ----------------------------
(***************************************************************************)
(* What a paged FIFO promises its two users: a queue of whole records.     *)
(* The head of the queue is the record on the reader's page.  Commit puts  *)
(* a record at the tail, or drops it (an overflow); an advance moves the   *)
(* reader to the next record, and only to one it has been shown.  The head *)
(* stays in place until a successor exists, so a reader that gets ahead    *)
(* sees the last record again and never a page that is being written.      *)
(***************************************************************************)
EXTENDS Naturals, Sequences

CONSTANTS
  Capacity,   \* committed records the queue holds, the reader's included
  Records     \* the records a writer can commit

VARIABLES
  queue,      \* committed records, oldest first
  visible     \* how many of them the reader has been shown

vars == <<queue, visible>>

Init == queue = << >> /\ visible = 0

(* One step of either side, or of both at once.  A dropped commit is a     *)
(* step with commit = << >>; a refused advance is one with advance = FALSE. *)
Step(commit, advance) ==
  LET kept == IF advance THEN Tail(queue) ELSE queue
      seen == IF advance THEN visible - 1 ELSE visible
  IN  /\ advance => visible >= 2
      /\ Len(queue \o commit) <= Capacity
      /\ queue' = kept \o commit
      /\ visible' \in seen .. Len(queue')

Commits == {<< >>} \union {<<r>> : r \in Records}

Next == \E commit \in Commits, advance \in BOOLEAN : Step(commit, advance)

Spec == Init /\ [][Next]_vars
=============================================================================
