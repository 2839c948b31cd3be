------------------------------ MODULE WorkQueue ------------------------------
(***************************************************************************)
(* What the queue promises to the rest of the service: every row of work   *)
(* is leased to one worker at a time, at most once more than it may be     *)
(* retried, and a row that has been settled never comes back.  The promise *)
(* ends for a row whose lease expired under a worker that was still at     *)
(* work; such a row may have several workers, but stays settled once it    *)
(* is.  Rows are independent of each other: a step of the system may move  *)
(* any number of them.                                                     *)
(***************************************************************************)
EXTENDS Naturals

CONSTANTS Items, Workers, MaxRetries

VARIABLES
  state,    \* what has become of each row
  holders,  \* the workers that believe a row is theirs
  grants,   \* how often a row was leased
  expired   \* rows whose lease expired under a worker

vars == <<state, holders, grants, expired>>

Init ==
  /\ state = [i \in Items |-> "absent"]
  /\ holders = [i \in Items |-> {}]
  /\ grants = [i \in Items |-> 0]
  /\ expired = {}

Promised(i) == i \notin expired

KeepsExpiry(i) == i \in expired' <=> i \in expired
KeepsLease(i) ==
  /\ holders'[i] = holders[i] /\ grants'[i] = grants[i]
  /\ KeepsExpiry(i)

Submit(i) ==
  /\ state[i] = "absent" /\ state'[i] = "waiting"
  /\ KeepsLease(i)

Lease(i) ==
  /\ state[i] = "waiting" /\ state'[i] = "leased"
  /\ Promised(i) => holders[i] = {} /\ grants[i] <= MaxRetries
  /\ \E w \in Workers : holders'[i] = holders[i] \union {w}
  /\ grants'[i] = grants[i] + 1
  /\ KeepsExpiry(i)

(* By its worker, which lets go of it, or when nobody holds it any more.   *)
GiveBack(i) ==
  /\ state[i] = "leased" /\ state'[i] = "waiting"
  /\ holders'[i] \subseteq holders[i]
  /\ Promised(i) => holders'[i] = {} /\ grants[i] <= MaxRetries
  /\ grants'[i] = grants[i]
  /\ KeepsExpiry(i)

(* Finished, given up after the last retry, or withdrawn: a worker may     *)
(* learn of a withdrawal later.                                            *)
Settle(i) ==
  /\ state[i] \in {"waiting", "leased"} /\ state'[i] = "settled"
  /\ holders'[i] \subseteq holders[i]
  /\ grants'[i] = grants[i]
  /\ KeepsExpiry(i)

(* A worker dies, gives up, or learns that the row was settled.            *)
LetGo(i) ==
  /\ state'[i] = state[i]
  /\ holders'[i] \subseteq holders[i]
  /\ grants'[i] = grants[i]
  /\ KeepsExpiry(i)

Expire(i) ==
  /\ holders[i] # {} /\ i \in expired'
  /\ state'[i] = state[i]
  /\ holders'[i] = holders[i] /\ grants'[i] = grants[i]

RowStep(i) ==
  \/ Submit(i) \/ Lease(i) \/ GiveBack(i) \/ Settle(i) \/ LetGo(i) \/ Expire(i)

Next == \A i \in Items : RowStep(i)

Spec == Init /\ [][Next]_vars
=============================================================================
