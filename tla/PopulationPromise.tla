-------------------------- MODULE PopulationPromise --------------------------
(***************************************************************************)
(* What the cache promises its callers, without directories, staging files *)
(* or system calls.  An entry is absent, complete or damaged; only the one *)
(* owner of a build identifier completes its entry; an entry is kept once  *)
(* its publication is acknowledged; only a damaged entry is taken away.    *)
(* A process without the lock may install one entry, which is foreign from *)
(* then on: it may take that name away, and what becomes of it in a power  *)
(* loss is not promised.                                                   *)
(***************************************************************************)
CONSTANTS Procs, Keys, NoProc

VARIABLES entry, owner, kept, foreign

States == {"absent", "complete", "damaged"}

Init ==
  /\ entry = [k \in Keys |-> "absent"]
  /\ owner = [k \in Keys |-> NoProc]
  /\ kept = {} /\ foreign = {}

Acquire(p, k) ==
  /\ owner[k] = NoProc /\ (entry[k] = "absent" \/ k \in foreign)
  /\ \A j \in Keys : owner[j] # p
  /\ owner' = [owner EXCEPT ![k] = p]
  /\ UNCHANGED <<entry, kept, foreign>>

\* Publication ends ownership: the entry is there for everyone.
Complete(k) ==
  /\ owner[k] # NoProc /\ entry[k] = "absent"
  /\ entry' = [entry EXCEPT ![k] = "complete"]
  /\ owner' = [owner EXCEPT ![k] = NoProc]
  /\ UNCHANGED <<kept, foreign>>

Acknowledge(k) ==
  /\ entry[k] # "absent"
  /\ kept' = kept \union {k}
  /\ UNCHANGED <<entry, owner, foreign>>

GiveUp(k) ==
  /\ owner' = [owner EXCEPT ![k] = NoProc]
  /\ UNCHANGED <<entry, kept, foreign>>

Damage(k) ==
  /\ entry[k] = "complete"
  /\ entry' = [entry EXCEPT ![k] = "damaged"]
  /\ UNCHANGED <<owner, kept, foreign>>

\* A damaged entry is removed by whoever finds it, before it owns the key; the
\* process without the lock may have been faster.
Repair(k) ==
  /\ entry[k] = "damaged" \/ (entry[k] = "absent" /\ k \in foreign)
  /\ entry' = [entry EXCEPT ![k] = "absent"]
  /\ kept' = kept \ {k}
  /\ UNCHANGED <<owner, foreign>>

\* Everybody dies; a complete entry may go if it was not acknowledged, and a
\* removed one may come back damaged.
LosePower ==
  /\ owner' = [k \in Keys |-> NoProc]
  /\ entry' \in [Keys -> States]
  /\ \A k \in Keys \ foreign : entry'[k] = "complete" => entry[k] = "complete"
  /\ \A k \in kept \ foreign : entry[k] = "complete" => entry'[k] = "complete"
  /\ UNCHANGED <<kept, foreign>>

Install(k) ==
  /\ k \notin foreign /\ entry[k] = "absent"
  /\ \E e \in {"complete", "damaged"} : entry' = [entry EXCEPT ![k] = e]
  /\ foreign' = foreign \union {k}
  /\ UNCHANGED <<owner, kept>>

Withdraw(k) ==
  /\ k \in foreign /\ entry[k] # "absent"
  /\ entry' = [entry EXCEPT ![k] = "absent"]
  /\ UNCHANGED <<owner, kept, foreign>>

Next ==
  \/ \E p \in Procs, k \in Keys : Acquire(p, k)
  \/ \E k \in Keys : Complete(k) \/ Acknowledge(k) \/ GiveUp(k) \/ Damage(k) \/ Repair(k)
                    \/ Install(k) \/ Withdraw(k)
  \/ LosePower

Spec == Init /\ [][Next]_<<entry, owner, kept, foreign>>
==============================================================================
