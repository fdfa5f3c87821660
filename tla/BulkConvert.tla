----------------------------- MODULE BulkConvert -----------------------------
(***************************************************************************)
(* The worker pool of a batch conversion (gsymtool/src/bulk.rs): workers   *)
(* take job indices from an atomic cursor, convert, and send events to the *)
(* main thread, which counts and prints them inside thread::scope. When    *)
(* the terminal fails, the main thread returns early and drops the         *)
(* receiver; the workers notice when they next send.                       *)
(***************************************************************************)
EXTENDS Integers, Sequences, FiniteSets

CONSTANTS
  Workers,
  Jobs,             \* number of jobs of the plan; plan() rejects an empty one
  TerminalMayFail,  \* whether writing to the terminal may fail
  MaxPanics         \* bound: conversions that panic

ASSUME BulkAssumption ==
  /\ Jobs \in Nat \ {0}
  /\ Workers # {}
  /\ TerminalMayFail \in BOOLEAN
  /\ MaxPanics \in Nat

Job == 1..Jobs
Outcomes == {"converted", "empty", "failed"}
NoJob == 0

\* A Discovery message is about the job its worker converts; a Finished one
\* carries the outcome.
Event == [kind : {"Started", "Discovery"}, job : Job]
    \cup [kind : {"Finished"}, job : Job, result : Outcomes]

VARIABLES
  cursor,    \* AtomicUsize: the next index to hand out
  channel,   \* events sent and not received
  open,      \* the receiver has not been dropped
  pc,        \* [Workers -> ...] where in work() a worker is
  job,       \* [Workers -> Job \cup {NoJob}]
  produced,  \* [Job -> Outcomes \cup {"none"}]: what convert_one returned
  written,   \* jobs whose output file was persisted
  tally,     \* [Job -> [Outcomes -> Nat]]: how Totals counted a job
  main,      \* "receive", "join", "returned"
  result,    \* "none", "ok", "error", "panic"
  panics

pool   == <<cursor, pc, job, panics>>
events == <<channel, open>>
files  == <<produced, written>>
caller == <<tally, main, result>>
vars   == <<pool, events, files, caller>>

Init ==
  /\ cursor = 1
  /\ channel = <<>>
  /\ open = TRUE
  /\ pc = [w \in Workers |-> "claim"]
  /\ job = [w \in Workers |-> NoJob]
  /\ produced = [j \in Job |-> "none"]
  /\ written = {}
  /\ tally = [j \in Job |-> [o \in Outcomes |-> 0]]
  /\ main = "receive"
  /\ result = "none"
  /\ panics = 0

-----------------------------------------------------------------------------
(* work *)

Stop(w) ==
  /\ pc' = [pc EXCEPT ![w] = "stopped"]
  /\ job' = [job EXCEPT ![w] = NoJob]

\* Mutant: the index is loaded and stored in two steps, another store may win.
Claim_NotAtomic(w) ==
  /\ pc[w] = "claim"
  /\ cursor' \in {cursor, cursor + 1}
  /\ IF cursor \in Job
       THEN /\ job' = [job EXCEPT ![w] = cursor]
            /\ pc' = [pc EXCEPT ![w] = "announce"]
       ELSE Stop(w)
  /\ UNCHANGED <<panics, events, files, caller>>

\* fetch_add and the bounds check; the index belongs to this worker alone.
Claim(w) ==
  /\ pc[w] = "claim"
  /\ cursor' = cursor + 1
  /\ IF cursor \in Job
       THEN /\ job' = [job EXCEPT ![w] = cursor]
            /\ pc' = [pc EXCEPT ![w] = "announce"]
       ELSE Stop(w)
  /\ UNCHANGED <<panics, events, files, caller>>

\* Sender::send: queues without waiting, fails once the receiver is gone.
Send(event) == channel' = Append(channel, event)

\* Mutant: a failed send is ignored, as it is for Discovery messages.
Announce_Ignored(w) ==
  /\ pc[w] = "announce"
  /\ pc' = [pc EXCEPT ![w] = "convert"]
  /\ IF open
       THEN Send([kind |-> "Started", job |-> job[w]])
       ELSE UNCHANGED channel
  /\ UNCHANGED <<cursor, job, panics, open, files, caller>>

Announce(w) ==
  /\ pc[w] = "announce"
  /\ IF open
       THEN /\ Send([kind |-> "Started", job |-> job[w]])
            /\ pc' = [pc EXCEPT ![w] = "convert"]
            /\ UNCHANGED job
       ELSE Stop(w) /\ UNCHANGED channel
  /\ UNCHANGED <<cursor, panics, open, files, caller>>

\* The observer's message is dropped when nobody receives it.
Discover(w) ==
  /\ pc[w] = "convert"
  /\ pc' = [pc EXCEPT ![w] = "discovered"]
  /\ IF open
       THEN Send([kind |-> "Discovery", job |-> job[w]])
       ELSE UNCHANGED channel
  /\ UNCHANGED <<cursor, job, panics, open, files, caller>>

Converting(w) == pc[w] \in {"convert", "discovered"}

\* convert_one: an input without functions is empty; the output is renamed
\* into place before its length is asked for, which may fail.
Convert(w) ==
  /\ Converting(w)
  /\ \E outcome \in Outcomes, persisted \in BOOLEAN :
       /\ outcome = "converted" => persisted
       /\ outcome = "empty" => ~persisted
       /\ produced' = [produced EXCEPT ![job[w]] = outcome]
       /\ written' = IF persisted THEN written \cup {job[w]} ELSE written
  /\ pc' = [pc EXCEPT ![w] = "deliver"]
  /\ UNCHANGED <<cursor, job, panics, events, caller>>

Panic(w) ==
  /\ Converting(w)
  /\ panics < MaxPanics
  /\ panics' = panics + 1
  /\ pc' = [pc EXCEPT ![w] = "panicked"]
  /\ UNCHANGED <<cursor, job, events, files, caller>>

Deliver(w) ==
  /\ pc[w] = "deliver"
  /\ IF open
       THEN /\ Send([kind |-> "Finished", job |-> job[w], result |-> produced[job[w]]])
            /\ pc' = [pc EXCEPT ![w] = "claim"]
            /\ job' = [job EXCEPT ![w] = NoJob]
       ELSE Stop(w) /\ UNCHANGED channel
  /\ UNCHANGED <<cursor, panics, open, files, caller>>

-----------------------------------------------------------------------------
(* execute *)

Ended(w) == pc[w] \in {"stopped", "panicked"}

\* Mutant: the main thread keeps the sender it cloned from.
SendersGone_KeptOne == FALSE

\* The main thread dropped its own sender: the channel ends with the workers.
SendersGone == \A w \in Workers : Ended(w)

\* The loop is left by `?`: the receiver and what it still holds are dropped.
GiveUp ==
  /\ TerminalMayFail
  /\ open' = FALSE
  /\ channel' = <<>>
  /\ main' = "join"
  /\ result' = "error"

Carry ==
  /\ channel' = Tail(channel)
  /\ UNCHANGED <<open, main, result>>

Count(event) ==
  tally' = IF event.kind = "Finished"
             THEN [tally EXCEPT ![event.job][event.result] = @ + 1]
             ELSE tally

\* One turn of the loop: report counts before it prints.
Receive ==
  /\ main = "receive"
  /\ channel # <<>>
  /\ Count(Head(channel))
  /\ Carry \/ GiveUp
  /\ UNCHANGED <<pool, files>>

\* Mutant: stops receiving when every index is handed out.
EndOfChannel_Early ==
  /\ main = "receive"
  /\ channel = <<>>
  /\ cursor > Jobs
  /\ main' = "join"
  /\ result' = "ok"
  /\ open' = FALSE
  /\ UNCHANGED <<pool, channel, files, tally>>

EndOfChannel ==
  /\ main = "receive"
  /\ channel = <<>>
  /\ SendersGone
  /\ main' = "join"
  /\ result' = "ok"
  /\ open' = FALSE
  /\ UNCHANGED <<pool, channel, files, tally>>

\* thread::scope joins every worker and panics if one of them did.
Join ==
  /\ main = "join"
  /\ \A w \in Workers : Ended(w)
  /\ main' = "returned"
  /\ result' = IF \E w \in Workers : pc[w] = "panicked" THEN "panic" ELSE result
  /\ UNCHANGED <<pool, events, files, tally>>

Work(w) ==
  Claim(w) \/ Announce(w) \/ Discover(w) \/ Convert(w) \/ Panic(w) \/ Deliver(w)

Main == Receive \/ EndOfChannel \/ Join

Next == Main \/ \E w \in Workers : Work(w)

Spec == Init /\ [][Next]_vars

\* Threads are scheduled and conversions end.
FairSpec == Spec /\ WF_vars(Main) /\ \A w \in Workers : WF_vars(Work(w))

-----------------------------------------------------------------------------
(* Properties *)

Holding(w) == pc[w] \in {"announce", "convert", "discovered", "deliver", "panicked"}

\* Every variable keeps its type; a worker past claim holds a job, and what it
\* delivers it has produced.
BulkTypeOK ==
  /\ cursor \in Nat \ {0}
  /\ channel \in Seq(Event)
  /\ open \in BOOLEAN
  /\ pc \in [Workers -> {"claim", "announce", "convert", "discovered", "deliver",
                         "stopped", "panicked"}]
  /\ job \in [Workers -> Job \cup {NoJob}]
  /\ produced \in [Job -> Outcomes \cup {"none"}]
  /\ written \subseteq Job
  /\ tally \in [Job -> [Outcomes -> Nat]]
  /\ main \in {"receive", "join", "returned"}
  /\ result \in {"none", "ok", "error", "panic"}
  /\ panics \in Nat
  /\ \A w \in Workers :
       /\ Holding(w) => job[w] # NoJob
       /\ pc[w] = "deliver" => produced[job[w]] # "none"

\* A job is handed to one worker, once: two workers never convert the same
\* input, and a job that is handed out has not been converted before.
HandedOutOnce ==
  \A v, w \in Workers :
    job[w] # NoJob =>
      /\ job[w] < cursor
      /\ v # w => job[v] # job[w]
      /\ pc[w] \in {"announce", "convert", "discovered"} => produced[job[w]] = "none"

\* A batch that returns Ok handled every job of the plan, and its totals count
\* every job once, as what became of it: a failed job stops nothing, and what
\* is counted as converted is on disk.
AllAccounted ==
  main = "returned" /\ result = "ok" =>
    \A j \in Job :
      /\ produced[j] # "none"
      /\ tally[j] = [o \in Outcomes |-> IF o = produced[j] THEN 1 ELSE 0]
      /\ produced[j] = "converted" => j \in written

\* A terminal error stops the batch: once the receiver is gone, no worker
\* begins another conversion, whatever it had claimed by then.
StopsEarly ==
  [][~open => \A w \in Workers : Converting(w)' => Converting(w)]_vars

\* The batch returns, whether all goes well, the terminal fails, or a worker
\* panics: nobody waits for a sender or for a worker that will not end.
BatchReturns == <>(main = "returned")
=============================================================================
