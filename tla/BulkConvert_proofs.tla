------------------------- MODULE BulkConvert_proofs -------------------------
(***************************************************************************)
(* For any number of workers and jobs: the pool hands every job to one     *)
(* worker, a batch that returns Ok accounts for every job, and a terminal  *)
(* error lets no worker begin another conversion.                          *)
(***************************************************************************)
EXTENDS BulkConvert, SequenceTheorems, TLAPS

LEMMA BulkTyped == Init => BulkTypeOK
BY BulkAssumption DEF Init, BulkTypeOK, NoJob, Holding

LEMMA Queued ==
  ASSUME NEW E, NEW c \in Seq(E), NEW e \in E
  PROVE  Append(c, e) \in Seq(E)
OBVIOUS

\* What one thread can change leaves the typing of the rest as it was.
LEMMA BulkTypeStep == BulkTypeOK /\ [Next]_vars => BulkTypeOK'
<1> SUFFICES ASSUME BulkTypeOK, [Next]_vars PROVE BulkTypeOK'
  OBVIOUS
<1> USE DEF BulkTypeOK, Holding, pool, events, files, caller
<1>1. ASSUME NEW w \in Workers, Claim(w) PROVE BulkTypeOK'
  <2>1. /\ cursor' \in Nat \ {0}
        /\ UNCHANGED <<panics, channel, open, produced, written, tally, main, result>>
    BY <1>1 DEF Claim
  <2>2. CASE cursor \in Job
    <3>1. /\ job' = [job EXCEPT ![w] = cursor]
          /\ pc' = [pc EXCEPT ![w] = "announce"]
      BY <1>1, <2>2 DEF Claim
    <3>2. cursor # NoJob
      BY DEF NoJob
    <3> QED
      BY <2>1, <2>2, <3>1, <3>2
  <2>3. CASE cursor \notin Job
    <3>1. /\ job' = [job EXCEPT ![w] = NoJob]
          /\ pc' = [pc EXCEPT ![w] = "stopped"]
      BY <1>1, <2>3 DEF Claim, Stop
    <3> QED
      BY <2>1, <3>1
  <2> QED
    BY <2>2, <2>3
<1>2. ASSUME NEW w \in Workers, Announce(w) PROVE BulkTypeOK'
  <2>1. CASE open
    <3>1. [kind |-> "Started", job |-> job[w]] \in Event
      BY <1>2 DEF Announce, Event, NoJob
    <3>2. channel' = Append(channel, [kind |-> "Started", job |-> job[w]])
      BY <1>2, <2>1 DEF Announce, Send
    <3>3. channel' \in Seq(Event)
      BY <3>1, <3>2, Queued
    <3>4. /\ pc' = [pc EXCEPT ![w] = "convert"] /\ pc[w] = "announce"
          /\ UNCHANGED <<job, cursor, panics, open, produced, written, tally, main, result>>
      BY <1>2, <2>1 DEF Announce
    <3> QED
      BY <3>3, <3>4
  <2>2. CASE ~open
    BY <1>2, <2>2 DEF Announce, Stop
  <2> QED
    BY <2>1, <2>2
<1>3. ASSUME NEW w \in Workers, Discover(w) PROVE BulkTypeOK'
  <2>1. [kind |-> "Discovery", job |-> job[w]] \in Event
    BY <1>3 DEF Discover, Event, NoJob
  <2>2. channel' \in Seq(Event)
    <3> DEFINE e == [kind |-> "Discovery", job |-> job[w]]
    <3>1. channel' = channel \/ channel' = Append(channel, e)
      BY <1>3 DEF Discover, Send
    <3>2. Append(channel, e) \in Seq(Event)
      BY <2>1, Queued
    <3> HIDE DEF e
    <3> QED
      BY <3>1, <3>2
  <2>3. /\ pc' = [pc EXCEPT ![w] = "discovered"] /\ pc[w] = "convert"
        /\ UNCHANGED <<job, cursor, panics, open, produced, written, tally, main, result>>
    BY <1>3 DEF Discover
  <2> QED
    BY <2>2, <2>3
<1>4. ASSUME NEW w \in Workers, Convert(w) PROVE BulkTypeOK'
  <2>1. PICK outcome \in Outcomes :
          /\ produced' = [produced EXCEPT ![job[w]] = outcome]
          /\ written' \in {written, written \cup {job[w]}}
    BY <1>4 DEF Convert
  <2>2. job[w] \in Job /\ outcome # "none"
    BY <1>4 DEF Convert, Converting, NoJob, Outcomes
  <2>3. produced' \in [Job -> Outcomes \cup {"none"}] /\ written' \subseteq Job
    BY <2>1, <2>2
  <2>4. \A j \in Job : produced'[j] = "none" => produced[j] = "none" /\ j # job[w]
    BY <2>1, <2>2
  <2>5. /\ pc' = [pc EXCEPT ![w] = "deliver"]
        /\ UNCHANGED <<job, cursor, channel, panics, open, tally, main, result>>
    BY <1>4 DEF Convert
  <2>6. ASSUME NEW v \in Workers
        PROVE  /\ Holding(v)' => job'[v] # NoJob
               /\ pc'[v] = "deliver" => produced'[job'[v]] # "none"
    <3>1. CASE v = w
      <4>1. job'[v] = job[w] /\ produced'[job[w]] # "none"
        BY <2>2, <2>4, <2>5, <3>1
      <4> QED
        BY <4>1, <2>2, <3>1, BulkAssumption DEF NoJob, Job
    <3>2. CASE v # w
      BY <2>4, <2>5, <3>2 DEF NoJob
    <3> QED
      BY <3>1, <3>2
  <2> QED
    BY <2>3, <2>5, <2>6
<1>5. ASSUME NEW w \in Workers, Panic(w) PROVE BulkTypeOK'
  BY <1>5 DEF Panic, Converting
<1>6. ASSUME NEW w \in Workers, Deliver(w) PROVE BulkTypeOK'
  <2>1. CASE open
    <3>1. job[w] \in Job /\ produced[job[w]] \in Outcomes
      BY <1>6 DEF Deliver, NoJob
    <3>2. [kind |-> "Finished", job |-> job[w], result |-> produced[job[w]]] \in Event
      BY <3>1 DEF Event
    <3>3. channel' \in Seq(Event)
      <4>1. channel' = Append(channel,
              [kind |-> "Finished", job |-> job[w], result |-> produced[job[w]]])
        BY <1>6, <2>1 DEF Deliver, Send
      <4> QED
        BY <3>2, <4>1, Queued
    <3>4. /\ pc' = [pc EXCEPT ![w] = "claim"] /\ job' = [job EXCEPT ![w] = NoJob]
          /\ UNCHANGED <<cursor, panics, open, produced, written, tally, main, result>>
      BY <1>6, <2>1 DEF Deliver
    <3> QED
      BY <3>3, <3>4
  <2>2. CASE ~open
    BY <1>6, <2>2 DEF Deliver, Stop
  <2> QED
    BY <2>1, <2>2
<1>7. CASE Receive
  <2>1. Head(channel) \in Event /\ Tail(channel) \in Seq(Event)
    BY <1>7, HeadTailProperties DEF Receive
  <2>2. channel' \in Seq(Event)
    <3>1. channel' = Tail(channel) \/ channel' = <<>>
      BY <1>7 DEF Receive, Carry, GiveUp
    <3>2. <<>> \in Seq(Event)
      OBVIOUS
    <3> QED
      BY <2>1, <3>1, <3>2
  <2>3. tally' \in [Job -> [Outcomes -> Nat]]
    <3>1. CASE Head(channel).kind = "Finished"
      <4>1. Head(channel).job \in Job /\ Head(channel).result \in Outcomes
        BY <2>1, <3>1 DEF Event
      <4>2. tally' = [tally EXCEPT ![Head(channel).job][Head(channel).result] = @ + 1]
        BY <1>7, <3>1 DEF Receive, Count
      <4> QED
        BY <4>1, <4>2
    <3>2. CASE Head(channel).kind # "Finished"
      BY <1>7, <3>2 DEF Receive, Count
    <3> QED
      BY <3>1, <3>2
  <2>4. /\ UNCHANGED <<cursor, pc, job, panics, produced, written>>
        /\ open' \in BOOLEAN
        /\ main' \in {"receive", "join", "returned"}
        /\ result' \in {"none", "ok", "error", "panic"}
    BY <1>7 DEF Receive, Carry, GiveUp
  <2> QED
    BY <2>2, <2>3, <2>4
<1>8. CASE EndOfChannel
  BY <1>8 DEF EndOfChannel
<1>9. CASE Join
  BY <1>9 DEF Join
<1>10. CASE UNCHANGED vars
  BY <1>10 DEF vars
<1> QED
  BY <1>1, <1>2, <1>3, <1>4, <1>5, <1>6, <1>7, <1>8, <1>9, <1>10
     DEF Next, Main, Work

\* Every variable keeps its type.
THEOREM TypeCorrect == Spec => []BulkTypeOK
BY BulkTyped, BulkTypeStep, PTL DEF Spec

-----------------------------------------------------------------------------
(* Jobs *)

\* The two conjuncts of HandedOutOnce that carry it are inductive with the
\* third one replaced by what has happened to the jobs not handed out yet.
HandOutInv ==
  /\ BulkTypeOK
  /\ HandedOutOnce
  /\ \A j \in Job : j >= cursor => produced[j] = "none"

\* What a step that hands out nothing may do to the workers.
LEMMA KeepsHandOut ==
  ASSUME HandOutInv, cursor' = cursor, produced' = produced,
         \A w \in Workers : job'[w] # NoJob => job'[w] = job[w],
         \A w \in Workers :
           pc'[w] \in {"announce", "convert", "discovered"} =>
             pc[w] \in {"announce", "convert", "discovered"}
  PROVE  HandedOutOnce' /\ \A j \in Job : j >= cursor' => produced'[j] = "none"
BY DEF HandOutInv, HandedOutOnce

LEMMA HandOutStep == HandOutInv /\ BulkTypeOK' /\ [Next]_vars => HandOutInv'
<1> SUFFICES ASSUME HandOutInv, BulkTypeOK', [Next]_vars
             PROVE  HandedOutOnce' /\ \A j \in Job : j >= cursor' => produced'[j] = "none"
  BY DEF HandOutInv
<1> DEFINE Goal == HandedOutOnce' /\ \A j \in Job : j >= cursor' => produced'[j] = "none"
<1> USE DEF HandOutInv, BulkTypeOK, pool, events, files, caller
<1>1. ASSUME NEW w \in Workers, Claim(w) PROVE Goal
  <2>1. cursor' = cursor + 1 /\ cursor \in Nat /\ produced' = produced
    BY <1>1 DEF Claim
  <2>2. CASE cursor \in Job
    <3>1. /\ job' = [job EXCEPT ![w] = cursor]
          /\ pc' = [pc EXCEPT ![w] = "announce"]
      BY <1>1, <2>2 DEF Claim
    <3>2. \A v \in Workers \ {w} : job'[v] = job[v] /\ pc'[v] = pc[v] /\ job[v] # cursor
      BY <2>1, <2>2, <3>1 DEF HandedOutOnce, NoJob, Job
    <3>3. job'[w] = cursor /\ produced[cursor] = "none"
      BY <2>1, <2>2, <3>1
    <3>4. \A v \in Workers : job[v] < cursor \/ job[v] = NoJob
      BY DEF HandedOutOnce
    <3>5. HandedOutOnce'
      <4> SUFFICES ASSUME NEW v \in Workers, NEW u \in Workers, job'[u] # NoJob
                   PROVE  /\ job'[u] < cursor'
                          /\ v # u => job'[v] # job'[u]
                          /\ pc'[u] \in {"announce", "convert", "discovered"} =>
                               produced'[job'[u]] = "none"
        BY DEF HandedOutOnce
      <4>1. CASE u = w
        BY <2>1, <3>2, <3>3, <4>1
      <4>2. CASE u # w /\ v = w
        BY <2>1, <3>2, <3>3, <3>4, <4>2 DEF HandedOutOnce, Job, NoJob
      <4>3. CASE u # w /\ v # w
        BY <2>1, <3>2, <3>4, <4>3 DEF HandedOutOnce, Job, NoJob
      <4> QED
        BY <4>1, <4>2, <4>3
    <3> QED
      BY <2>1, <3>5 DEF Job
  <2>3. CASE cursor \notin Job
    <3>1. /\ job' = [job EXCEPT ![w] = NoJob]
          /\ pc' = [pc EXCEPT ![w] = "stopped"]
      BY <1>1, <2>3 DEF Claim, Stop
    <3>2. \A v \in Workers : job'[v] # NoJob => job'[v] = job[v] /\ pc'[v] = pc[v]
      BY <3>1
    <3> QED
      BY <2>1, <3>2 DEF HandedOutOnce, Job, NoJob
  <2> QED
    BY <2>2, <2>3
<1>2. ASSUME NEW w \in Workers, Announce(w) PROVE Goal
  <2>1. /\ cursor' = cursor /\ produced' = produced /\ pc[w] = "announce"
        /\ \/ pc' = [pc EXCEPT ![w] = "convert"] /\ job' = job
           \/ /\ pc' = [pc EXCEPT ![w] = "stopped"]
              /\ job' = [job EXCEPT ![w] = NoJob]
    BY <1>2 DEF Announce, Stop
  <2> QED
    BY <2>1, KeepsHandOut
<1>3. ASSUME NEW w \in Workers, Discover(w) PROVE Goal
  <2>1. /\ cursor' = cursor /\ produced' = produced /\ pc[w] = "convert"
        /\ pc' = [pc EXCEPT ![w] = "discovered"] /\ job' = job
    BY <1>3 DEF Discover
  <2> QED
    BY <2>1, KeepsHandOut
<1>4. ASSUME NEW w \in Workers, Convert(w) PROVE Goal
  <2>1. PICK outcome \in Outcomes : produced' = [produced EXCEPT ![job[w]] = outcome]
    BY <1>4 DEF Convert
  <2>2. /\ cursor' = cursor /\ job' = job
        /\ pc' = [pc EXCEPT ![w] = "deliver"]
        /\ pc[w] \in {"convert", "discovered"}
    BY <1>4 DEF Convert, Converting
  <2>3. job[w] \in Job /\ job[w] < cursor
    BY <2>2 DEF Holding, HandedOutOnce, NoJob
  <2>4. HandedOutOnce'
    BY <2>1, <2>2, <2>3 DEF HandedOutOnce, NoJob
  <2>5. ASSUME NEW j \in Job, j >= cursor PROVE produced'[j] = "none"
    <3>1. j # job[w]
      BY <2>3, <2>5 DEF Job
    <3> QED
      BY <2>1, <2>5, <3>1
  <2> QED
    BY <2>2, <2>4, <2>5
<1>5. ASSUME NEW w \in Workers, Panic(w) PROVE Goal
  <2>1. /\ cursor' = cursor /\ produced' = produced /\ job' = job
        /\ pc' = [pc EXCEPT ![w] = "panicked"]
    BY <1>5 DEF Panic
  <2> QED
    BY <2>1, KeepsHandOut
<1>6. ASSUME NEW w \in Workers, Deliver(w) PROVE Goal
  <2>1. /\ cursor' = cursor /\ produced' = produced
        /\ job' = [job EXCEPT ![w] = NoJob]
        /\ \/ pc' = [pc EXCEPT ![w] = "claim"]
           \/ pc' = [pc EXCEPT ![w] = "stopped"]
    BY <1>6 DEF Deliver, Stop
  <2> QED
    BY <2>1, KeepsHandOut
<1>7. ASSUME Main \/ UNCHANGED vars PROVE Goal
  <2>1. cursor' = cursor /\ produced' = produced /\ job' = job /\ pc' = pc
    BY <1>7 DEF Main, Receive, EndOfChannel, Join, vars
  <2> QED
    BY <2>1, KeepsHandOut
<1> HIDE DEF Goal
<1>8. Goal
  BY <1>1, <1>2, <1>3, <1>4, <1>5, <1>6, <1>7 DEF Next, Work
<1> QED
  BY <1>8 DEF Goal

LEMMA HandOutAlways == Spec => []HandOutInv
<1>1. Init => HandOutInv
  BY BulkTyped DEF Init, HandOutInv, HandedOutOnce
<1> QED
  BY <1>1, HandOutStep, TypeCorrect, PTL DEF Spec

\* Every job is handed to one worker: the cursor only grows, and what was
\* handed out is below it.
THEOREM JobsHandedOutOnce == Spec => []HandedOutOnce
<1>1. HandOutInv => HandedOutOnce
  BY DEF HandOutInv
<1> QED
  BY <1>1, HandOutAlways, PTL

-----------------------------------------------------------------------------
(* Accounts *)

Held(j) == \E w \in Workers : job[w] = j
IsFinished(i, j) == channel[i].kind = "Finished" /\ channel[i].job = j
InChannel(j) == \E i \in DOMAIN channel : IsFinished(i, j)
Uncounted(j) == tally[j] = [o \in Outcomes |-> 0]
Counted(j) ==
  /\ produced[j] # "none"
  /\ tally[j] = [o \in Outcomes |-> IF o = produced[j] THEN 1 ELSE 0]

\* A job is in at most one place: with its worker, in one queued result, or in
\* the totals.
OnePlace ==
  \A j \in Job :
    /\ Held(j) => Uncounted(j) /\ ~InChannel(j)
    /\ InChannel(j) => Uncounted(j)
    /\ \A i, k \in DOMAIN channel : IsFinished(i, j) /\ IsFinished(k, j) => i = k
    /\ Uncounted(j) \/ Counted(j)

\* What is queued and counted is what convert_one returned, and the output of
\* a converted job is on disk.
ToldTruly ==
  /\ \A i \in DOMAIN channel :
       channel[i].kind = "Finished" =>
         /\ produced[channel[i].job] # "none"
         /\ channel[i].result = produced[channel[i].job]
  /\ \A j \in Job : produced[j] = "converted" => j \in written

\* A worker that ended keeps its job only if it panicked.
HoldsItsJob == \A w \in Workers : job[w] # NoJob => Holding(w)

\* While the receiver listens no job that was handed out is lost, and a worker
\* stops only after the last job.
Listening ==
  /\ open => main = "receive" /\ result = "none"
  /\ open => \A j \in Job : j < cursor => Held(j) \/ InChannel(j) \/ Counted(j)
  /\ open => \A w \in Workers : pc[w] = "stopped" => Jobs < cursor

\* The loop ends well only when nothing is left to receive; unless a worker
\* panicked, which the join reports, nothing is left to convert either.
EndedWell ==
  /\ main = "receive" => open
  /\ result = "ok" =>
       /\ \A w \in Workers : Ended(w)
       /\ (\A w \in Workers : pc[w] # "panicked") => \A j \in Job : Counted(j)
       /\ main = "returned" => \A w \in Workers : pc[w] # "panicked"

AccountInv ==
  HandOutInv /\ OnePlace /\ ToldTruly /\ HoldsItsJob /\ Listening /\ EndedWell

\* Sending puts one event at the end.
LEMMA Sent ==
  ASSUME NEW E, NEW c \in Seq(E), NEW e \in E
  PROVE  /\ DOMAIN c = 1..Len(c) /\ Len(c) \in Nat
         /\ DOMAIN Append(c, e) = 1..Len(c) + 1
         /\ \A i \in 1..Len(c) : Append(c, e)[i] = c[i]
         /\ Append(c, e)[Len(c) + 1] = e
OBVIOUS

\* Receiving moves every other event up by one.
LEMMA Taken ==
  ASSUME NEW E, NEW c \in Seq(E), c # <<>>
  PROVE  /\ DOMAIN c = 1..Len(c) /\ Len(c) \in Nat \ {0}
         /\ Head(c) = c[1]
         /\ DOMAIN Tail(c) = 1..Len(c) - 1
         /\ \A i \in 1..Len(c) - 1 : Tail(c)[i] = c[i + 1]
OBVIOUS

\* A step that converts, delivers and counts nothing keeps the accounts, if it
\* queues no result and hands no job to another worker.
LEMMA KeepsAccounts ==
  ASSUME OnePlace, ToldTruly, UNCHANGED <<tally, produced, written>>,
         \A i \in DOMAIN channel' :
           channel'[i].kind = "Finished" => i \in DOMAIN channel /\ channel'[i] = channel[i],
         \A j \in Job : Held(j)' => Held(j)
  PROVE  OnePlace' /\ ToldTruly'
<1>1. \A j \in Job, i \in DOMAIN channel' :
        IsFinished(i, j)' => i \in DOMAIN channel /\ IsFinished(i, j)
  BY DEF IsFinished
<1>2. \A j \in Job : InChannel(j)' => InChannel(j)
  BY <1>1 DEF InChannel
<1>3. \A j \in Job : /\ Uncounted(j)' <=> Uncounted(j)
                     /\ Counted(j)' <=> Counted(j)
  BY DEF Uncounted, Counted
<1>4. OnePlace'
  BY <1>1, <1>2, <1>3 DEF OnePlace
<1>5. ToldTruly'
  BY DEF ToldTruly
<1> QED
  BY <1>4, <1>5

\* Events that carry no result leave the queued results where they are.
LEMMA QuietSend ==
  ASSUME BulkTypeOK, NEW e \in Event, e.kind # "Finished", channel' = Append(channel, e)
  PROVE  /\ \A i \in DOMAIN channel' :
              channel'[i].kind = "Finished" => i \in DOMAIN channel /\ channel'[i] = channel[i]
         /\ \A j \in Job : InChannel(j) => InChannel(j)'
<1>1. channel \in Seq(Event)
  BY DEF BulkTypeOK
<1>2. /\ DOMAIN channel = 1..Len(channel) /\ Len(channel) \in Nat
      /\ DOMAIN channel' = 1..Len(channel) + 1
      /\ \A i \in 1..Len(channel) : channel'[i] = channel[i]
      /\ channel'[Len(channel) + 1] = e
  BY <1>1, Sent
<1>3. ASSUME NEW i \in DOMAIN channel', channel'[i].kind = "Finished"
      PROVE  i \in DOMAIN channel /\ channel'[i] = channel[i]
  <2>1. i # Len(channel) + 1
    BY <1>2, <1>3
  <2> QED
    BY <1>2, <2>1
<1>4. ASSUME NEW j \in Job, InChannel(j) PROVE InChannel(j)'
  BY <1>2, <1>4 DEF InChannel, IsFinished
<1> QED
  BY <1>3, <1>4

Accounts == OnePlace /\ ToldTruly /\ HoldsItsJob /\ Listening /\ EndedWell

\* A worker that moves while the loop has not ended well: nothing is known of
\* the result then.
LEMMA NotEndedWell ==
  ASSUME EndedWell, NEW w \in Workers, ~Ended(w), UNCHANGED <<main, result>>,
         open' = open
  PROVE  EndedWell'
BY DEF EndedWell

LEMMA ClaimAccounts ==
  ASSUME AccountInv, NEW w \in Workers, Claim(w)
  PROVE  Accounts'
<1> USE DEF AccountInv, HandOutInv, BulkTypeOK, events, files, caller
<1>1. /\ cursor' = cursor + 1 /\ cursor \in Nat /\ pc[w] = "claim"
      /\ UNCHANGED <<channel, open, produced, written, tally, main, result>>
  BY DEF Claim
<1>2. EndedWell'
  BY <1>1, NotEndedWell DEF Ended
<1>3. CASE cursor \in Job
  <2>1. /\ job' = [job EXCEPT ![w] = cursor]
        /\ pc' = [pc EXCEPT ![w] = "announce"]
    BY <1>3 DEF Claim
  <2>2. produced[cursor] = "none" /\ cursor \in Nat
    BY <1>3 DEF Job
  <2>3. ~Counted(cursor) /\ ~InChannel(cursor)
    BY <2>2 DEF Counted, InChannel, IsFinished, ToldTruly
  <2>4. \A j \in Job : Held(j)' => Held(j) \/ j = cursor
    BY <2>1 DEF Held
  <2>5. \A j \in Job : /\ InChannel(j)' <=> InChannel(j)
                       /\ Uncounted(j)' <=> Uncounted(j)
                       /\ Counted(j)' <=> Counted(j)
    BY <1>1 DEF InChannel, IsFinished, Uncounted, Counted
  <2>6. OnePlace'
    BY <1>1, <1>3, <2>3, <2>4, <2>5 DEF OnePlace, IsFinished
  <2>7. ToldTruly'
    BY <1>1 DEF ToldTruly
  <2>8. HoldsItsJob'
    BY <2>1 DEF HoldsItsJob, Holding
  <2>9. \A j \in Job : j = cursor \/ Held(j) => Held(j)'
    <3>1. job'[w] = cursor
      BY <2>1
    <3>2. job[w] = NoJob
      BY <1>1 DEF HoldsItsJob, Holding
    <3>3. \A v \in Workers : job[v] \in Job => job'[v] = job[v]
      BY <2>1, <3>2 DEF Job, NoJob
    <3> QED
      BY <3>1, <3>3 DEF Held
  <2>10. Listening'
    <3>1. \A j \in Job : j < cursor' <=> j < cursor \/ j = cursor
      BY <1>1 DEF Job
    <3>2. open => \A j \in Job : j < cursor' => (Held(j) \/ InChannel(j) \/ Counted(j))'
      BY <2>5, <2>9, <3>1 DEF Listening
    <3>3. open => \A v \in Workers : pc'[v] = "stopped" => Jobs < cursor'
      BY <1>1, <2>1, BulkAssumption DEF Listening
    <3> QED
      BY <1>1, <3>2, <3>3 DEF Listening
  <2> QED
    BY <1>2, <2>6, <2>7, <2>8, <2>10 DEF Accounts
<1>4. CASE cursor \notin Job
  <2>1. /\ job' = [job EXCEPT ![w] = NoJob]
        /\ pc' = [pc EXCEPT ![w] = "stopped"]
    BY <1>4 DEF Claim, Stop
  <2>2. Jobs < cursor
    BY <1>1, <1>4, BulkAssumption DEF Job
  <2>3. \A v \in Workers : job'[v] = job[v]
    BY <1>1, <2>1 DEF HoldsItsJob, Holding
  <2>4. \A j \in Job : Held(j)' <=> Held(j)
    BY <2>3 DEF Held
  <2>5. OnePlace' /\ ToldTruly'
    BY <1>1, <2>4, KeepsAccounts
  <2>6. HoldsItsJob'
    BY <2>1, <2>3 DEF HoldsItsJob, Holding
  <2>7. Listening'
    BY <1>1, <2>1, <2>2, <2>4, BulkAssumption
       DEF Listening, Job, InChannel, IsFinished, Counted
  <2> QED
    BY <1>2, <2>5, <2>6, <2>7 DEF Accounts
<1> QED
  BY <1>3, <1>4

LEMMA AnnounceAccounts ==
  ASSUME AccountInv, NEW w \in Workers, Announce(w)
  PROVE  Accounts'
<1> USE DEF AccountInv, HandOutInv, BulkTypeOK, files, caller
<1>1. /\ pc[w] = "announce"
      /\ UNCHANGED <<cursor, open, produced, written, tally, main, result>>
  BY DEF Announce
<1>2. EndedWell'
  BY <1>1, NotEndedWell DEF Ended
<1>3. CASE open
  <2> DEFINE e == [kind |-> "Started", job |-> job[w]]
  <2>1. /\ channel' = Append(channel, e) /\ job' = job
        /\ pc' = [pc EXCEPT ![w] = "convert"]
    BY <1>3 DEF Announce, Send
  <2>2. e \in Event /\ e.kind # "Finished"
    BY <1>1 DEF Event, NoJob, Holding
  <2> HIDE DEF e
  <2>3. /\ \A i \in DOMAIN channel' :
             channel'[i].kind = "Finished" => i \in DOMAIN channel /\ channel'[i] = channel[i]
        /\ \A j \in Job : InChannel(j) => InChannel(j)'
    BY <2>1, <2>2, QuietSend
  <2>4. \A j \in Job : Held(j)' <=> Held(j)
    BY <2>1 DEF Held
  <2>5. OnePlace' /\ ToldTruly'
    BY <1>1, <2>3, <2>4, KeepsAccounts
  <2>6. HoldsItsJob'
    BY <2>1 DEF HoldsItsJob, Holding
  <2>7. Listening'
    BY <1>1, <2>1, <2>3, <2>4 DEF Listening, Counted
  <2> QED
    BY <1>2, <2>5, <2>6, <2>7 DEF Accounts
<1>4. CASE ~open
  <2>1. /\ job' = [job EXCEPT ![w] = NoJob] /\ channel' = channel
        /\ pc' = [pc EXCEPT ![w] = "stopped"]
    BY <1>4 DEF Announce, Stop
  <2>2. \A j \in Job : Held(j)' => Held(j)
    BY <2>1 DEF Held, Job, NoJob
  <2>3. OnePlace' /\ ToldTruly'
    BY <1>1, <2>1, <2>2, KeepsAccounts
  <2>4. HoldsItsJob' /\ Listening'
    BY <1>1, <1>4, <2>1 DEF HoldsItsJob, Holding, Listening
  <2> QED
    BY <1>2, <2>3, <2>4 DEF Accounts
<1> QED
  BY <1>3, <1>4

LEMMA DiscoverAccounts ==
  ASSUME AccountInv, NEW w \in Workers, Discover(w)
  PROVE  Accounts'
<1> USE DEF AccountInv, HandOutInv, BulkTypeOK, files, caller
<1> DEFINE e == [kind |-> "Discovery", job |-> job[w]]
<1>1. /\ pc[w] = "convert" /\ pc' = [pc EXCEPT ![w] = "discovered"]
      /\ channel' = channel \/ channel' = Append(channel, e)
      /\ UNCHANGED <<cursor, job, open, produced, written, tally, main, result>>
  BY DEF Discover, Send
<1>2. e \in Event /\ e.kind # "Finished"
  BY <1>1 DEF Event, NoJob, Holding
<1> HIDE DEF e
<1>3. /\ \A i \in DOMAIN channel' :
           channel'[i].kind = "Finished" => i \in DOMAIN channel /\ channel'[i] = channel[i]
      /\ \A j \in Job : InChannel(j) => InChannel(j)'
  <2>1. CASE channel' = channel
    BY <2>1 DEF InChannel, IsFinished
  <2>2. CASE channel' = Append(channel, e)
    BY <1>2, <2>2, QuietSend
  <2> QED
    BY <1>1, <2>1, <2>2
<1>4. \A j \in Job : Held(j)' <=> Held(j)
  BY <1>1 DEF Held
<1>5. OnePlace' /\ ToldTruly'
  BY <1>1, <1>3, <1>4, KeepsAccounts
<1>6. HoldsItsJob'
  BY <1>1 DEF HoldsItsJob, Holding
<1>7. Listening'
  BY <1>1, <1>3, <1>4 DEF Listening, Counted
<1>8. EndedWell'
  BY <1>1, NotEndedWell DEF Ended
<1> QED
  BY <1>5, <1>6, <1>7, <1>8 DEF Accounts

LEMMA ConvertAccounts ==
  ASSUME AccountInv, NEW w \in Workers, Convert(w)
  PROVE  Accounts'
<1> USE DEF AccountInv, HandOutInv, BulkTypeOK, events, caller
<1>1. /\ pc[w] \in {"convert", "discovered"} /\ pc' = [pc EXCEPT ![w] = "deliver"]
      /\ UNCHANGED <<cursor, job, channel, open, tally, main, result>>
  BY DEF Convert, Converting
<1>2. job[w] \in Job /\ produced[job[w]] = "none"
  BY <1>1 DEF Holding, HandedOutOnce, NoJob
<1>3. Uncounted(job[w]) /\ ~InChannel(job[w])
  BY <1>2 DEF OnePlace, Held
<1>4. PICK outcome \in Outcomes :
        /\ produced' = [produced EXCEPT ![job[w]] = outcome]
        /\ written \subseteq written'
        /\ outcome = "converted" => job[w] \in written'
  BY DEF Convert
<1>5. \A j \in Job : j # job[w] => produced'[j] = produced[j]
  BY <1>4
<1>6. \A j \in Job : /\ Held(j)' <=> Held(j)
                     /\ InChannel(j)' <=> InChannel(j)
                     /\ Uncounted(j)' <=> Uncounted(j)
  BY <1>1 DEF Held, InChannel, IsFinished, Uncounted
<1>7. ~Counted(job[w])
  BY <1>2 DEF Counted
<1>8. \A j \in Job : Counted(j) => Counted(j)'
  BY <1>1, <1>5, <1>7 DEF Counted
<1>9. OnePlace'
  BY <1>1, <1>6, <1>8 DEF OnePlace, IsFinished
<1>10. ToldTruly'
  <2>1. ASSUME NEW i \in DOMAIN channel', channel'[i].kind = "Finished"
        PROVE  /\ produced'[channel'[i].job] # "none"
               /\ channel'[i].result = produced'[channel'[i].job]
    <3>1. channel[i] \in Event /\ channel'[i] = channel[i]
      BY <1>1, <2>1
    <3>2. channel[i].job \in Job
      BY <3>1 DEF Event
    <3>3. channel[i].job # job[w]
      BY <1>1, <1>3, <2>1 DEF InChannel, IsFinished
    <3> QED
      BY <1>1, <1>5, <2>1, <3>1, <3>2, <3>3 DEF ToldTruly
  <2>2. \A j \in Job : produced'[j] = "converted" => j \in written'
    BY <1>4 DEF ToldTruly
  <2> QED
    BY <2>1, <2>2 DEF ToldTruly
<1>11. HoldsItsJob'
  BY <1>1 DEF HoldsItsJob, Holding
<1>12. Listening'
  BY <1>1, <1>6, <1>8 DEF Listening
<1>13. EndedWell'
  BY <1>1, NotEndedWell DEF Ended
<1> QED
  BY <1>9, <1>10, <1>11, <1>12, <1>13 DEF Accounts

LEMMA PanicAccounts ==
  ASSUME AccountInv, NEW w \in Workers, Panic(w)
  PROVE  Accounts'
<1> USE DEF AccountInv, HandOutInv, BulkTypeOK, events, files, caller
<1>1. /\ Converting(w) /\ pc' = [pc EXCEPT ![w] = "panicked"]
      /\ UNCHANGED <<cursor, job, channel, open, produced, written, tally, main, result>>
  BY DEF Panic
<1>2. \A j \in Job : Held(j)' <=> Held(j)
  BY <1>1 DEF Held
<1>3. OnePlace' /\ ToldTruly'
  BY <1>1, <1>2, KeepsAccounts
<1>4. HoldsItsJob'
  BY <1>1 DEF HoldsItsJob, Holding
<1>5. Listening'
  BY <1>1, <1>2 DEF Listening, InChannel, IsFinished, Counted
<1>6. EndedWell'
  BY <1>1, NotEndedWell DEF Ended, Converting
<1> QED
  BY <1>3, <1>4, <1>5, <1>6 DEF Accounts

\* A delivered result moves from the worker to the end of the channel.
LEMMA DeliverAccounts ==
  ASSUME AccountInv, NEW w \in Workers, Deliver(w)
  PROVE  Accounts'
<1> USE DEF AccountInv, HandOutInv, BulkTypeOK, files, caller
<1>1. /\ pc[w] = "deliver"
      /\ UNCHANGED <<cursor, open, produced, written, tally, main, result>>
      /\ job' = [job EXCEPT ![w] = NoJob]
  BY DEF Deliver, Stop
<1>2. job[w] \in Job /\ produced[job[w]] \in Outcomes
  BY <1>1 DEF Holding, NoJob
<1>3. \A j \in Job : Held(j)' => Held(j) /\ j # job[w]
  BY <1>1, <1>2 DEF Held, Job, NoJob, HandedOutOnce
<1>4. EndedWell'
  BY <1>1, NotEndedWell DEF Ended
<1>5. CASE open
  <2> DEFINE e == [kind |-> "Finished", job |-> job[w], result |-> produced[job[w]]]
  <2>1. /\ channel' = Append(channel, e)
        /\ pc' = [pc EXCEPT ![w] = "claim"]
    BY <1>5 DEF Deliver, Send
  <2>2. /\ e \in Event /\ e.kind = "Finished"
        /\ e.job = job[w] /\ e.result = produced[job[w]]
    BY <1>2 DEF Event
  <2> HIDE DEF e
  <2>3. /\ DOMAIN channel = 1..Len(channel) /\ Len(channel) \in Nat
        /\ DOMAIN channel' = 1..Len(channel) + 1
        /\ \A i \in 1..Len(channel) : channel'[i] = channel[i]
        /\ channel'[Len(channel) + 1] = e
    BY <2>1, <2>2, Sent
  <2> PICK last : last = Len(channel) + 1
    OBVIOUS
  <2>4. ASSUME NEW j \in Job, NEW i \in DOMAIN channel', IsFinished(i, j)'
        PROVE  \/ i \in DOMAIN channel /\ IsFinished(i, j)
               \/ i = last /\ j = job[w]
    BY <2>2, <2>3, <2>4 DEF IsFinished
  <2>5. \A j \in Job : InChannel(j)' => InChannel(j) \/ j = job[w]
    BY <2>4 DEF InChannel
  <2>6. Uncounted(job[w]) /\ ~InChannel(job[w])
    BY <1>2 DEF OnePlace, Held
  <2>7. \A j \in Job : /\ Uncounted(j)' <=> Uncounted(j)
                       /\ Counted(j)' <=> Counted(j)
    BY <1>1 DEF Uncounted, Counted
  <2>8. OnePlace'
    <3>1. ASSUME NEW j \in Job, NEW i \in DOMAIN channel', NEW k \in DOMAIN channel',
                 IsFinished(i, j)', IsFinished(k, j)'
          PROVE  i = k
      <4>1. CASE j = job[w]
        BY <2>4, <2>6, <3>1, <4>1 DEF InChannel
      <4>2. CASE j # job[w]
        BY <2>4, <3>1, <4>2 DEF OnePlace
      <4> QED
        BY <4>1, <4>2
    <3>2. \A j \in Job : /\ Held(j)' => Uncounted(j)' /\ ~InChannel(j)'
                         /\ InChannel(j)' => Uncounted(j)'
                         /\ Uncounted(j)' \/ Counted(j)'
      BY <1>3, <2>5, <2>6, <2>7 DEF OnePlace
    <3> QED
      BY <3>1, <3>2 DEF OnePlace
  <2>9. ToldTruly'
    <3>1. ASSUME NEW i \in DOMAIN channel', channel'[i].kind = "Finished"
          PROVE  /\ produced[channel'[i].job] # "none"
                 /\ channel'[i].result = produced[channel'[i].job]
      <4>1. CASE i = last
        BY <1>2, <2>2, <2>3, <4>1 DEF Outcomes
      <4>2. CASE i # last
        BY <2>3, <3>1, <4>2 DEF ToldTruly
      <4> QED
        BY <4>1, <4>2
    <3> QED
      BY <1>1, <3>1 DEF ToldTruly
  <2>10. HoldsItsJob'
    BY <1>1, <2>1 DEF HoldsItsJob, Holding
  <2>11. \A j \in Job : Held(j) \/ InChannel(j) => Held(j)' \/ InChannel(j)'
    <3>1. ASSUME NEW j \in Job, j = job[w] PROVE InChannel(j)'
      <4>1. last \in DOMAIN channel' /\ channel'[last] = e
        BY <2>3
      <4>2. IsFinished(last, j)'
        BY <1>1, <2>2, <3>1, <4>1 DEF IsFinished
      <4> QED
        BY <4>1, <4>2 DEF InChannel
    <3>2. \A j \in Job : InChannel(j) => InChannel(j)'
      BY <2>3 DEF InChannel, IsFinished
    <3>3. \A j \in Job : Held(j) /\ j # job[w] => Held(j)'
      BY <1>1 DEF Held
    <3> QED
      BY <3>1, <3>2, <3>3
  <2>12. Listening'
    BY <1>1, <2>1, <2>7, <2>11 DEF Listening
  <2> QED
    BY <1>4, <2>8, <2>9, <2>10, <2>12 DEF Accounts
<1>6. CASE ~open
  <2>1. channel' = channel /\ pc' = [pc EXCEPT ![w] = "stopped"]
    BY <1>6 DEF Deliver, Stop
  <2>2. OnePlace' /\ ToldTruly'
    BY <1>1, <1>3, <2>1, KeepsAccounts
  <2>3. HoldsItsJob' /\ Listening'
    BY <1>1, <1>6, <2>1 DEF HoldsItsJob, Holding, Listening
  <2> QED
    BY <1>4, <2>2, <2>3 DEF Accounts
<1> QED
  BY <1>5, <1>6

\* The first outcome that is counted is the only one.
LEMMA CountOne ==
  ASSUME NEW S, NEW x \in S
  PROVE  [[y \in S |-> 0] EXCEPT ![x] = @ + 1] = [y \in S |-> IF y = x THEN 1 ELSE 0]
OBVIOUS

\* A received result moves from the head of the channel into the totals, as
\* what convert_one returned for its job.
LEMMA ReceiveAccounts ==
  ASSUME AccountInv, Receive
  PROVE  Accounts'
<1> USE DEF AccountInv, HandOutInv, BulkTypeOK, pool, files
<1> DEFINE e == Head(channel)
<1>1. /\ main = "receive" /\ channel # <<>> /\ open
      /\ UNCHANGED <<cursor, pc, job, panics, produced, written>>
  BY DEF Receive, EndedWell
<1>2. /\ DOMAIN channel = 1..Len(channel) /\ Len(channel) \in Nat \ {0}
      /\ e = channel[1] /\ e \in Event
      /\ DOMAIN Tail(channel) = 1..Len(channel) - 1
      /\ \A i \in 1..Len(channel) - 1 : Tail(channel)[i] = channel[i + 1]
  <2>1. channel \in Seq(Event)
    OBVIOUS
  <2> QED
    BY <1>1, <2>1, Taken
<1>3. e.kind = "Finished" =>
        /\ e.job \in Job /\ e.result = produced[e.job] /\ produced[e.job] # "none"
        /\ tally' = [tally EXCEPT ![e.job][e.result] = @ + 1]
  <2> SUFFICES ASSUME e.kind = "Finished"
               PROVE  /\ e.job \in Job /\ e.result = produced[e.job]
                      /\ produced[e.job] # "none"
                      /\ tally' = [tally EXCEPT ![e.job][e.result] = @ + 1]
    OBVIOUS
  <2>1. 1 \in DOMAIN channel /\ channel[1] = e
    BY <1>2
  <2>2. e.result = produced[e.job] /\ produced[e.job] # "none"
    BY <2>1 DEF ToldTruly
  <2>3. e.job \in Job
    BY <1>2 DEF Event
  <2>4. tally' = [tally EXCEPT ![e.job][e.result] = @ + 1]
    BY DEF Receive, Count
  <2> QED
    BY <2>2, <2>3, <2>4
<1>4. e.kind # "Finished" => tally' = tally
  BY DEF Receive, Count
<1> HIDE DEF e
<1>5. \/ channel' = Tail(channel) /\ UNCHANGED <<open, main, result>>
      \/ /\ channel' = <<>> /\ main' = "join" /\ result' = "error" /\ ~open'
  BY DEF Receive, Carry, GiveUp
<1>6. /\ DOMAIN channel' \subseteq 1..Len(channel) - 1
      /\ \A i \in DOMAIN channel' : i + 1 \in DOMAIN channel /\ channel'[i] = channel[i + 1]
  <2>1. CASE channel' = Tail(channel)
    BY <1>2, <2>1
  <2>2. CASE channel' = <<>>
    BY <1>2, <2>2
  <2> QED
    BY <1>5, <2>1, <2>2
<1>7. \A j \in Job, i \in DOMAIN channel' :
        IsFinished(i, j)' => i + 1 \in DOMAIN channel /\ IsFinished(i + 1, j)
  BY <1>6 DEF IsFinished
<1>8. \A j \in Job : InChannel(j)' => InChannel(j)
  BY <1>7 DEF InChannel
<1>9. \A j \in Job : e.kind = "Finished" /\ e.job = j =>
        IsFinished(1, j) /\ InChannel(j) /\ ~InChannel(j)'
  <2> SUFFICES ASSUME NEW j \in Job, e.kind = "Finished", e.job = j
               PROVE  IsFinished(1, j) /\ InChannel(j) /\ ~InChannel(j)'
    OBVIOUS
  <2>1. 1 \in DOMAIN channel /\ IsFinished(1, j)
    BY <1>2 DEF IsFinished
  <2>2. \A i \in DOMAIN channel' : ~IsFinished(i, j)'
    <3> SUFFICES ASSUME NEW i \in DOMAIN channel', IsFinished(i, j)'
                 PROVE  FALSE
      OBVIOUS
    <3>1. i + 1 = 1
      BY <1>7, <2>1 DEF OnePlace
    <3> QED
      BY <1>2, <1>6, <3>1
  <2> QED
    BY <2>1, <2>2 DEF InChannel
<1>10. \A j \in Job : ~(e.kind = "Finished" /\ e.job = j) => tally'[j] = tally[j]
  BY <1>3, <1>4
<1>11. \A j \in Job : e.kind = "Finished" /\ e.job = j => Counted(j)'
  <2> SUFFICES ASSUME NEW j \in Job, e.kind = "Finished", e.job = j
               PROVE  Counted(j)'
    OBVIOUS
  <2>1. tally[j] = [o \in Outcomes |-> 0]
    BY <1>9 DEF OnePlace, Uncounted
  <2>2. produced[j] \in Outcomes /\ produced[j] # "none"
    BY <1>3
  <2>3. tally' = [tally EXCEPT ![j][produced[j]] = @ + 1]
    BY <1>3
  <2>4. tally'[j] = [tally[j] EXCEPT ![produced[j]] = @ + 1]
    BY <2>3
  <2>5. tally'[j] = [o \in Outcomes |-> IF o = produced[j] THEN 1 ELSE 0]
    BY <2>1, <2>2, <2>4, CountOne
  <2> QED
    BY <1>1, <2>2, <2>5 DEF Counted
<1>12. \A j \in Job : ~(e.kind = "Finished" /\ e.job = j) =>
         (Uncounted(j)' <=> Uncounted(j)) /\ (Counted(j)' <=> Counted(j))
  BY <1>1, <1>10 DEF Uncounted, Counted
<1>13. \A j \in Job : Held(j)' <=> Held(j)
  BY <1>1 DEF Held
<1>14. OnePlace'
  <2>1. \A j \in Job : /\ Held(j)' => Uncounted(j)' /\ ~InChannel(j)'
                       /\ InChannel(j)' => Uncounted(j)'
                       /\ Uncounted(j)' \/ Counted(j)'
    BY <1>8, <1>9, <1>11, <1>12, <1>13 DEF OnePlace
  <2>2. ASSUME NEW j \in Job, NEW i \in DOMAIN channel', NEW k \in DOMAIN channel',
               IsFinished(i, j)', IsFinished(k, j)'
        PROVE  i = k
    <3>1. i + 1 = k + 1
      BY <1>7, <2>2 DEF OnePlace
    <3> QED
      BY <1>2, <1>6, <3>1
  <2> QED
    BY <2>1, <2>2 DEF OnePlace
<1>15. ToldTruly'
  BY <1>1, <1>6 DEF ToldTruly
<1>16. HoldsItsJob'
  BY <1>1 DEF HoldsItsJob, Holding
<1>17. Listening'
  <2>1. CASE channel' = Tail(channel) /\ UNCHANGED <<open, main, result>>
    <3>1. \A j \in Job :
            InChannel(j) => InChannel(j)' \/ (e.kind = "Finished" /\ e.job = j)
      <4> SUFFICES ASSUME NEW j \in Job, NEW i \in DOMAIN channel, IsFinished(i, j), i # 1
                   PROVE  InChannel(j)'
        BY <1>2 DEF InChannel, IsFinished
      <4>1. i - 1 \in DOMAIN channel' /\ channel'[i - 1] = channel[i]
        BY <1>2, <2>1
      <4> QED
        BY <4>1 DEF InChannel, IsFinished
    <3>2. \A j \in Job : Held(j) \/ InChannel(j) \/ Counted(j) =>
                           (Held(j) \/ InChannel(j) \/ Counted(j))'
      BY <1>11, <1>12, <1>13, <3>1
    <3> QED
      BY <1>1, <2>1, <3>2 DEF Listening
  <2>2. CASE ~open'
    BY <2>2 DEF Listening
  <2> QED
    BY <1>5, <2>1, <2>2
<1>18. EndedWell'
  BY <1>1, <1>5 DEF EndedWell, Listening
<1> QED
  BY <1>14, <1>15, <1>16, <1>17, <1>18 DEF Accounts

\* When the last sender is gone and nobody panicked, every worker stopped after
\* the last job, and nothing is left on the way.
LEMMA EndOfChannelAccounts ==
  ASSUME AccountInv, EndOfChannel
  PROVE  Accounts'
<1> USE DEF AccountInv, HandOutInv, BulkTypeOK, pool, files
<1>1. /\ main = "receive" /\ channel = <<>> /\ main' = "join" /\ ~open'
      /\ \A w \in Workers : Ended(w)
      /\ UNCHANGED <<cursor, pc, job, panics, channel, produced, written, tally>>
  BY DEF EndOfChannel, SendersGone
<1>2. OnePlace' /\ ToldTruly'
  <2>1. \A j \in Job : Held(j)' => Held(j)
    BY <1>1 DEF Held
  <2> QED
    BY <1>1, <2>1, KeepsAccounts
<1>3. HoldsItsJob' /\ Listening'
  BY <1>1 DEF HoldsItsJob, Holding, Listening
<1>4. ASSUME \A w \in Workers : pc[w] # "panicked", NEW j \in Job PROVE Counted(j)
  <2>1. \A w \in Workers : pc[w] = "stopped"
    BY <1>1, <1>4 DEF Ended
  <2>2. Jobs < cursor
    BY <1>1, <2>1, BulkAssumption DEF Listening, EndedWell
  <2>3. j < cursor
    BY <2>2, BulkAssumption DEF Job
  <2>4. ~InChannel(j)
    BY <1>1 DEF InChannel
  <2>5. ~Held(j)
    BY <2>1 DEF Held, HoldsItsJob, Holding, Job, NoJob
  <2> QED
    BY <1>1, <2>3, <2>4, <2>5 DEF Listening, EndedWell
<1>5. \A w \in Workers : Ended(w)'
  BY <1>1 DEF Ended
<1>6. \A j \in Job : Counted(j)' <=> Counted(j)
  BY <1>1 DEF Counted
<1>7. EndedWell'
  BY <1>1, <1>4, <1>5, <1>6 DEF EndedWell
<1> QED
  BY <1>2, <1>3, <1>7 DEF Accounts

LEMMA JoinAccounts ==
  ASSUME AccountInv, Join
  PROVE  Accounts'
<1> USE DEF AccountInv, HandOutInv, BulkTypeOK, pool, events, files
<1>1. /\ main = "join" /\ main' = "returned"
      /\ result' = IF \E w \in Workers : pc[w] = "panicked" THEN "panic" ELSE result
      /\ UNCHANGED <<cursor, pc, job, panics, channel, open, produced, written, tally>>
  BY DEF Join
<1>2. OnePlace' /\ ToldTruly'
  <2>1. \A j \in Job : Held(j)' => Held(j)
    BY <1>1 DEF Held
  <2> QED
    BY <1>1, <2>1, KeepsAccounts
<1>3. HoldsItsJob' /\ Listening'
  BY <1>1 DEF HoldsItsJob, Holding, Listening
<1>4. /\ \A w \in Workers : Ended(w)' <=> Ended(w)
      /\ \A j \in Job : Counted(j)' <=> Counted(j)
  BY <1>1 DEF Ended, Counted
<1>5. EndedWell'
  BY <1>1, <1>4 DEF EndedWell
<1> QED
  BY <1>2, <1>3, <1>5 DEF Accounts

LEMMA AccountStep == AccountInv /\ HandOutInv' /\ [Next]_vars => AccountInv'
<1> SUFFICES ASSUME AccountInv, HandOutInv', [Next]_vars
             PROVE  Accounts'
  BY DEF AccountInv, Accounts
<1>1. CASE \E w \in Workers : Work(w)
  BY <1>1, ClaimAccounts, AnnounceAccounts, DiscoverAccounts, ConvertAccounts,
     PanicAccounts, DeliverAccounts DEF Work
<1>2. CASE Main
  BY <1>2, ReceiveAccounts, EndOfChannelAccounts, JoinAccounts DEF Main
<1>3. CASE UNCHANGED vars
  <2>1. UNCHANGED <<cursor, pc, job, channel, open, produced, written, tally, main, result>>
    BY <1>3 DEF vars, pool, events, files, caller
  <2>2. \A j \in Job : /\ Held(j)' <=> Held(j)
                       /\ InChannel(j)' <=> InChannel(j)
                       /\ Counted(j)' <=> Counted(j)
    BY <2>1 DEF Held, InChannel, IsFinished, Counted
  <2>3. OnePlace' /\ ToldTruly'
    BY <2>1, <2>2, KeepsAccounts DEF AccountInv
  <2>4. HoldsItsJob' /\ Listening' /\ EndedWell'
    BY <2>1, <2>2 DEF AccountInv, HoldsItsJob, Holding, Listening, EndedWell, Ended
  <2> QED
    BY <2>3, <2>4 DEF Accounts
<1> QED
  BY <1>1, <1>2, <1>3 DEF Next

LEMMA AccountInit == Init => AccountInv
<1> SUFFICES ASSUME Init PROVE AccountInv
  OBVIOUS
<1>1. HandOutInv
  BY BulkTyped DEF Init, HandOutInv, HandedOutOnce
<1>2. \A j \in Job : ~InChannel(j) /\ ~Held(j) /\ Uncounted(j)
  BY DEF Init, InChannel, Held, Uncounted, Job, NoJob
<1>3. OnePlace /\ ToldTruly
  BY <1>2 DEF Init, OnePlace, ToldTruly
<1>4. HoldsItsJob /\ Listening /\ EndedWell
  BY DEF Init, HoldsItsJob, Listening, EndedWell, Job
<1> QED
  BY <1>1, <1>3, <1>4 DEF AccountInv

\* A batch that returns Ok has counted every job of the plan once, as what
\* became of it, and what it counts as converted is on disk: execute, work and
\* report lose no result, whichever way the events of the workers interleave.
THEOREM EveryJobAccounted == Spec => []AllAccounted
<1>1. AccountInv => AllAccounted
  <2> SUFFICES ASSUME AccountInv, main = "returned", result = "ok", NEW j \in Job
               PROVE  Counted(j) /\ (produced[j] = "converted" => j \in written)
    BY DEF AllAccounted, Counted
  <2> QED
    BY DEF AccountInv, EndedWell, ToldTruly
<1> QED
  BY <1>1, AccountInit, AccountStep, HandOutAlways, PTL DEF Spec

-----------------------------------------------------------------------------
(* The early return *)

\* Once the receiver is gone no worker enters a conversion: announcing a job is
\* the only way in, and it fails.
LEMMA NoConversionBegins ==
  BulkTypeOK /\ [Next]_vars =>
    (~open => \A w \in Workers : Converting(w)' => Converting(w))
<1> SUFFICES ASSUME BulkTypeOK, [Next]_vars, ~open, NEW v \in Workers, Converting(v)'
             PROVE  Converting(v)
  OBVIOUS
<1> USE DEF BulkTypeOK, Converting
<1>1. ASSUME NEW w \in Workers, Work(w) PROVE Converting(v)
  <2>1. \/ \E to \in {"announce", "stopped", "deliver", "panicked", "claim"} :
             pc' = [pc EXCEPT ![w] = to]
        \/ pc[w] = "convert" /\ pc' = [pc EXCEPT ![w] = "discovered"]
    BY <1>1 DEF Work, Claim, Announce, Discover, Convert, Panic, Deliver, Stop
  <2> QED
    BY <2>1
<1>2. CASE Main \/ UNCHANGED vars
  BY <1>2 DEF Main, Receive, EndOfChannel, Join, vars, pool
<1> QED
  BY <1>1, <1>2 DEF Next

\* A terminal error stops the batch: whatever a worker had claimed by then, it
\* begins no other conversion.
THEOREM TerminalErrorStopsThePool == Spec => StopsEarly
BY NoConversionBegins, TypeCorrect, PTL DEF Spec, StopsEarly
=============================================================================
