--------------------------- MODULE DiscoveryFlight ---------------------------
(***************************************************************************)
(* debuginfod discovery (src/convert/elf/discovery.rs): converters look a  *)
(* build identifier up in the download directory, coalesce the requests of *)
(* the threads that share a converter, fetch from the servers in order and *)
(* publish what they fetched by hard_link.                                 *)
(*                                                                         *)
(* A PendingRequest is a reference-counted object: it is identified by a   *)
(* member of Requests, which may be used again when nothing refers to it.  *)
(* The temporary names of persist_debuginfod are unique and never read, so *)
(* the files behind them are not part of the state.                        *)
(***************************************************************************)
EXTENDS Naturals, FiniteSets

CONSTANTS
  Threads,      \* threads that convert
  Converters,   \* DiscoveryCache values: one per converter, in any process
  ConverterOf,  \* the converter a thread uses
  BuildIds,
  Companions,   \* subset of {"main", "supplementary"}: what is looked for
  Servers,      \* how many URLs are configured
  Answers,      \* what a server may answer, see Contents and "failed"
  OnDisk,       \* what the download directory may hold at the start
  StoreMayFail, \* whether writing or linking a download may fail
  MaxLosses,    \* bound: downloads removed from outside
  MaxUnwinds,   \* bound: panics of the observer or the HTTP client
  Requests,
  NoRequest, NoThread

(***************************************************************************)
(* A file fits (build identifier and architecture agree), is foreign (the  *)
(* identifier agrees, the architecture does not), or is broken.            *)
(***************************************************************************)
Files == {"fits", "foreign", "broken"}
Contents == Files \cup {"absent"}

ASSUME DiscoveryAssumption ==
  /\ ConverterOf \in [Threads -> Converters]
  /\ Companions \subseteq {"main", "supplementary"}
  /\ Servers \in Nat
  /\ Answers \subseteq Files \cup {"failed"}
  /\ OnDisk \subseteq Contents
  /\ StoreMayFail \in BOOLEAN
  /\ MaxLosses \in Nat /\ MaxUnwinds \in Nat
  /\ NoRequest \notin Requests /\ NoThread \notin Threads

VARIABLES
  file,      \* [BuildIds -> Contents]: <cache>/<build id>/debuginfo
  lost,      \* build identifiers whose download was removed from outside
  requests,  \* [Converters -> [BuildIds -> Requests \cup {NoRequest}]]
  held,      \* who holds a converter's requests mutex across several steps
  found,     \* [Requests -> {"pending", "yes", "no"}]
  pc, key, companion, request, server, bytes, outcome,
  unwinds

directory == <<file, lost>>
flight    == <<requests, held, found>>
call      == <<key, companion, request, server, bytes, outcome>>
vars      == <<directory, flight, pc, call, unwinds>>

PCs == {"idle", "look", "begin", "fetch", "link", "finish", "notify", "remove",
        "wait", "asleep", "reread", "unwound"}

\* valid_debuginfod_response: a supplementary file has no image to check against.
Fits(what, content) ==
  \/ content = "fits"
  \/ content = "foreign" /\ what = "supplementary"

\* The steps between begin, which made the thread the owner, and the removal.
OwnerSteps == {"fetch", "link", "finish", "notify", "remove"}
Owns(t) == pc[t] \in OwnerSteps

Goto(t, label) == pc' = [pc EXCEPT ![t] = label]

Init ==
  /\ file \in [BuildIds -> OnDisk]
  /\ lost = {}
  /\ requests = [c \in Converters |-> [k \in BuildIds |-> NoRequest]]
  /\ held = [c \in Converters |-> NoThread]
  /\ found = [r \in Requests |-> "pending"]
  /\ pc = [t \in Threads |-> "idle"]
  /\ key \in [Threads -> BuildIds]
  /\ companion \in [Threads -> Companions]
  /\ request = [t \in Threads |-> NoRequest]
  /\ server = [t \in Threads |-> 0]
  /\ bytes = [t \in Threads |-> "absent"]
  /\ outcome = [t \in Threads |-> "none"]
  /\ unwinds = 0

-----------------------------------------------------------------------------
(* discover_with_debuginfod *)

Start(t) ==
  /\ pc[t] = "idle"
  /\ \E k \in BuildIds, w \in Companions :
       /\ key' = [key EXCEPT ![t] = k]
       /\ companion' = [companion EXCEPT ![t] = w]
  /\ outcome' = [outcome EXCEPT ![t] = "none"]
  /\ Goto(t, "look")
  /\ UNCHANGED <<directory, flight, request, server, bytes, unwinds>>

\* The call returns: its references are dropped, what it read is its result.
Return(t, result) ==
  /\ Goto(t, "idle")
  /\ request' = [request EXCEPT ![t] = NoRequest]
  /\ bytes' = [bytes EXCEPT ![t] = "absent"]
  /\ server' = [server EXCEPT ![t] = 0]
  /\ outcome' = [outcome EXCEPT ![t] = result]
  /\ UNCHANGED <<key, companion>>

Look(t) ==
  /\ pc[t] = "look"
  /\ IF Fits(companion[t], file[key[t]])
       THEN Return(t, "found")
       ELSE Goto(t, "begin") /\ UNCHANGED call
  /\ UNCHANGED <<directory, flight, unwinds>>

Unreferenced(r) ==
  /\ \A t \in Threads : request[t] # r
  /\ \A c \in Converters, k \in BuildIds : requests[c][k] # r

Join(t) ==
  LET c == ConverterOf[t] IN
  /\ pc[t] = "begin"
  /\ held[c] = NoThread
  /\ requests[c][key[t]] # NoRequest
  /\ request' = [request EXCEPT ![t] = requests[c][key[t]]]
  /\ Goto(t, "wait")
  /\ UNCHANGED <<directory, flight, key, companion, server, bytes, outcome, unwinds>>

\* Mutant: inserts without looking, as two lookups under two locks would.
Own_Unlooked(t) ==
  LET c == ConverterOf[t] IN
  /\ pc[t] = "begin"
  /\ held[c] = NoThread
  /\ \E r \in Requests :
       /\ Unreferenced(r)
       /\ request' = [request EXCEPT ![t] = r]
       /\ requests' = [requests EXCEPT ![c][key[t]] = r]
       /\ found' = [found EXCEPT ![r] = "pending"]
  /\ server' = [server EXCEPT ![t] = 1]
  /\ Goto(t, "fetch")
  /\ UNCHANGED <<directory, held, key, companion, bytes, outcome, unwinds>>

Own(t) ==
  LET c == ConverterOf[t] IN
  /\ pc[t] = "begin"
  /\ held[c] = NoThread
  /\ requests[c][key[t]] = NoRequest
  /\ \E r \in Requests :
       /\ Unreferenced(r)
       /\ request' = [request EXCEPT ![t] = r]
       /\ requests' = [requests EXCEPT ![c][key[t]] = r]
       /\ found' = [found EXCEPT ![r] = "pending"]
  /\ server' = [server EXCEPT ![t] = 1]
  /\ Goto(t, "fetch")
  /\ UNCHANGED <<directory, held, key, companion, bytes, outcome, unwinds>>

-----------------------------------------------------------------------------
(* fetch_debuginfod and persist_debuginfod *)

NextServer(t) ==
  /\ server' = [server EXCEPT ![t] = @ + 1]
  /\ bytes' = [bytes EXCEPT ![t] = "absent"]
  /\ Goto(t, "fetch")

Fetch(t) ==
  /\ pc[t] = "fetch"
  /\ server[t] <= Servers
  /\ \E answer \in Answers :
       IF Fits(companion[t], answer)
         THEN /\ bytes' = [bytes EXCEPT ![t] = answer]
              /\ Goto(t, "link")
              /\ UNCHANGED server
         ELSE NextServer(t)
  /\ UNCHANGED <<directory, flight, key, companion, request, outcome, unwinds>>

ServersExhausted(t) ==
  /\ pc[t] = "fetch"
  /\ server[t] > Servers
  /\ Goto(t, "finish")
  /\ UNCHANGED <<directory, flight, call, unwinds>>

\* Mutant: rename instead of hard_link.
Link_Renames(t) ==
  /\ pc[t] = "link"
  /\ file' = [file EXCEPT ![key[t]] = bytes[t]]
  /\ Goto(t, "finish")
  /\ UNCHANGED <<lost, flight, call, unwinds>>

\* hard_link creates the name or fails because it exists: nothing is replaced.
Link(t) ==
  /\ pc[t] = "link"
  /\ file[key[t]] = "absent"
  /\ file' = [file EXCEPT ![key[t]] = bytes[t]]
  /\ Goto(t, "finish")
  /\ UNCHANGED <<lost, flight, call, unwinds>>

\* Mutant: a taken name counts as success without reading the file behind it.
StoreFails_Accepted(t) ==
  /\ pc[t] = "link"
  /\ file[key[t]] # "absent" \/ StoreMayFail
  /\ Goto(t, "finish")
  /\ UNCHANGED <<directory, flight, call, unwinds>>

\* The name is taken, or the temporary could not be written: a warning, and
\* the next server is asked.
StoreFails(t) ==
  /\ pc[t] = "link"
  /\ file[key[t]] # "absent" \/ StoreMayFail
  /\ NextServer(t)
  /\ UNCHANGED <<directory, flight, key, companion, request, outcome, unwinds>>

\* The observer or the HTTP client panics inside the request: finish never runs.
Unwind(t) ==
  /\ pc[t] = "fetch"
  /\ server[t] <= Servers
  /\ unwinds < MaxUnwinds
  /\ unwinds' = unwinds + 1
  /\ Goto(t, "unwound")
  /\ request' = [request EXCEPT ![t] = NoRequest]
  /\ UNCHANGED <<directory, flight, key, companion, server, bytes, outcome>>

-----------------------------------------------------------------------------
(* DiscoveryCache::finish, PendingRequest::finish *)

Found(t) == bytes[t] # "absent"

Finish(t) ==
  LET c == ConverterOf[t] IN
  /\ pc[t] = "finish"
  /\ held[c] = NoThread
  /\ held' = [held EXCEPT ![c] = t]
  /\ found' = [found EXCEPT ![request[t]] = IF Found(t) THEN "yes" ELSE "no"]
  /\ Goto(t, "notify")
  /\ UNCHANGED <<directory, requests, call, unwinds>>

NotifyAll(t) ==
  /\ pc[t] = "notify"
  /\ pc' = [u \in Threads |->
              IF u = t THEN "remove"
              ELSE IF pc[u] = "asleep" /\ request[u] = request[t] THEN "wait"
              ELSE pc[u]]
  /\ UNCHANGED <<directory, flight, call, unwinds>>

Remove(t) ==
  LET c == ConverterOf[t] IN
  /\ pc[t] = "remove"
  /\ held' = [held EXCEPT ![c] = NoThread]
  /\ requests' = IF requests[c][key[t]] = request[t]
                   THEN [requests EXCEPT ![c][key[t]] = NoRequest]
                   ELSE requests
  /\ Return(t, IF Found(t) THEN "found" ELSE "empty")
  /\ UNCHANGED <<directory, found, unwinds>>

-----------------------------------------------------------------------------
(* PendingRequest::wait: the mutex makes the check and the sleep one step. *)

\* Mutant: an answer given between the check and the sleep is not seen.
Sleep_Unchecked(t) ==
  /\ pc[t] = "wait"
  /\ Goto(t, "asleep")
  /\ UNCHANGED <<directory, flight, call, unwinds>>

Sleep(t) ==
  /\ pc[t] = "wait"
  /\ found[request[t]] = "pending"
  /\ Goto(t, "asleep")
  /\ UNCHANGED <<directory, flight, call, unwinds>>

Wake(t) ==
  /\ pc[t] = "wait"
  /\ found[request[t]] # "pending"
  /\ IF found[request[t]] = "yes"
       THEN Goto(t, "reread") /\ UNCHANGED call
       ELSE Return(t, "empty")
  /\ UNCHANGED <<directory, flight, unwinds>>

SpuriousWakeup(t) ==
  /\ pc[t] = "asleep"
  /\ Goto(t, "wait")
  /\ UNCHANGED <<directory, flight, call, unwinds>>

Reread(t) ==
  /\ pc[t] = "reread"
  /\ Return(t, IF Fits(companion[t], file[key[t]]) THEN "found" ELSE "empty")
  /\ UNCHANGED <<directory, flight, unwinds>>

\* Somebody clears the download directory.
Lose(k) ==
  /\ file[k] # "absent"
  /\ Cardinality(lost) < MaxLosses
  /\ file' = [file EXCEPT ![k] = "absent"]
  /\ lost' = lost \cup {k}
  /\ UNCHANGED <<flight, pc, call, unwinds>>

Step(t) ==
  \/ Look(t) \/ Join(t) \/ Own(t)
  \/ Fetch(t) \/ ServersExhausted(t) \/ Link(t) \/ StoreFails(t)
  \/ Finish(t) \/ NotifyAll(t) \/ Remove(t)
  \/ Sleep(t) \/ Wake(t) \/ Reread(t)

Next ==
  \/ \E t \in Threads : Start(t) \/ Step(t) \/ SpuriousWakeup(t) \/ Unwind(t)
  \/ \E k \in BuildIds : Lose(k)

Spec == Init /\ [][Next]_vars

\* The scheduler runs every thread, and an HTTP request times out after 30
\* seconds. The requests mutex is held for three steps at a time and a thread
\* that keeps asking gets it, hence SF. Nobody has to start a call, and no
\* spurious wake-up is relied on.
FairSpec == Spec /\ \A t \in Threads : SF_vars(Step(t))

-----------------------------------------------------------------------------
(* Properties *)

\* Every variable keeps its type; a thread past begin has a request.
FlightTypeOK ==
  /\ file \in [BuildIds -> Contents]
  /\ lost \subseteq BuildIds
  /\ requests \in [Converters -> [BuildIds -> Requests \cup {NoRequest}]]
  /\ held \in [Converters -> Threads \cup {NoThread}]
  /\ found \in [Requests -> {"pending", "yes", "no"}]
  /\ pc \in [Threads -> PCs]
  /\ key \in [Threads -> BuildIds]
  /\ companion \in [Threads -> Companions]
  /\ request \in [Threads -> Requests \cup {NoRequest}]
  /\ server \in [Threads -> Nat]
  /\ bytes \in [Threads -> Contents]
  /\ outcome \in [Threads -> {"none", "found", "empty"}]
  /\ unwinds \in Nat
  /\ \A t \in Threads :
       (Owns(t) \/ pc[t] \in {"wait", "asleep", "reread"}) => request[t] # NoRequest

\* Requests are coalesced: of the threads that share a converter, one at a
\* time fetches a build identifier, and it does so under the request that
\* everybody else finds.
SingleFlight ==
  \A t, u \in Threads :
    Owns(t) =>
      /\ requests[ConverterOf[t]][key[t]] = request[t]
      /\ (Owns(u) /\ ConverterOf[u] = ConverterOf[t] /\ key[u] = key[t]) => u = t

\* A waiter told that the request succeeded finds the download: it is complete
\* on disk before the owner says so, for the lifetime of the waiter, unless it
\* was removed from outside or is for another architecture.
CoalescedAgree ==
  \A t \in Threads :
    (/\ pc[t] \in {"wait", "asleep", "reread"}
     /\ found[request[t]] = "yes"
     /\ key[t] \notin lost) =>
       file[key[t]] \in {"fits", "foreign"}

\* A download that others may be reading is never replaced by a later one.
DownloadsAreKept ==
  [][\A k \in BuildIds : file[k] # "absent" => file'[k] \in {file[k], "absent"}]_vars

\* A request that nobody will finish: its owner was unwound past finish.
Abandoned(c, k) ==
  /\ requests[c][k] # NoRequest
  /\ \A t \in Threads : ~(Owns(t) /\ ConverterOf[t] = c /\ request[t] = requests[c][k])

\* A thread that looks for a file gets an answer: it neither sleeps through
\* the notification nor joins a finished request.  Only a panic inside the
\* request, of its own or of the thread it waits for, takes the answer away.
DiscoveryReturns ==
  \A t \in Threads :
    pc[t] = "look" ~>
      \/ pc[t] \in {"idle", "unwound"}
      \/ unwinds > 0 /\ Abandoned(ConverterOf[t], key[t])
=============================================================================
