----------------------- MODULE DiscoveryFlight_proofs -----------------------
(***************************************************************************)
(* For any threads, converters and build identifiers: requests are         *)
(* coalesced, what a successful request stored is there for its waiters,   *)
(* and stored files are never replaced.                                    *)
(***************************************************************************)
EXTENDS DiscoveryFlight, TLAPS

Busy(t) == Owns(t) \/ pc[t] \in {"wait", "asleep", "reread"}

\* The inductive invariant of coalescing: an owner's request is the one in the
\* table, and no two owners share a request.
OwnerRegistered ==
  \A t \in Threads : Owns(t) => requests[ConverterOf[t]][key[t]] = request[t]

OwnersApart ==
  \A t, u \in Threads : Owns(t) /\ Owns(u) /\ request[t] = request[u] => t = u

FlightInv == FlightTypeOK /\ OwnerRegistered /\ OwnersApart

LEMMA FlightTyped == Init => FlightTypeOK
<1> SUFFICES ASSUME Init PROVE FlightTypeOK
  OBVIOUS
<1>1. file \in [BuildIds -> Contents]
  BY DiscoveryAssumption DEF Init
<1>2. requests \in [Converters -> [BuildIds -> Requests \cup {NoRequest}]]
  BY DEF Init
<1>3. /\ pc \in [Threads -> PCs]
      /\ \A t \in Threads : pc[t] = "idle"
  BY DEF Init, PCs
<1>4. /\ lost \subseteq BuildIds
      /\ held \in [Converters -> Threads \cup {NoThread}]
      /\ found \in [Requests -> {"pending", "yes", "no"}]
      /\ key \in [Threads -> BuildIds]
      /\ companion \in [Threads -> Companions]
      /\ request \in [Threads -> Requests \cup {NoRequest}]
  BY DEF Init
<1>5. /\ server \in [Threads -> Nat]
      /\ bytes \in [Threads -> Contents]
      /\ outcome \in [Threads -> {"none", "found", "empty"}]
      /\ unwinds \in Nat
  BY DEF Init, Contents
<1> QED
  BY <1>1, <1>2, <1>3, <1>4, <1>5 DEF FlightTypeOK, Owns, OwnerSteps

\* The two halves of the type invariant: the shapes of the variables, and that a
\* thread inside a request has one.
FlightShapes ==
  /\ file \in [BuildIds -> Contents] /\ lost \subseteq BuildIds
  /\ requests \in [Converters -> [BuildIds -> Requests \cup {NoRequest}]]
  /\ held \in [Converters -> Threads \cup {NoThread}]
  /\ found \in [Requests -> {"pending", "yes", "no"}]
  /\ pc \in [Threads -> PCs]
  /\ key \in [Threads -> BuildIds] /\ companion \in [Threads -> Companions]
  /\ request \in [Threads -> Requests \cup {NoRequest}]
  /\ server \in [Threads -> Nat] /\ bytes \in [Threads -> Contents]
  /\ outcome \in [Threads -> {"none", "found", "empty"}] /\ unwinds \in Nat

Requesting == \A t \in Threads : Busy(t) => request[t] # NoRequest

LEMMA TypeHalves == /\ FlightTypeOK => FlightShapes /\ Requesting
                    /\ FlightShapes' /\ Requesting' => FlightTypeOK'
  BY DEF FlightTypeOK, FlightShapes, Requesting, Busy

\* A step that brings nobody new into a request keeps Requesting.
LEMMA RequestingKept ==
  ASSUME Requesting, request' = request, \A u \in Threads : Busy(u)' => Busy(u)
  PROVE  Requesting'
  BY DEF Requesting

LEMMA FetchTyped ==
  ASSUME FlightTypeOK, NEW t \in Threads, Fetch(t)
  PROVE  FlightTypeOK'
<1>1. FlightShapes /\ Requesting
  BY TypeHalves
<1>2. PICK answer \in Answers :
        IF Fits(companion[t], answer)
          THEN /\ bytes' = [bytes EXCEPT ![t] = answer]
               /\ Goto(t, "link")
               /\ UNCHANGED server
          ELSE NextServer(t)
  BY DEF Fetch
<1>3. /\ UNCHANGED <<file, lost, requests, held, found, key, companion>>
      /\ UNCHANGED <<request, outcome, unwinds>>
      /\ pc[t] = "fetch"
  BY DEF Fetch, directory, flight
<1>4. /\ bytes' = [bytes EXCEPT ![t] = bytes'[t]] /\ bytes'[t] \in Contents
      /\ server' \in [Threads -> Nat]
      /\ \E label \in {"link", "fetch"} : pc' = [pc EXCEPT ![t] = label]
  <2>1. CASE Fits(companion[t], answer)
    <3>1. answer \in Contents
      BY <2>1 DEF Fits, Contents, Files
    <3> QED
      BY <1>1, <1>2, <2>1, <3>1 DEF FlightShapes, Goto
  <2>2. CASE ~Fits(companion[t], answer)
    <3>1. "absent" \in Contents
      BY DEF Contents
    <3> QED
      BY <1>1, <1>2, <2>2, <3>1 DEF FlightShapes, Goto, NextServer
  <2> QED
    BY <2>1, <2>2
<1>5. bytes' \in [Threads -> Contents]
  BY <1>1, <1>4 DEF FlightShapes
<1>6. pc' \in [Threads -> PCs]
  BY <1>1, <1>4 DEF FlightShapes, PCs
<1>7. \A u \in Threads : Busy(u)' => Busy(u)
  BY <1>1, <1>3, <1>4 DEF FlightShapes, Busy, Owns, OwnerSteps
<1>8. Requesting'
  BY <1>1, <1>3, <1>7, RequestingKept
<1>9. FlightShapes'
  BY <1>1, <1>3, <1>4, <1>5, <1>6 DEF FlightShapes
<1> QED
  BY <1>8, <1>9, TypeHalves

LEMMA StoreFailsTyped ==
  ASSUME FlightTypeOK, NEW t \in Threads, StoreFails(t)
  PROVE  FlightTypeOK'
<1>1. FlightShapes /\ Requesting
  BY TypeHalves
<1>2. /\ server' = [server EXCEPT ![t] = @ + 1]
      /\ bytes' = [bytes EXCEPT ![t] = "absent"]
      /\ pc' = [pc EXCEPT ![t] = "fetch"] /\ pc[t] = "link"
      /\ UNCHANGED <<file, lost, requests, held, found, key, companion>>
      /\ UNCHANGED <<request, outcome, unwinds>>
  BY DEF StoreFails, NextServer, Goto, directory, flight
<1>3. server' \in [Threads -> Nat]
  BY <1>1, <1>2 DEF FlightShapes
<1>4. bytes' \in [Threads -> Contents]
  BY <1>1, <1>2 DEF FlightShapes, Contents
<1>5. pc' \in [Threads -> PCs]
  BY <1>1, <1>2 DEF FlightShapes, PCs
<1>6. \A u \in Threads : Busy(u)' => Busy(u)
  BY <1>1, <1>2 DEF FlightShapes, Busy, Owns, OwnerSteps
<1>7. Requesting'
  BY <1>1, <1>2, <1>6, RequestingKept
<1>8. FlightShapes'
  BY <1>1, <1>2, <1>3, <1>4, <1>5 DEF FlightShapes
<1> QED
  BY <1>7, <1>8, TypeHalves

LEMMA NotifyAllTyped ==
  ASSUME FlightTypeOK, NEW t \in Threads, NotifyAll(t)
  PROVE  FlightTypeOK'
<1>1. FlightShapes /\ Requesting
  BY TypeHalves
<1>2. /\ pc[t] = "notify"
      /\ pc' = [u \in Threads |->
                  IF u = t THEN "remove"
                  ELSE IF pc[u] = "asleep" /\ request[u] = request[t] THEN "wait"
                  ELSE pc[u]]
      /\ UNCHANGED <<file, lost, requests, held, found, key, companion>>
      /\ UNCHANGED <<request, server, bytes, outcome, unwinds>>
  BY DEF NotifyAll, directory, flight, call
<1>3. \A u \in Threads : pc'[u] \in PCs
  BY <1>1, <1>2 DEF FlightShapes, PCs
<1>4. pc' \in [Threads -> PCs]
  BY <1>2, <1>3
<1>5. \A u \in Threads : Busy(u)' => Busy(u)
  BY <1>2 DEF Busy, Owns, OwnerSteps
<1>6. Requesting'
  BY <1>1, <1>2, <1>5, RequestingKept
<1>7. FlightShapes'
  BY <1>1, <1>2, <1>4 DEF FlightShapes
<1> QED
  BY <1>6, <1>7, TypeHalves

LEMMA FinishTyped ==
  ASSUME FlightTypeOK, NEW t \in Threads, Finish(t)
  PROVE  FlightTypeOK'
<1>1. FlightShapes /\ Requesting
  BY TypeHalves
<1> DEFINE c == ConverterOf[t]
           answer == IF Found(t) THEN "yes" ELSE "no"
<1>2. /\ pc[t] = "finish" /\ pc' = [pc EXCEPT ![t] = "notify"]
      /\ held' = [held EXCEPT ![c] = t]
      /\ found' = [found EXCEPT ![request[t]] = answer]
      /\ UNCHANGED <<file, lost, requests, key, companion>>
      /\ UNCHANGED <<request, server, bytes, outcome, unwinds>>
  BY DEF Finish, Goto, directory, call
<1>3. held' \in [Converters -> Threads \cup {NoThread}]
  BY <1>1, <1>2, DiscoveryAssumption DEF FlightShapes
<1>4. found' \in [Requests -> {"pending", "yes", "no"}]
  BY <1>1, <1>2 DEF FlightShapes
<1>5. pc' \in [Threads -> PCs]
  BY <1>1, <1>2 DEF FlightShapes, PCs
<1>6. \A u \in Threads : Busy(u)' => Busy(u)
  BY <1>1, <1>2 DEF FlightShapes, Busy, Owns, OwnerSteps
<1>7. Requesting'
  BY <1>1, <1>2, <1>6, RequestingKept
<1>8. FlightShapes'
  BY <1>1, <1>2, <1>3, <1>4, <1>5 DEF FlightShapes
<1> QED
  BY <1>7, <1>8, TypeHalves

LEMMA RemoveTyped ==
  ASSUME FlightTypeOK, NEW t \in Threads, Remove(t)
  PROVE  FlightTypeOK'
<1>1. FlightShapes /\ Requesting
  BY TypeHalves
<1> DEFINE c == ConverterOf[t]
           answer == IF Found(t) THEN "found" ELSE "empty"
<1>2. /\ pc[t] = "remove" /\ pc' = [pc EXCEPT ![t] = "idle"]
      /\ held' = [held EXCEPT ![c] = NoThread]
      /\ requests' = IF requests[c][key[t]] = request[t]
                      THEN [requests EXCEPT ![c][key[t]] = NoRequest]
                      ELSE requests
      /\ request' = [request EXCEPT ![t] = NoRequest]
      /\ bytes' = [bytes EXCEPT ![t] = "absent"]
      /\ server' = [server EXCEPT ![t] = 0]
      /\ outcome' = [outcome EXCEPT ![t] = answer]
      /\ UNCHANGED <<file, lost, found, key, companion, unwinds>>
  BY DEF Remove, Return, Goto, directory
<1>3. /\ held' \in [Converters -> Threads \cup {NoThread}]
      /\ outcome' \in [Threads -> {"none", "found", "empty"}]
  BY <1>1, <1>2 DEF FlightShapes
<1>4. requests' \in [Converters -> [BuildIds -> Requests \cup {NoRequest}]]
  BY <1>1, <1>2 DEF FlightShapes
<1>5. /\ request' \in [Threads -> Requests \cup {NoRequest}]
      /\ server' \in [Threads -> Nat]
  BY <1>1, <1>2 DEF FlightShapes
<1>6. pc' \in [Threads -> PCs] /\ bytes' \in [Threads -> Contents]
  BY <1>1, <1>2 DEF FlightShapes, PCs, Contents
<1>7. Requesting'
  BY <1>1, <1>2 DEF FlightShapes, Requesting, Busy, Owns, OwnerSteps
<1>8. FlightShapes'
  BY <1>1, <1>2, <1>3, <1>4, <1>5, <1>6 DEF FlightShapes
<1> QED
  BY <1>7, <1>8, TypeHalves

LEMMA FlightTypeStep == FlightTypeOK /\ [Next]_vars => FlightTypeOK'
<1> SUFFICES ASSUME FlightTypeOK, [Next]_vars PROVE FlightTypeOK'
  OBVIOUS
<1> USE DEF FlightTypeOK, PCs, Contents, Files, Owns, OwnerSteps, Goto,
    directory, flight, call
<1>1. ASSUME NEW t \in Threads, Start(t) PROVE FlightTypeOK'
  BY <1>1 DEF Start
<1>2. ASSUME NEW t \in Threads, Look(t) PROVE FlightTypeOK'
  <2>1. CASE Fits(companion[t], file[key[t]])
    <3>1. /\ pc' = [pc EXCEPT ![t] = "idle"]
          /\ request' = [request EXCEPT ![t] = NoRequest]
          /\ bytes' = [bytes EXCEPT ![t] = "absent"]
          /\ server' = [server EXCEPT ![t] = 0]
          /\ outcome' = [outcome EXCEPT ![t] = "found"]
          /\ UNCHANGED <<file, lost, requests, held, found, key, companion, unwinds>>
      BY <1>2, <2>1 DEF Look, Return
    <3> QED
      BY <3>1
  <2>2. CASE ~Fits(companion[t], file[key[t]])
    <3>1. /\ pc' = [pc EXCEPT ![t] = "begin"] /\ pc[t] = "look"
          /\ UNCHANGED <<file, lost, requests, held, found, key, companion>>
          /\ UNCHANGED <<request, server, bytes, outcome, unwinds>>
      BY <1>2, <2>2 DEF Look
    <3> QED
      BY <3>1
  <2> QED
    BY <2>1, <2>2
<1>3. ASSUME NEW t \in Threads, Join(t) PROVE FlightTypeOK'
  <2> DEFINE r == requests[ConverterOf[t]][key[t]]
  <2>1. ConverterOf[t] \in Converters /\ key[t] \in BuildIds
    BY DiscoveryAssumption
  <2>2. r \in Requests
    BY <1>3, <2>1 DEF Join
  <2>3. /\ request' = [request EXCEPT ![t] = r]
        /\ pc' = [pc EXCEPT ![t] = "wait"]
        /\ UNCHANGED <<file, lost, requests, held, found>>
        /\ UNCHANGED <<key, companion, server, bytes, outcome, unwinds>>
    BY <1>3 DEF Join
  <2> HIDE DEF r
  <2> QED
    BY <2>2, <2>3, DiscoveryAssumption
<1>4. ASSUME NEW t \in Threads, Own(t) PROVE FlightTypeOK'
  <2>1. ConverterOf[t] \in Converters /\ key[t] \in BuildIds
    BY DiscoveryAssumption
  <2>2. PICK r \in Requests :
          /\ request' = [request EXCEPT ![t] = r]
          /\ requests' = [requests EXCEPT ![ConverterOf[t]][key[t]] = r]
          /\ found' = [found EXCEPT ![r] = "pending"]
    BY <1>4 DEF Own
  <2>3. requests' \in [Converters -> [BuildIds -> Requests \cup {NoRequest}]]
    BY <2>1, <2>2
  <2>4. /\ request' \in [Threads -> Requests \cup {NoRequest}]
        /\ request'[t] # NoRequest
        /\ found' \in [Requests -> {"pending", "yes", "no"}]
    BY <2>2, DiscoveryAssumption
  <2>5. /\ pc' = [pc EXCEPT ![t] = "fetch"]
        /\ server' = [server EXCEPT ![t] = 1]
        /\ UNCHANGED <<file, lost, held, key, companion, bytes, outcome, unwinds>>
    BY <1>4 DEF Own
  <2> QED
    BY <2>2, <2>3, <2>4, <2>5
<1>5. ASSUME NEW t \in Threads, Fetch(t) PROVE FlightTypeOK'
  BY <1>5, FetchTyped
<1>6. ASSUME NEW t \in Threads, ServersExhausted(t) PROVE FlightTypeOK'
  BY <1>6 DEF ServersExhausted
<1>7. ASSUME NEW t \in Threads, Link(t) PROVE FlightTypeOK'
  BY <1>7 DEF Link
<1>8. ASSUME NEW t \in Threads, StoreFails(t) PROVE FlightTypeOK'
  BY <1>8, StoreFailsTyped
<1>9. ASSUME NEW t \in Threads, Finish(t) PROVE FlightTypeOK'
  BY <1>9, FinishTyped
<1>10. ASSUME NEW t \in Threads, NotifyAll(t) PROVE FlightTypeOK'
  BY <1>10, NotifyAllTyped
<1>11. ASSUME NEW t \in Threads, Remove(t) PROVE FlightTypeOK'
  BY <1>11, RemoveTyped
<1>12. ASSUME NEW t \in Threads, Sleep(t) PROVE FlightTypeOK'
  BY <1>12 DEF Sleep
<1>13. ASSUME NEW t \in Threads, Wake(t) PROVE FlightTypeOK'
  BY <1>13 DEF Wake, Return
<1>14. ASSUME NEW t \in Threads, Reread(t) PROVE FlightTypeOK'
  BY <1>14 DEF Reread, Return
<1>15. ASSUME NEW t \in Threads, SpuriousWakeup(t) PROVE FlightTypeOK'
  BY <1>15 DEF SpuriousWakeup
<1>16. ASSUME NEW t \in Threads, Unwind(t) PROVE FlightTypeOK'
  BY <1>16 DEF Unwind
<1>17. ASSUME NEW k \in BuildIds, Lose(k) PROVE FlightTypeOK'
  BY <1>17 DEF Lose
<1>18. CASE UNCHANGED vars
  BY <1>18 DEF vars
<1> QED
  BY <1>1, <1>2, <1>3, <1>4, <1>5, <1>6, <1>7, <1>8, <1>9, <1>10, <1>11,
     <1>12, <1>13, <1>14, <1>15, <1>16, <1>17, <1>18 DEF Next, Step

\* Every variable keeps its type.
THEOREM TypeCorrect == Spec => []FlightTypeOK
BY FlightTyped, FlightTypeStep, PTL DEF Spec

-----------------------------------------------------------------------------
(* Coalescing *)

LEMMA OwnKeepsApart ==
  ASSUME FlightInv, NEW t \in Threads, Own(t)
  PROVE  OwnerRegistered' /\ OwnersApart'
<1> USE DEF FlightInv, FlightTypeOK, Owns, OwnerSteps
<1>1. ConverterOf[t] \in Converters /\ key[t] \in BuildIds
  BY DiscoveryAssumption
<1>2. PICK r \in Requests :
        /\ Unreferenced(r)
        /\ request' = [request EXCEPT ![t] = r]
        /\ requests' = [requests EXCEPT ![ConverterOf[t]][key[t]] = r]
  BY DEF Own
<1>3. /\ pc[t] = "begin" /\ pc' = [pc EXCEPT ![t] = "fetch"]
      /\ key' = key
      /\ requests[ConverterOf[t]][key[t]] = NoRequest
  BY DEF Own, Goto
<1>4. /\ request'[t] = r
      /\ requests'[ConverterOf[t]][key[t]] = r
      /\ \A u \in Threads \ {t} : request'[u] = request[u] /\ pc'[u] = pc[u]
      /\ \A c \in Converters, k \in BuildIds :
           (c # ConverterOf[t] \/ k # key[t]) => requests'[c][k] = requests[c][k]
  BY <1>1, <1>2, <1>3
<1>5. \A u \in Threads : request[u] # r
  BY <1>2 DEF Unreferenced
<1>6. ASSUME NEW u \in Threads \ {t}, Owns(u)'
      PROVE  requests'[ConverterOf[u]][key[u]] = request'[u]
  <2>1. Owns(u) /\ request[u] # NoRequest
    BY <1>4, <1>6
  <2>2. requests[ConverterOf[u]][key[u]] = request[u]
    BY <2>1 DEF OwnerRegistered
  <2>3. ConverterOf[u] \in Converters /\ key[u] \in BuildIds
    BY DiscoveryAssumption
  <2>4. ConverterOf[u] # ConverterOf[t] \/ key[u] # key[t]
    BY <2>1, <2>2, <1>3
  <2> QED
    BY <2>2, <2>3, <2>4, <1>4
<1>7. OwnerRegistered'
  BY <1>3, <1>4, <1>6 DEF OwnerRegistered
<1>8. OwnersApart'
  BY <1>3, <1>4, <1>5 DEF OwnersApart
<1> QED
  BY <1>7, <1>8

LEMMA RemoveKeepsApart ==
  ASSUME FlightInv, NEW t \in Threads, Remove(t)
  PROVE  OwnerRegistered' /\ OwnersApart'
<1> USE DEF FlightInv, FlightTypeOK, Owns, OwnerSteps
<1>1. /\ pc[t] = "remove"
      /\ pc' = [pc EXCEPT ![t] = "idle"]
      /\ request' = [request EXCEPT ![t] = NoRequest]
      /\ key' = key
  BY DEF Remove, Return, Goto
<1>2. ASSUME NEW u \in Threads, Owns(u)'
      PROVE  /\ u # t /\ Owns(u) /\ request'[u] = request[u]
             /\ requests'[ConverterOf[u]][key[u]] = request[u]
  <2>1. u # t /\ Owns(u) /\ request'[u] = request[u]
    BY <1>1, <1>2
  <2>2. request[u] # request[t]
    BY <2>1, <1>1 DEF OwnersApart
  <2>3. requests[ConverterOf[u]][key[u]] = request[u]
    BY <2>1 DEF OwnerRegistered
  <2>4. /\ ConverterOf[u] \in Converters /\ key[u] \in BuildIds
        /\ ConverterOf[t] \in Converters /\ key[t] \in BuildIds
    BY DiscoveryAssumption
  <2>5. CASE requests[ConverterOf[t]][key[t]] = request[t]
    <3>1. requests' = [requests EXCEPT ![ConverterOf[t]][key[t]] = NoRequest]
      BY <2>5 DEF Remove
    <3>2. ConverterOf[u] # ConverterOf[t] \/ key[u] # key[t]
      BY <2>2, <2>3, <2>5
    <3> QED
      BY <2>1, <2>3, <2>4, <3>1, <3>2
  <2>6. CASE requests[ConverterOf[t]][key[t]] # request[t]
    BY <2>1, <2>3, <2>6 DEF Remove
  <2> QED
    BY <2>5, <2>6
<1> QED
  BY <1>1, <1>2 DEF OwnerRegistered, OwnersApart

\* Every other step leaves the table alone and makes nobody an owner.
LEMMA OthersKeepApart ==
  ASSUME FlightInv,
         requests' = requests,
         \A t \in Threads : Owns(t)' =>
           /\ Owns(t) /\ request'[t] = request[t] /\ key'[t] = key[t]
  PROVE  OwnerRegistered' /\ OwnersApart'
BY DEF FlightInv, OwnerRegistered, OwnersApart

LEMMA Unmoved ==
  ASSUME UNCHANGED vars
  PROVE  /\ file' = file /\ lost' = lost /\ requests' = requests /\ found' = found
         /\ key' = key /\ request' = request /\ bytes' = bytes /\ pc' = pc
BY DEF vars, directory, flight, call

LEMMA FlightInvInductive == FlightInv /\ FlightTypeOK' /\ [Next]_vars => FlightInv'
<1> SUFFICES ASSUME FlightInv, FlightTypeOK', [Next]_vars
             PROVE  OwnerRegistered' /\ OwnersApart'
  BY DEF FlightInv
<1> DEFINE Quiet ==
      /\ requests' = requests
      /\ \A t \in Threads : Owns(t)' =>
           /\ Owns(t) /\ request'[t] = request[t] /\ key'[t] = key[t]
<1> USE DEF FlightInv, FlightTypeOK, Owns, OwnerSteps, Goto, directory, flight, call
<1>1. ASSUME NEW t \in Threads, Start(t) PROVE Quiet
  BY <1>1 DEF Start
<1>2. ASSUME NEW t \in Threads, Look(t) PROVE Quiet
  <2>1. /\ requests' = requests /\ key' = key
        /\ \/ pc' = [pc EXCEPT ![t] = "idle"] \/ pc' = [pc EXCEPT ![t] = "begin"]
        /\ \/ request' = [request EXCEPT ![t] = NoRequest] \/ request' = request
    BY <1>2 DEF Look, Return
  <2> QED
    BY <2>1
<1>3. ASSUME NEW t \in Threads, Join(t) PROVE Quiet
  <2>1. /\ requests' = requests /\ key' = key
        /\ pc' = [pc EXCEPT ![t] = "wait"]
        /\ \A u \in Threads \ {t} : request'[u] = request[u]
    BY <1>3 DEF Join
  <2> QED
    BY <2>1
<1>4. ASSUME NEW t \in Threads, Fetch(t) PROVE Quiet
  <2>1. /\ requests' = requests /\ key' = key /\ request' = request
        /\ pc[t] = "fetch"
        /\ \/ pc' = [pc EXCEPT ![t] = "link"] \/ pc' = [pc EXCEPT ![t] = "fetch"]
    BY <1>4 DEF Fetch, NextServer
  <2> QED
    BY <2>1
<1>5. ASSUME NEW t \in Threads, ServersExhausted(t) PROVE Quiet
  BY <1>5 DEF ServersExhausted
<1>6. ASSUME NEW t \in Threads, Link(t) PROVE Quiet
  BY <1>6 DEF Link
<1>7. ASSUME NEW t \in Threads, StoreFails(t) PROVE Quiet
  BY <1>7 DEF StoreFails, NextServer
<1>8. ASSUME NEW t \in Threads, Finish(t) PROVE Quiet
  BY <1>8 DEF Finish
<1>9. ASSUME NEW t \in Threads, NotifyAll(t) PROVE Quiet
  BY <1>9 DEF NotifyAll
<1>10. ASSUME NEW t \in Threads, Sleep(t) PROVE Quiet
  BY <1>10 DEF Sleep
<1>11. ASSUME NEW t \in Threads, Wake(t) PROVE Quiet
  <2>1. /\ requests' = requests /\ key' = key
        /\ \/ pc' = [pc EXCEPT ![t] = "idle"] \/ pc' = [pc EXCEPT ![t] = "reread"]
        /\ \/ request' = [request EXCEPT ![t] = NoRequest] \/ request' = request
    BY <1>11 DEF Wake, Return
  <2> QED
    BY <2>1
<1>12. ASSUME NEW t \in Threads, Reread(t) PROVE Quiet
  BY <1>12 DEF Reread, Return
<1>13. ASSUME NEW t \in Threads, SpuriousWakeup(t) PROVE Quiet
  BY <1>13 DEF SpuriousWakeup
<1>14. ASSUME NEW t \in Threads, Unwind(t) PROVE Quiet
  BY <1>14 DEF Unwind
<1>15. ASSUME NEW k \in BuildIds, Lose(k) PROVE Quiet
  BY <1>15 DEF Lose
<1>16. ASSUME UNCHANGED vars PROVE Quiet
  BY <1>16, Unmoved
<1>17. Quiet => OwnerRegistered' /\ OwnersApart'
  BY OthersKeepApart
<1> HIDE DEF Quiet
<1> QED
  BY <1>1, <1>2, <1>3, <1>4, <1>5, <1>6, <1>7, <1>8, <1>9, <1>10, <1>11, <1>12,
     <1>13, <1>14, <1>15, <1>16, <1>17, OwnKeepsApart, RemoveKeepsApart DEF Next, Step

\* Of the threads that share a converter, one at a time fetches a build
\* identifier: DiscoveryCache::begin makes one owner per key until it finishes.
THEOREM Coalesced == Spec => []SingleFlight
<1>1. Init => OwnerRegistered /\ OwnersApart
  BY DEF Init, OwnerRegistered, OwnersApart, Owns, OwnerSteps
<1>2. FlightInv => SingleFlight
  BY DEF FlightInv, OwnerRegistered, OwnersApart, SingleFlight
<1>3. Spec => []FlightTypeOK
  BY TypeCorrect
<1> QED
  BY <1>1, <1>2, <1>3, FlightInvInductive, PTL DEF Spec, FlightInv

-----------------------------------------------------------------------------
(* What the waiters are told *)

\* The invariant of the answer: a request is about one build identifier,
\* whoever refers to it; what an owner is about to report is in the directory;
\* and where a request says yes, its download is there (or was removed from
\* outside).
Good(k) == k \in lost \/ file[k] \in {"fits", "foreign"}

Refers(r, k) ==
  \/ \E t \in Threads : request[t] = r /\ key[t] = k
  \/ \E c \in Converters : requests[c][k] = r

Past(t) == pc[t] \in {"finish", "notify", "remove"}

OneKey ==
  \A r \in Requests, k, j \in BuildIds : Refers(r, k) /\ Refers(r, j) => k = j

BeforeBegin ==
  \A t \in Threads : pc[t] \in {"idle", "look", "begin"} => request[t] = NoRequest

Downloaded ==
  \A t \in Threads :
    /\ pc[t] = "link" => bytes[t] \in {"fits", "foreign"}
    /\ Past(t) /\ bytes[t] # "absent" => Good(key[t])
    /\ ~Past(t) /\ pc[t] # "link" => bytes[t] = "absent"

YesMeansStored ==
  \A r \in Requests, k \in BuildIds :
    Refers(r, k) /\ found[r] = "yes" => Good(k)

AnswerInv ==
  /\ FlightTypeOK
  /\ OneKey /\ BeforeBegin /\ Downloaded /\ YesMeansStored

LEMMA AnswerInit == Init => AnswerInv
<1> SUFFICES ASSUME Init PROVE AnswerInv
  OBVIOUS
<1>1. FlightTypeOK
  BY FlightTyped
<1>2. \A r \in Requests, k \in BuildIds : ~Refers(r, k)
  BY DiscoveryAssumption DEF Init, Refers
<1>3. BeforeBegin /\ Downloaded
  BY DEF Init, BeforeBegin, Downloaded, Past
<1> QED
  BY <1>1, <1>2, <1>3 DEF AnswerInv, OneKey, YesMeansStored

\* No step undoes a stored download except the removal that lost records.
LEMMA GoodStable ==
  ASSUME AnswerInv, [Next]_vars, NEW k \in BuildIds, Good(k)
  PROVE  Good(k)'
<1> USE DEF Good, AnswerInv, FlightTypeOK
<1>1. ASSUME NEW t \in Threads, Link(t) PROVE Good(k)'
  BY <1>1 DEF Link, Downloaded
<1>2. ASSUME NEW j \in BuildIds, Lose(j) PROVE Good(k)'
  BY <1>2 DEF Lose
<1>3. CASE UNCHANGED <<file, lost>>
  BY <1>3
<1>4. \/ \E t \in Threads : Link(t)
      \/ \E j \in BuildIds : Lose(j)
      \/ UNCHANGED <<file, lost>>
  BY DEF Next, Step, vars, directory, Start, Look, Join, Own, Fetch,
     ServersExhausted, StoreFails, Finish, NotifyAll, Remove, Sleep, Wake,
     Reread, SpuriousWakeup, Unwind
<1> QED
  BY <1>1, <1>2, <1>3, <1>4

\* A step that neither makes a request nor answers one only drops references.
LEMMA ReferencesShrink ==
  ASSUME AnswerInv, [Next]_vars,
         \A r \in Requests, k \in BuildIds : Refers(r, k)' => Refers(r, k),
         found' = found
  PROVE  OneKey' /\ YesMeansStored'
<1>1. OneKey'
  BY DEF AnswerInv, OneKey
<1>2. YesMeansStored'
  BY GoodStable DEF AnswerInv, YesMeansStored
<1> QED
  BY <1>1, <1>2

LEMMA OwnKeepsAnswers ==
  ASSUME AnswerInv, [Next]_vars, NEW t \in Threads, Own(t)
  PROVE  OneKey' /\ YesMeansStored'
<1> USE DEF AnswerInv, FlightTypeOK
<1>1. ConverterOf[t] \in Converters /\ key[t] \in BuildIds
  BY DiscoveryAssumption
<1>2. PICK n \in Requests :
        /\ Unreferenced(n)
        /\ request' = [request EXCEPT ![t] = n]
        /\ requests' = [requests EXCEPT ![ConverterOf[t]][key[t]] = n]
        /\ found' = [found EXCEPT ![n] = "pending"]
  BY DEF Own
<1>3. key' = key
  BY DEF Own
<1>4. ASSUME NEW r \in Requests, NEW k \in BuildIds, Refers(r, k)', r # n
      PROVE  Refers(r, k)
  BY <1>1, <1>2, <1>3, <1>4 DEF Refers
<1>5. ASSUME NEW k \in BuildIds, Refers(n, k)'
      PROVE  k = key[t]
  <2>1. /\ \A u \in Threads : request[u] # n
        /\ \A c \in Converters, j \in BuildIds : requests[c][j] # n
    BY <1>2 DEF Unreferenced
  <2> QED
    BY <1>1, <1>2, <1>3, <1>5, <2>1 DEF Refers
<1>6. OneKey'
  BY <1>4, <1>5 DEF OneKey
<1>7. YesMeansStored'
  <2> SUFFICES ASSUME NEW r \in Requests, NEW k \in BuildIds,
                      Refers(r, k)', found'[r] = "yes"
               PROVE  Good(k)'
    BY DEF YesMeansStored
  <2>1. r # n /\ found[r] = "yes"
    BY <1>2
  <2> QED
    BY <1>4, <2>1, GoodStable DEF YesMeansStored
<1> QED
  BY <1>6, <1>7

LEMMA FinishKeepsAnswers ==
  ASSUME AnswerInv, [Next]_vars, NEW t \in Threads, Finish(t)
  PROVE  OneKey' /\ YesMeansStored'
<1> USE DEF AnswerInv, FlightTypeOK
<1>1. /\ UNCHANGED <<request, requests, key>>
      /\ pc[t] = "finish"
      /\ found' = [found EXCEPT ![request[t]] = IF Found(t) THEN "yes" ELSE "no"]
  BY DEF Finish, call
<1>2. request[t] \in Requests /\ key[t] \in BuildIds
  BY <1>1, DiscoveryAssumption DEF Owns, OwnerSteps
<1>3. \A r \in Requests, k \in BuildIds : Refers(r, k)' <=> Refers(r, k)
  BY <1>1 DEF Refers
<1>4. OneKey'
  BY <1>3 DEF OneKey
<1>5. YesMeansStored'
  <2> SUFFICES ASSUME NEW r \in Requests, NEW k \in BuildIds,
                      Refers(r, k), found'[r] = "yes"
               PROVE  Good(k)
    BY <1>3, GoodStable DEF YesMeansStored
  <2>1. CASE r = request[t]
    <3>1. Refers(r, key[t])
      BY <2>1 DEF Refers
    <3>2. k = key[t]
      BY <3>1, <1>2 DEF OneKey
    <3>3. bytes[t] # "absent"
      BY <1>1, <1>2, <2>1 DEF Found
    <3> QED
      BY <1>1, <3>2, <3>3 DEF Downloaded, Past
  <2>2. CASE r # request[t]
    BY <1>1, <2>2 DEF YesMeansStored
  <2> QED
    BY <2>1, <2>2
<1> QED
  BY <1>4, <1>5

\* A thread that drops its reference, keeps it, or takes one from the table,
\* and a table that loses entries: no identifier gains a reference.
LEMMA NoNewReference ==
  ASSUME NEW t \in Threads,
         \A c \in Converters, k \in BuildIds :
           requests'[c][k] \in {requests[c][k], NoRequest},
         \A u \in Threads \ {t} : request'[u] = request[u] /\ key'[u] = key[u],
         \/ request'[t] = NoRequest
         \/ request'[t] = request[t] /\ key'[t] = key[t]
         \/ \E c \in Converters : request'[t] = requests[c][key'[t]]
  PROVE  \A r \in Requests, k \in BuildIds : Refers(r, k)' => Refers(r, k)
<1> SUFFICES ASSUME NEW r \in Requests, NEW k \in BuildIds, Refers(r, k)'
             PROVE  Refers(r, k)
  OBVIOUS
<1>1. r # NoRequest
  BY DiscoveryAssumption
<1>2. CASE \E u \in Threads : request'[u] = r /\ key'[u] = k
  BY <1>1, <1>2 DEF Refers
<1>3. CASE \E c \in Converters : requests'[c][k] = r
  BY <1>1, <1>3 DEF Refers
<1> QED
  BY <1>2, <1>3 DEF Refers

\* The part of the invariant that is about one thread, and the steps of others.
LocalOK(u) ==
  /\ pc[u] \in {"idle", "look", "begin"} => request[u] = NoRequest
  /\ pc[u] = "link" => bytes[u] \in {"fits", "foreign"}
  /\ Past(u) /\ bytes[u] # "absent" => Good(key[u])
  /\ ~Past(u) /\ pc[u] # "link" => bytes[u] = "absent"

Same(u) ==
  /\ pc'[u] = pc[u] /\ bytes'[u] = bytes[u]
  /\ request'[u] = request[u] /\ key'[u] = key[u]

LEMMA StillLocal ==
  ASSUME AnswerInv, [Next]_vars, NEW u \in Threads, Same(u)
  PROVE  LocalOK(u)'
<1>1. key[u] \in BuildIds
  BY DEF AnswerInv, FlightTypeOK
<1>2. ASSUME Good(key[u])
      PROVE  key[u] \in lost' \/ file'[key[u]] \in {"fits", "foreign"}
  BY <1>1, <1>2, GoodStable DEF Good
<1> QED
  BY <1>2 DEF AnswerInv, BeforeBegin, Downloaded, LocalOK, Same, Past, Good

LEMMA AnswerInvInductive ==
  AnswerInv /\ FlightTypeOK' /\ [Next]_vars => AnswerInv'
<1> SUFFICES ASSUME AnswerInv, FlightTypeOK', [Next]_vars
             PROVE  OneKey' /\ BeforeBegin' /\ Downloaded' /\ YesMeansStored'
  BY DEF AnswerInv
<1> DEFINE Narrow ==
      /\ found' = found
      /\ \A r \in Requests, k \in BuildIds : Refers(r, k)' => Refers(r, k)
    Local(t) == (\A u \in Threads \ {t} : Same(u)) /\ LocalOK(t)'
<1> USE DEF AnswerInv, FlightTypeOK, Goto, directory, flight, call
<1>1. ASSUME NEW t \in Threads, Start(t) PROVE Narrow /\ Local(t)
  <2>1. Narrow
    <3>1. /\ found' = found
          /\ requests' = requests /\ request'[t] = NoRequest
          /\ \A u \in Threads \ {t} : request'[u] = request[u] /\ key'[u] = key[u]
      BY <1>1 DEF Start, BeforeBegin
    <3> QED
      BY <3>1, NoNewReference
  <2>2. \A u \in Threads \ {t} : Same(u)
    BY <1>1 DEF Start, Same
  <2>3. LocalOK(t)'
    <3>1. pc'[t] = "look" /\ request'[t] = NoRequest /\ bytes'[t] = "absent"
      BY <1>1 DEF Start, BeforeBegin, Downloaded, Past
    <3> QED
      BY <3>1 DEF LocalOK, Past
  <2> QED
    BY <2>1, <2>2, <2>3
<1>2. ASSUME NEW t \in Threads, Look(t) PROVE Narrow /\ Local(t)
  <2>1. Narrow
    <3>1. /\ found' = found
          /\ requests' = requests /\ request'[t] = NoRequest
          /\ \A u \in Threads \ {t} : request'[u] = request[u] /\ key'[u] = key[u]
      BY <1>2 DEF Look, Return, BeforeBegin
    <3> QED
      BY <3>1, NoNewReference
  <2>2. \A u \in Threads \ {t} : Same(u)
    BY <1>2 DEF Look, Return, Same
  <2>3. LocalOK(t)'
    BY <1>2, DiscoveryAssumption DEF Look, Return, LocalOK, BeforeBegin, Downloaded, Past, Good
  <2> QED
    BY <2>1, <2>2, <2>3
<1>3. ASSUME NEW t \in Threads, Join(t) PROVE Narrow /\ Local(t)
  <2>1. Narrow
    <3>1. /\ found' = found /\ requests' = requests /\ key' = key
          /\ request'[t] = requests[ConverterOf[t]][key'[t]]
          /\ \A u \in Threads \ {t} : request'[u] = request[u]
      BY <1>3 DEF Join
    <3>2. ConverterOf[t] \in Converters
      BY DiscoveryAssumption
    <3> QED
      BY <3>1, <3>2, NoNewReference
  <2>2. \A u \in Threads \ {t} : Same(u)
    BY <1>3 DEF Join, Same
  <2>3. LocalOK(t)'
    <3>1. pc'[t] = "wait" /\ bytes'[t] = "absent"
      BY <1>3 DEF Join, BeforeBegin, Downloaded, Past
    <3> QED
      BY <3>1 DEF LocalOK, Past
  <2> QED
    BY <2>1, <2>2, <2>3
<1>4. ASSUME NEW t \in Threads, Fetch(t) PROVE Narrow /\ Local(t)
  <2>1. Narrow
    BY <1>4 DEF Fetch, NextServer, Fits, Refers
  <2>2. \A u \in Threads \ {t} : Same(u)
    BY <1>4 DEF Fetch, NextServer, Fits, Same
  <2>3. LocalOK(t)'
    BY <1>4, DiscoveryAssumption DEF Fetch, NextServer, Fits, LocalOK, BeforeBegin, Downloaded, Past, Good
  <2> QED
    BY <2>1, <2>2, <2>3
<1>5. ASSUME NEW t \in Threads, ServersExhausted(t) PROVE Narrow /\ Local(t)
  <2>1. Narrow
    BY <1>5 DEF ServersExhausted, Refers
  <2>2. \A u \in Threads \ {t} : Same(u)
    BY <1>5 DEF ServersExhausted, Same
  <2>3. LocalOK(t)'
    BY <1>5, DiscoveryAssumption DEF ServersExhausted, LocalOK, BeforeBegin, Downloaded, Past, Good
  <2> QED
    BY <2>1, <2>2, <2>3
<1>6. ASSUME NEW t \in Threads, Link(t) PROVE Narrow /\ Local(t)
  <2>1. Narrow
    BY <1>6 DEF Link, Refers
  <2>2. \A u \in Threads \ {t} : Same(u)
    BY <1>6 DEF Link, Same
  <2>3. LocalOK(t)'
    BY <1>6, DiscoveryAssumption DEF Link, LocalOK, BeforeBegin, Downloaded, Past, Good
  <2> QED
    BY <2>1, <2>2, <2>3
<1>7. ASSUME NEW t \in Threads, StoreFails(t) PROVE Narrow /\ Local(t)
  <2>1. Narrow
    BY <1>7 DEF StoreFails, NextServer, Refers
  <2>2. \A u \in Threads \ {t} : Same(u)
    BY <1>7 DEF StoreFails, NextServer, Same
  <2>3. LocalOK(t)'
    BY <1>7, DiscoveryAssumption DEF StoreFails, NextServer, LocalOK, BeforeBegin, Downloaded, Past, Good
  <2> QED
    BY <2>1, <2>2, <2>3
<1>8. ASSUME NEW t \in Threads, Remove(t) PROVE Narrow /\ Local(t)
  <2>1. Narrow
    <3>1. /\ found' = found /\ key' = key
          /\ request'[t] = NoRequest
          /\ \A u \in Threads \ {t} : request'[u] = request[u]
      BY <1>8 DEF Remove, Return
    <3>2. \A c \in Converters, k \in BuildIds :
            requests'[c][k] \in {requests[c][k], NoRequest}
      <4>1. CASE requests[ConverterOf[t]][key[t]] = request[t]
        <5>1. requests' = [requests EXCEPT ![ConverterOf[t]][key[t]] = NoRequest]
          BY <1>8, <4>1 DEF Remove
        <5> QED
          BY <5>1
      <4>2. CASE requests[ConverterOf[t]][key[t]] # request[t]
        BY <1>8, <4>2 DEF Remove
      <4> QED
        BY <4>1, <4>2
    <3> QED
      BY <3>1, <3>2, NoNewReference
  <2>2. \A u \in Threads \ {t} : Same(u)
    BY <1>8 DEF Remove, Return, Same
  <2>3. LocalOK(t)'
    BY <1>8, DiscoveryAssumption DEF Remove, Return, LocalOK, BeforeBegin, Downloaded, Past, Good
  <2> QED
    BY <2>1, <2>2, <2>3
<1>9. ASSUME NEW t \in Threads, Sleep(t) PROVE Narrow /\ Local(t)
  <2>1. Narrow
    BY <1>9 DEF Sleep, Refers
  <2>2. \A u \in Threads \ {t} : Same(u)
    BY <1>9 DEF Sleep, Same
  <2>3. LocalOK(t)'
    <3>1. pc'[t] = "asleep" /\ bytes'[t] = "absent"
      BY <1>9 DEF Sleep, BeforeBegin, Downloaded, Past
    <3> QED
      BY <3>1 DEF LocalOK, Past
  <2> QED
    BY <2>1, <2>2, <2>3
<1>10. ASSUME NEW t \in Threads, Wake(t) PROVE Narrow /\ Local(t)
  <2>1. Narrow
    <3>1. /\ found' = found /\ requests' = requests /\ key' = key
          /\ request'[t] \in {NoRequest, request[t]}
          /\ \A u \in Threads \ {t} : request'[u] = request[u]
      BY <1>10 DEF Wake, Return
    <3> QED
      BY <3>1, NoNewReference
  <2>2. \A u \in Threads \ {t} : Same(u)
    BY <1>10 DEF Wake, Return, Same
  <2>3. LocalOK(t)'
    <3>1. CASE found[request[t]] = "yes"
      <4>1. pc'[t] = "reread" /\ bytes'[t] = "absent"
        BY <1>10, <3>1 DEF Wake, Downloaded, Past
      <4> QED
        BY <4>1 DEF LocalOK, Past
    <3>2. CASE found[request[t]] # "yes"
      <4>1. pc'[t] = "idle" /\ bytes'[t] = "absent" /\ request'[t] = NoRequest
        BY <1>10, <3>2 DEF Wake, Return
      <4> QED
        BY <4>1 DEF LocalOK, Past
    <3> QED
      BY <3>1, <3>2
  <2> QED
    BY <2>1, <2>2, <2>3
<1>11. ASSUME NEW t \in Threads, Reread(t) PROVE Narrow /\ Local(t)
  <2>1. Narrow
    <3>1. /\ found' = found
          /\ requests' = requests /\ request'[t] = NoRequest
          /\ \A u \in Threads \ {t} : request'[u] = request[u] /\ key'[u] = key[u]
      BY <1>11 DEF Reread, Return
    <3> QED
      BY <3>1, NoNewReference
  <2>2. \A u \in Threads \ {t} : Same(u)
    BY <1>11 DEF Reread, Return, Same
  <2>3. LocalOK(t)'
    BY <1>11, DiscoveryAssumption DEF Reread, Return, LocalOK, BeforeBegin, Downloaded, Past, Good
  <2> QED
    BY <2>1, <2>2, <2>3
<1>12. ASSUME NEW t \in Threads, SpuriousWakeup(t) PROVE Narrow /\ Local(t)
  <2>1. Narrow
    BY <1>12 DEF SpuriousWakeup, Refers
  <2>2. \A u \in Threads \ {t} : Same(u)
    BY <1>12 DEF SpuriousWakeup, Same
  <2>3. LocalOK(t)'
    <3>1. pc'[t] = "wait" /\ bytes'[t] = "absent"
      BY <1>12 DEF SpuriousWakeup, BeforeBegin, Downloaded, Past
    <3> QED
      BY <3>1 DEF LocalOK, Past
  <2> QED
    BY <2>1, <2>2, <2>3
<1>13. ASSUME NEW t \in Threads, Unwind(t) PROVE Narrow /\ Local(t)
  <2>1. Narrow
    <3>1. /\ found' = found
          /\ requests' = requests /\ request'[t] = NoRequest
          /\ \A u \in Threads \ {t} : request'[u] = request[u] /\ key'[u] = key[u]
      BY <1>13 DEF Unwind
    <3> QED
      BY <3>1, NoNewReference
  <2>2. \A u \in Threads \ {t} : Same(u)
    BY <1>13 DEF Unwind, Same
  <2>3. LocalOK(t)'
    BY <1>13, DiscoveryAssumption DEF Unwind, LocalOK, BeforeBegin, Downloaded, Past, Good
  <2> QED
    BY <2>1, <2>2, <2>3
<1>14. ASSUME NEW t \in Threads, Own(t) PROVE Local(t)
  <2>1. \A u \in Threads \ {t} : Same(u)
    BY <1>14 DEF Own, Same
  <2>2. LocalOK(t)'
    BY <1>14 DEF Own, LocalOK, Downloaded, Past
  <2> QED
    BY <2>1, <2>2
<1>15. ASSUME NEW t \in Threads, Finish(t) PROVE Local(t)
  <2>1. \A u \in Threads \ {t} : Same(u)
    BY <1>15 DEF Finish, Same
  <2>2. LocalOK(t)'
    BY <1>15 DEF Finish, LocalOK, Downloaded, Past, Good
  <2> QED
    BY <2>1, <2>2
<1>16. ASSUME NEW t \in Threads, NotifyAll(t)
       PROVE  Narrow /\ \A u \in Threads : LocalOK(u)'
  <2>1. Narrow
    BY <1>16 DEF NotifyAll, Refers
  <2>2. ASSUME NEW u \in Threads PROVE LocalOK(u)'
    BY <1>16, <2>2 DEF NotifyAll, LocalOK, BeforeBegin, Downloaded, Past, Good
  <2> QED
    BY <2>1, <2>2
<1>17. ASSUME NEW k \in BuildIds, Lose(k)
       PROVE  Narrow /\ \A u \in Threads : Same(u)
  BY <1>17 DEF Lose, Refers, Same
<1>18. ASSUME UNCHANGED vars
       PROVE  Narrow /\ \A u \in Threads : Same(u)
  BY <1>18, Unmoved DEF Refers, Same
<1>19. ASSUME NEW t \in Threads, Local(t) PROVE \A u \in Threads : LocalOK(u)'
  BY <1>19, StillLocal
<1>20. \A u \in Threads : LocalOK(u)'
  <2> HIDE DEF Narrow, Local
  <2> QED
    BY <1>1, <1>2, <1>3, <1>4, <1>5, <1>6, <1>7, <1>8, <1>9, <1>10, <1>11, <1>12,
       <1>13, <1>14, <1>15, <1>16, <1>17, <1>18, <1>19, StillLocal DEF Next, Step
<1>21. BeforeBegin' /\ Downloaded'
  BY <1>20 DEF LocalOK, BeforeBegin, Downloaded
<1>22. Narrow => OneKey' /\ YesMeansStored'
  BY ReferencesShrink
<1>23. OneKey' /\ YesMeansStored'
  <2> HIDE DEF Narrow, Local
  <2> QED
    BY <1>1, <1>2, <1>3, <1>4, <1>5, <1>6, <1>7, <1>8, <1>9, <1>10, <1>11, <1>12,
       <1>13, <1>16, <1>17, <1>18, <1>22, OwnKeepsAnswers, FinishKeepsAnswers
       DEF Next, Step
<1> QED
  BY <1>21, <1>23

\* A waiter told that the request succeeded finds the download: persist and
\* link come before finish, and nothing undoes them.
THEOREM WaitersServed == Spec => []CoalescedAgree
<1>1. AnswerInv => CoalescedAgree
  <2> SUFFICES ASSUME AnswerInv, NEW t \in Threads,
                      pc[t] \in {"wait", "asleep", "reread"},
                      found[request[t]] = "yes", key[t] \notin lost
               PROVE  file[key[t]] \in {"fits", "foreign"}
    BY DEF CoalescedAgree
  <2>1. request[t] \in Requests /\ key[t] \in BuildIds
    BY DEF AnswerInv, FlightTypeOK
  <2>2. Refers(request[t], key[t])
    BY DEF Refers
  <2> QED
    BY <2>1, <2>2 DEF AnswerInv, YesMeansStored, Good
<1> QED
  BY <1>1, TypeCorrect, AnswerInit, AnswerInvInductive, PTL DEF Spec

\* Later downloads never replace an earlier one: hard_link creates or fails.
THEOREM NeverReplaced == Spec => DownloadsAreKept
<1>1. FlightTypeOK /\ [Next]_vars =>
        [\A k \in BuildIds : file[k] # "absent" => file'[k] \in {file[k], "absent"}]_vars
  <2> SUFFICES ASSUME FlightTypeOK, Next, NEW k \in BuildIds, file[k] # "absent"
               PROVE  file'[k] \in {file[k], "absent"}
    OBVIOUS
  <2>1. ASSUME NEW t \in Threads, Link(t) PROVE file'[k] = file[k]
    BY <2>1 DEF Link, FlightTypeOK
  <2>2. ASSUME NEW j \in BuildIds, Lose(j) PROVE file'[k] \in {file[k], "absent"}
    BY <2>2 DEF Lose, FlightTypeOK
  <2>3. \/ \E t \in Threads : Link(t)
        \/ \E j \in BuildIds : Lose(j)
        \/ file' = file
    BY DEF Next, Step, directory, Start, Look, Join, Own, Fetch,
       ServersExhausted, StoreFails, Finish, NotifyAll, Remove, Sleep, Wake,
       Reread, SpuriousWakeup, Unwind
  <2> QED
    BY <2>1, <2>2, <2>3
<1> QED
  BY <1>1, TypeCorrect, PTL DEF Spec, DownloadsAreKept
=============================================================================
