--------------------------- MODULE DeliveryProofs ---------------------------
(***************************************************************************)
(* Proofs about the delivery of audits, for any sellers, report sources    *)
(* and number of deals.                                                    *)
(***************************************************************************)
EXTENDS Delivery, TLAPS

\* How far the parts of one audit may be apart: nothing was asked of the broker
\* or of Strix before the audit is opened, a request that waits has no process
\* yet, a process that runs has no answer yet, a killed one a failure, the broker answers with a run
\* directory, and a run that has one closed by itself.
Phases ==
  \A a \in Audits :
    /\ at[a] # "idle" => by[a] \in Sellers
    /\ at[a] \in {"idle", "opening"} =>
         request[a] = "none" /\ child[a] = "none" /\ result[a] = None
    /\ request[a] \in {"posted", "admitted"} => child[a] = "none" /\ result[a] = None
    /\ child[a] = "running" => result[a] = None
    /\ child[a] = "killed" => result[a] = Failure
    /\ request[a] = "answered" => result[a] \in Audits
    /\ result[a] \in Audits => child[a] = "closed"

\* Whose directory a run may take: one of its own host, made by a process, and
\* one that it did not see at first if it made a directory itself.
Directories ==
  /\ \A h \in Hosts : \A d \in Range(dirs[h]) : child[d] # "none" /\ HostOf(d) = h
  /\ \A a \in Audits :
       /\ a \notin before[a]
       /\ result[a] \in Audits =>
            /\ child[result[a]] # "none"
            /\ HostOf(result[a]) = HostOf(a)
            /\ a \in Range(dirs[HostOf(a)]) =>
                 result[a] = a \/ result[a] \notin before[a]
       /\ found[a] # None => found[a] = result[a]

\* The directory with the newest mtime is one of those there are.
NewestExists == \A h \in Hosts : dirs[h] # <<>> => written[h] \in Range(dirs[h])

\* The inductive invariant.
Inv == TypeOK /\ Phases /\ Directories /\ NewestExists /\ BusyMeansScanning
-----------------------------------------------------------------------------
\* No deal is taken for the absence of a result or for a failure.
LEMMA Distinct == None \notin Audits /\ Failure \notin Audits /\ None # Failure
BY DeliveryAssumption DEF Audits

\* The scan of an audit that has begun has a host.
LEMMA HostIsHost ==
  ASSUME TypeOK, Phases, NEW a \in Audits, at[a] # "idle"
  PROVE  HostOf(a) \in Hosts
BY DEF Phases, HostOf, Hosts

\* The elements of a sequence, and of one with an element more.
LEMMA RangeOfSeq ==
  ASSUME NEW S, NEW s \in Seq(S)
  PROVE  /\ Range(s) \subseteq S
         /\ \A e \in S : Range(Append(s, e)) = Range(s) \cup {e}
<1>1. Range(s) \subseteq S
  BY DEF Range
<1>2. ASSUME NEW e \in S
      PROVE  Range(Append(s, e)) = Range(s) \cup {e}
  <2>1. /\ DOMAIN s = 1 .. Len(s)
        /\ DOMAIN Append(s, e) = 1 .. Len(s) + 1
        /\ Len(s) \in Nat
        /\ Append(s, e)[Len(s) + 1] = e
        /\ \A n \in 1 .. Len(s) : Append(s, e)[n] = s[n]
    OBVIOUS
  <2>2. \A x \in Range(Append(s, e)) : x \in Range(s) \cup {e}
    BY <2>1 DEF Range
  <2>3. \A x \in Range(s) \cup {e} : x \in Range(Append(s, e))
    <3>1. \A n \in 1 .. Len(s) : n \in 1 .. Len(s) + 1
      BY <2>1
    <3>2. Len(s) + 1 \in 1 .. Len(s) + 1
      BY <2>1
    <3>. QED
      BY <2>1, <3>1, <3>2 DEF Range
  <2>. QED
    BY <2>2, <2>3
<1>. QED
  BY <1>1, <1>2

\* What runStrix takes is one of the run directories of its host, a new one if
\* there is one.
LEMMA RunDirsTaken ==
  ASSUME TypeOK, Phases, NewestExists, NEW a \in Audits, at[a] # "idle",
         NEW d \in RunDirs(a)
  PROVE  /\ d = Failure \/ d \in Range(dirs[HostOf(a)])
         /\ d \in Audits \cup {Failure}
         /\ \A e \in Range(dirs[HostOf(a)]) : e \notin before[a] => d \notin before[a]
<1>. DEFINE h   == HostOf(a)
            all == dirs[h]
<1>1. h \in Hosts /\ all \in Seq(Audits)
  BY HostIsHost DEF TypeOK
<1>2. all # <<>> => written[h] \in Range(all)
  BY <1>1 DEF NewestExists
<1>3. Range(all) \subseteq Audits
  BY <1>1, RangeOfSeq
<1>5. CASE \E e \in Range(all) : e \notin before[a]
  <2>1. {n \in DOMAIN all : all[n] \notin before[a]} # {}
    BY <1>5 DEF Range
  <2>2. \E n \in DOMAIN all : d = all[n] /\ all[n] \notin before[a]
    BY <2>1 DEF RunDirs
  <2>. QED
    BY <2>2, <1>3 DEF Range
<1>6. CASE \A e \in Range(all) : e \in before[a]
  <2>1. {n \in DOMAIN all : all[n] \notin before[a]} = {}
    BY <1>6 DEF Range
  <2>2. IF all # <<>> THEN d = written[h] ELSE d = Failure
    BY <2>1 DEF RunDirs
  <2>. QED
    BY <2>2, <1>2, <1>3, <1>6
<1>. QED
  BY <1>5, <1>6

-----------------------------------------------------------------------------
(***************************************************************************)
(* Initially, and step by step.                                            *)
(***************************************************************************)
\* At first nothing was delivered and no directory exists.
LEMMA InitInv == Init => Inv
<1>. SUFFICES ASSUME Init PROVE Inv
  OBVIOUS
<1>. USE Distinct, DeliveryAssumption DEF Init
<1>1. TypeOK
  <2>1. <<>> \in Seq(Audits)
    OBVIOUS
  <2>. QED
    BY <2>1 DEF TypeOK
<1>2. Phases
  BY DEF Phases
<1>3. Directories
  BY DEF Directories, Range
<1>4. NewestExists
  BY DEF NewestExists
<1>. QED
  BY <1>1, <1>2, <1>3, <1>4 DEF Inv, BusyMeansScanning

\* A run that starts leaves its host's directories alone and lists them.
LEMMA StartTypes ==
  ASSUME TypeOK, NEW a \in Audits, HostOf(a) \in Hosts, StartStrix(a)
  PROVE  /\ child' \in [Audits -> {"none", "running", "closed", "killed", "reaped"}]
         /\ before' \in [Audits -> SUBSET Audits]
         /\ result' \in [Audits -> Audits \cup {None, Failure}]
         /\ dirs' \in [Hosts -> Seq(Audits)]
         /\ written' \in [Hosts -> Audits \cup {None}]
<1>1. Range(dirs[HostOf(a)]) \subseteq Audits
  BY RangeOfSeq DEF TypeOK
<1>. QED
  <2>1. dirs' = dirs /\ written' = written
    BY DEF StartStrix, dirVars
  <2>2. before' \in [Audits -> SUBSET Audits]
    BY <1>1 DEF TypeOK, StartStrix
  <2>3. /\ child' \in [Audits -> {"none", "running", "closed", "killed", "reaped"}]
        /\ result' \in [Audits -> Audits \cup {None, Failure}]
    <3>1. CASE child' = [child EXCEPT ![a] = "running"] /\ UNCHANGED result
      BY <3>1 DEF TypeOK
    <3>2. CASE result' = [result EXCEPT ![a] = Failure] /\ UNCHANGED child
      BY <3>2 DEF TypeOK
    <3>. QED
      BY <3>1, <3>2 DEF StartStrix
  <2>. QED
    BY <2>1, <2>2, <2>3 DEF TypeOK

\* Every step keeps the types.
LEMMA TypeKept ==
  ASSUME Inv, [Next]_vars
  PROVE  TypeOK'
<1>. USE Distinct DEF Inv, TypeOK, Phases, GoOn, End, Succeeded, auditVars,
          brokerVars, strixVars, dirVars
<1>1. ASSUME NEW a \in Audits, NEW s \in Sellers, Start(a, s) PROVE TypeOK'
  <2>1. UNCHANGED <<path, found, request, busy, child, before, result, dirs, written>>
    BY <1>1 DEF Start
  <2>2. by' \in [Audits -> Sellers \cup {None}]
    BY <1>1 DEF Start
  <2>3. /\ at' \in [Audits -> {"idle", "opening", "fetching", "scanning", "closing",
                              "erring", "catching", "over"}]
        /\ outcome' \in [Audits -> {"none", "report", "refused", "failed", "thrown",
                                   "lost"}]
    <3>1. CASE End(a, "refused")
      BY <3>1
    <3>2. CASE End(a, "failed")
      BY <3>2
    <3>3. CASE GoOn(a, "opening") /\ UNCHANGED outcome
      BY <3>3
    <3>4. End(a, "refused") \/ End(a, "failed") \/ (GoOn(a, "opening") /\ UNCHANGED outcome)
      BY <1>1 DEF Start
    <3>. QED
      BY <3>1, <3>2, <3>3, <3>4
  <2>. QED
    BY <2>1, <2>2, <2>3
<1>2. ASSUME NEW s \in Sellers, SellerDies(s) PROVE TypeOK'
  <2>1. <<>> \in Seq(Audits) /\ s \in Hosts
    BY DEF Hosts
  <2>2. CASE UNCHANGED dirVars
    BY <1>2, <2>2 DEF SellerDies
  <2>3. CASE /\ dirs' = [dirs EXCEPT ![s] = <<>>]
             /\ written' = [written EXCEPT ![s] = None]
    BY <1>2, <2>1, <2>3 DEF SellerDies
  <2>. QED
    BY <1>2, <2>2, <2>3 DEF SellerDies
<1>3. ASSUME NEW a \in Audits, EmitFails(a) PROVE TypeOK'
  BY <1>3 DEF EmitFails
<1>4. ASSUME NEW a \in Audits, LoadPrebaked(a) PROVE TypeOK'
  BY <1>4 DEF LoadPrebaked
<1>5. ASSUME NEW a \in Audits, Post(a) PROVE TypeOK'
  BY <1>5 DEF Post
<1>6. ASSUME NEW a \in Audits, Receive(a) PROVE TypeOK'
  <2>1. result[a] \in Audits \/ UNCHANGED found
    BY <1>6 DEF Receive
  <2>2. found' \in [Audits -> Audits \cup {None}]
    BY <1>6, <2>1 DEF Receive
  <2>3. at' \in [Audits -> {"idle", "opening", "fetching", "scanning", "closing",
                           "erring", "catching", "over"}]
    <3>1. CASE GoOn(a, "closing")
      BY <3>1
    <3>2. CASE GoOn(a, "erring")
      BY <3>2
    <3>. QED
      BY <1>6, <3>1, <3>2 DEF Receive
  <2>. QED
    BY <1>6, <2>2, <2>3 DEF Receive
<1>7. ASSUME NEW a \in Audits, Spawn(a) PROVE TypeOK'
  <2>1. CASE StartStrix(a) /\ GoOn(a, "scanning") /\ UNCHANGED outcome
    BY <1>7, <2>1, StartTypes, HostIsHost DEF Spawn
  <2>2. CASE End(a, "thrown") /\ UNCHANGED strixVars
    BY <1>7, <2>2 DEF Spawn
  <2>. QED
    BY <1>7, <2>1, <2>2 DEF Spawn
<1>8. ASSUME NEW a \in Audits, TakeResult(a) PROVE TypeOK'
  <2>1. result[a] \in Audits \/ UNCHANGED found
    BY <1>8 DEF TakeResult
  <2>2. found' \in [Audits -> Audits \cup {None}]
    BY <1>8, <2>1 DEF TakeResult
  <2>3. at' \in [Audits -> {"idle", "opening", "fetching", "scanning", "closing",
                           "erring", "catching", "over"}]
    <3>1. CASE GoOn(a, "closing")
      BY <3>1
    <3>2. CASE GoOn(a, "erring")
      BY <3>2
    <3>. QED
      BY <1>8, <3>1, <3>2 DEF TakeResult
  <2>. QED
    BY <1>8, <2>2, <2>3 DEF TakeResult
<1>9. ASSUME NEW a \in Audits, Finish(a) PROVE TypeOK'
  BY <1>9 DEF Finish
<1>10. ASSUME NEW a \in Audits, Admit(a) PROVE TypeOK'
  BY <1>10 DEF Admit
<1>11. ASSUME NEW a \in Audits, Begin(a) PROVE TypeOK'
  BY <1>11, StartTypes, HostIsHost DEF Begin
<1>12. ASSUME NEW a \in Audits, Answer(a) PROVE TypeOK'
  BY <1>12 DEF Answer
<1>13. ASSUME NEW a \in Audits, GiveUp(a) PROVE TypeOK'
  BY <1>13 DEF GiveUp
<1>14. ASSUME NEW a \in Audits, MakeRunDir(a) PROVE TypeOK'
  <2>1. HostOf(a) \in Hosts
    BY <1>14, HostIsHost DEF MakeRunDir
  <2>2. Append(dirs[HostOf(a)], a) \in Seq(Audits)
    BY <2>1
  <2>. QED
    BY <1>14, <2>1, <2>2 DEF MakeRunDir
<1>15. ASSUME NEW a \in Audits, Timeout(a) PROVE TypeOK'
  BY <1>15 DEF Timeout
<1>16. ASSUME NEW a \in Audits, Close(a) PROVE TypeOK'
  <2>1. at[a] # "idle"
    BY <1>16 DEF Close
  <2>2. RunDirs(a) \subseteq Audits \cup {Failure}
    BY <2>1, RunDirsTaken
  <2>3. UNCHANGED <<path, by, at, outcome, found, request, busy, before, dirs, written>>
    BY <1>16 DEF Close
  <2>4. result' \in [Audits -> Audits \cup {None, Failure}]
    BY <1>16, <2>2 DEF Close
  <2>5. child' \in [Audits -> {"none", "running", "closed", "killed", "reaped"}]
    BY <1>16 DEF Close, Closed
  <2>. QED
    BY <2>3, <2>4, <2>5
<1>17. ASSUME NEW a \in Audits, WriteRunDir(a) PROVE TypeOK'
  BY <1>17 DEF WriteRunDir
<1>18. CASE UNCHANGED vars
  BY <1>18 DEF vars
<1>. QED
  BY <1>1, <1>2, <1>3, <1>4, <1>5, <1>6, <1>7, <1>8, <1>9, <1>10, <1>11,
     <1>12, <1>13, <1>14, <1>15, <1>16, <1>17, <1>18 DEF Next, SellerStep,
     BrokerStep

\* Every step keeps the phases in order.
LEMMA PhasesKept ==
  ASSUME Inv, [Next]_vars
  PROVE  Phases'
<1>. USE Distinct DEF Inv, TypeOK, Phases, GoOn, End, Succeeded, auditVars,
          brokerVars, strixVars, dirVars
<1>1. ASSUME NEW a \in Audits, NEW s \in Sellers, Start(a, s) PROVE Phases'
  BY <1>1 DEF Start
<1>2. ASSUME NEW s \in Sellers, SellerDies(s) PROVE Phases'
  BY <1>2 DEF SellerDies
<1>3. ASSUME NEW a \in Audits, EmitFails(a) PROVE Phases'
  BY <1>3 DEF EmitFails
<1>4. ASSUME NEW a \in Audits, LoadPrebaked(a) PROVE Phases'
  BY <1>4 DEF LoadPrebaked
<1>5. ASSUME NEW a \in Audits, Post(a) PROVE Phases'
  BY <1>5 DEF Post
<1>6. ASSUME NEW a \in Audits, Receive(a) PROVE Phases'
  BY <1>6 DEF Receive
<1>7. ASSUME NEW a \in Audits, Spawn(a) PROVE Phases'
  BY <1>7 DEF Spawn, StartStrix
<1>8. ASSUME NEW a \in Audits, TakeResult(a) PROVE Phases'
  BY <1>8 DEF TakeResult
<1>9. ASSUME NEW a \in Audits, Finish(a) PROVE Phases'
  BY <1>9 DEF Finish
<1>10. ASSUME NEW a \in Audits, Admit(a) PROVE Phases'
  BY <1>10 DEF Admit
<1>11. ASSUME NEW a \in Audits, Begin(a) PROVE Phases'
  BY <1>11 DEF Begin, StartStrix
<1>12. ASSUME NEW a \in Audits, Answer(a) PROVE Phases'
  BY <1>12 DEF Answer
<1>13. ASSUME NEW a \in Audits, GiveUp(a) PROVE Phases'
  BY <1>13 DEF GiveUp
<1>14. ASSUME NEW a \in Audits, MakeRunDir(a) PROVE Phases'
  BY <1>14 DEF MakeRunDir
<1>15. ASSUME NEW a \in Audits, Timeout(a) PROVE Phases'
  BY <1>15 DEF Timeout
<1>16. ASSUME NEW a \in Audits, Close(a) PROVE Phases'
  <2>1. UNCHANGED <<by, at, request>>
    BY <1>16 DEF Close
  <2>2. \A b \in Audits \ {a} : child'[b] = child[b] /\ result'[b] = result[b]
    BY <1>16 DEF Close
  <2>3. child[a] \in {"running", "killed"} /\ child'[a] = Closed(a)
    BY <1>16 DEF Close
  <2>4. CASE result[a] = None
    <3>1. request[a] # "answered" /\ child[a] = "running" /\ child'[a] = "closed"
      BY <2>3, <2>4 DEF Closed
    <3>. QED
      BY <2>1, <2>2, <2>3, <2>4, <3>1
  <2>5. CASE result[a] # None
    <3>1. result' = result
      BY <1>16, <2>5 DEF Close
    <3>. QED
      BY <2>1, <2>2, <2>3, <2>5, <3>1 DEF Closed
  <2>. QED
    BY <2>4, <2>5
<1>17. ASSUME NEW a \in Audits, WriteRunDir(a) PROVE Phases'
  BY <1>17 DEF WriteRunDir
<1>18. CASE UNCHANGED vars
  BY <1>18 DEF vars
<1>. QED
  BY <1>1, <1>2, <1>3, <1>4, <1>5, <1>6, <1>7, <1>8, <1>9, <1>10, <1>11,
     <1>12, <1>13, <1>14, <1>15, <1>16, <1>17, <1>18 DEF Next, SellerStep,
     BrokerStep

\* Only the end of a scan frees the broker, so one is always in progress meanwhile.
LEMMA BusyKept ==
  ASSUME Inv, [Next]_vars
  PROVE  BusyMeansScanning'
<1>. USE Distinct DEF Inv, TypeOK, Phases, BusyMeansScanning, GoOn, End,
          Succeeded, auditVars, brokerVars, strixVars, dirVars
<1>1. ASSUME NEW a \in Audits, NEW s \in Sellers, Start(a, s) PROVE BusyMeansScanning'
  BY <1>1 DEF Start
<1>2. ASSUME NEW s \in Sellers, SellerDies(s) PROVE BusyMeansScanning'
  BY <1>2 DEF SellerDies
<1>3. ASSUME NEW a \in Audits, EmitFails(a) PROVE BusyMeansScanning'
  BY <1>3 DEF EmitFails
<1>4. ASSUME NEW a \in Audits, LoadPrebaked(a) PROVE BusyMeansScanning'
  BY <1>4 DEF LoadPrebaked
<1>5. ASSUME NEW a \in Audits, Post(a) PROVE BusyMeansScanning'
  BY <1>5 DEF Post
<1>6. ASSUME NEW a \in Audits, Receive(a) PROVE BusyMeansScanning'
  BY <1>6 DEF Receive
<1>7. ASSUME NEW a \in Audits, Spawn(a) PROVE BusyMeansScanning'
  BY <1>7 DEF Spawn
<1>8. ASSUME NEW a \in Audits, TakeResult(a) PROVE BusyMeansScanning'
  BY <1>8 DEF TakeResult
<1>9. ASSUME NEW a \in Audits, Finish(a) PROVE BusyMeansScanning'
  BY <1>9 DEF Finish
<1>10. ASSUME NEW a \in Audits, Admit(a) PROVE BusyMeansScanning'
  BY <1>10 DEF Admit
<1>11. ASSUME NEW a \in Audits, Begin(a) PROVE BusyMeansScanning'
  BY <1>11 DEF Begin
<1>12. ASSUME NEW a \in Audits, Answer(a) PROVE BusyMeansScanning'
  BY <1>12 DEF Answer
<1>13. ASSUME NEW a \in Audits, GiveUp(a) PROVE BusyMeansScanning'
  BY <1>13 DEF GiveUp
<1>14. ASSUME NEW a \in Audits, MakeRunDir(a) PROVE BusyMeansScanning'
  BY <1>14 DEF MakeRunDir
<1>15. ASSUME NEW a \in Audits, Timeout(a) PROVE BusyMeansScanning'
  BY <1>15 DEF Timeout
<1>16. ASSUME NEW a \in Audits, Close(a) PROVE BusyMeansScanning'
  BY <1>16 DEF Close
<1>17. ASSUME NEW a \in Audits, WriteRunDir(a) PROVE BusyMeansScanning'
  BY <1>17 DEF WriteRunDir
<1>18. CASE UNCHANGED vars
  BY <1>18 DEF vars
<1>. QED
  BY <1>1, <1>2, <1>3, <1>4, <1>5, <1>6, <1>7, <1>8, <1>9, <1>10, <1>11,
     <1>12, <1>13, <1>14, <1>15, <1>16, <1>17, <1>18 DEF Next, SellerStep,
     BrokerStep

\* The seller of a deal, and so the host of its scan, is fixed when the audit
\* begins.
DealFixed ==
  path' = path /\ \A d \in Audits : at[d] # "idle" => by'[d] = by[d]

LEMMA DealKept ==
  ASSUME Inv, [Next]_vars
  PROVE  DealFixed
<1>. USE DEF DealFixed, Inv, TypeOK, GoOn, End, Succeeded, auditVars,
          brokerVars, strixVars, dirVars
<1>1. ASSUME NEW a \in Audits, NEW s \in Sellers, Start(a, s) PROVE DealFixed
  BY <1>1 DEF Start
<1>2. ASSUME NEW s \in Sellers, SellerDies(s) PROVE DealFixed
  BY <1>2 DEF SellerDies
<1>3. ASSUME NEW a \in Audits, EmitFails(a) PROVE DealFixed
  BY <1>3 DEF EmitFails
<1>4. ASSUME NEW a \in Audits, LoadPrebaked(a) PROVE DealFixed
  BY <1>4 DEF LoadPrebaked
<1>5. ASSUME NEW a \in Audits, Post(a) PROVE DealFixed
  BY <1>5 DEF Post
<1>6. ASSUME NEW a \in Audits, Receive(a) PROVE DealFixed
  BY <1>6 DEF Receive
<1>7. ASSUME NEW a \in Audits, Spawn(a) PROVE DealFixed
  BY <1>7 DEF Spawn
<1>8. ASSUME NEW a \in Audits, TakeResult(a) PROVE DealFixed
  BY <1>8 DEF TakeResult
<1>9. ASSUME NEW a \in Audits, Finish(a) PROVE DealFixed
  BY <1>9 DEF Finish
<1>10. ASSUME NEW a \in Audits, Admit(a) PROVE DealFixed
  BY <1>10 DEF Admit
<1>11. ASSUME NEW a \in Audits, Begin(a) PROVE DealFixed
  BY <1>11 DEF Begin
<1>12. ASSUME NEW a \in Audits, Answer(a) PROVE DealFixed
  BY <1>12 DEF Answer
<1>13. ASSUME NEW a \in Audits, GiveUp(a) PROVE DealFixed
  BY <1>13 DEF GiveUp
<1>14. ASSUME NEW a \in Audits, MakeRunDir(a) PROVE DealFixed
  BY <1>14 DEF MakeRunDir
<1>15. ASSUME NEW a \in Audits, Timeout(a) PROVE DealFixed
  BY <1>15 DEF Timeout
<1>16. ASSUME NEW a \in Audits, Close(a) PROVE DealFixed
  BY <1>16 DEF Close
<1>17. ASSUME NEW a \in Audits, WriteRunDir(a) PROVE DealFixed
  BY <1>17 DEF WriteRunDir
<1>18. CASE UNCHANGED vars
  BY <1>18 DEF vars
<1>. QED
  BY <1>1, <1>2, <1>3, <1>4, <1>5, <1>6, <1>7, <1>8, <1>9, <1>10, <1>11,
     <1>12, <1>13, <1>14, <1>15, <1>16, <1>17, <1>18 DEF Next, SellerStep,
     BrokerStep

\* What most steps do at most: they start processes, drop directories, answer
\* with a failure or take an answer for a report.
Quiet ==
  /\ \A a \in Audits :
       /\ child[a] # "none" => child'[a] # "none"
       /\ \/ result'[a] = result[a]
          \/ result[a] = None /\ result'[a] = Failure
       /\ \/ before'[a] = before[a]
          \/ a \notin before'[a] /\ result'[a] \notin Audits
       /\ found'[a] \in {found[a], result[a]}
  /\ \A h \in Hosts : Range(dirs'[h]) \subseteq Range(dirs[h])

\* Such a step keeps what is known of the directories.
LEMMA QuietStep ==
  ASSUME Inv, DealFixed, Quiet
  PROVE  Directories'
<1>. USE Distinct DEF Inv, TypeOK, Quiet
<1>1. \A d \in Audits : child[d] # "none" => at[d] # "idle"
  BY DEF Phases
<1>2. \A d \in Audits : at[d] # "idle" => HostOf(d)' = HostOf(d) /\ HostOf(d) \in Hosts
  BY HostIsHost DEF DealFixed, HostOf, PathOf
<1>3. \A h \in Hosts : Range(dirs[h]) \subseteq Audits
  BY RangeOfSeq
<1>4. ASSUME NEW h \in Hosts, NEW d \in Range(dirs'[h])
      PROVE  child'[d] # "none" /\ HostOf(d)' = h
  <2>1. d \in Audits /\ d \in Range(dirs[h])
    BY <1>3
  <2>2. child[d] # "none" /\ HostOf(d) = h
    BY <2>1 DEF Directories
  <2>. QED
    BY <1>1, <1>2, <2>1, <2>2
<1>5. ASSUME NEW a \in Audits
      PROVE  /\ a \notin before'[a]
             /\ found'[a] # None => found'[a] = result'[a]
  BY DEF Directories
<1>6. ASSUME NEW a \in Audits, result'[a] \in Audits
      PROVE  /\ child'[result'[a]] # "none"
             /\ HostOf(result[a])' = HostOf(a)'
             /\ a \in Range(dirs'[HostOf(a)']) =>
                  result'[a] = a \/ result'[a] \notin before'[a]
  <2>1. result'[a] = result[a] /\ before'[a] = before[a]
    BY <1>6
  <2>2. child[result[a]] # "none" /\ HostOf(result[a]) = HostOf(a)
    BY <2>1, <1>6 DEF Directories
  <2>3. at[a] # "idle" /\ at[result[a]] # "idle"
    BY <2>1, <2>2, <1>1, <1>6 DEF Phases
  <2>4. HostOf(result[a])' = HostOf(a)' /\ HostOf(a)' = HostOf(a) /\ HostOf(a) \in Hosts
    BY <2>1, <2>2, <2>3, <1>2, <1>6 DEF HostOf, PathOf, DealFixed
  <2>5. a \in Range(dirs'[HostOf(a)']) => a \in Range(dirs[HostOf(a)])
    BY <2>4
  <2>6. a \in Range(dirs[HostOf(a)]) => result[a] = a \/ result[a] \notin before[a]
    BY <2>1, <1>6 DEF Directories
  <2>. QED
    BY <2>1, <2>2, <2>4, <2>5, <2>6, <1>6
<1>. QED
  BY <1>4, <1>5, <1>6 DEF Directories

\* Every step is quiet, or makes a directory, or closes a run.
LEMMA MostAreQuiet ==
  ASSUME Inv, [Next]_vars, \A a \in Audits : ~ MakeRunDir(a) /\ ~ Close(a)
  PROVE  Quiet
<1>. USE Distinct DEF Inv, TypeOK, Phases, Quiet, GoOn, End, Succeeded,
          auditVars, brokerVars, strixVars, dirVars
<1>1. ASSUME NEW a \in Audits, NEW s \in Sellers, Start(a, s) PROVE Quiet
  BY <1>1 DEF Start
<1>2. ASSUME NEW s \in Sellers, SellerDies(s) PROVE Quiet
  <2>1. \A h \in Hosts : Range(dirs'[h]) \subseteq Range(dirs[h])
    <3>1. CASE UNCHANGED dirVars
      BY <3>1
    <3>2. CASE dirs' = [dirs EXCEPT ![s] = <<>>]
      <4>1. Range(<<>>) = {}
        BY DEF Range
      <4>. QED
        BY <3>2, <4>1
    <3>. QED
      BY <1>2, <3>1, <3>2 DEF SellerDies
  <2>2. \A a \in Audits : child[a] # "none" => child'[a] # "none"
    BY <1>2 DEF SellerDies
  <2>. QED
    BY <1>2, <2>1, <2>2 DEF SellerDies
<1>3. ASSUME NEW a \in Audits, EmitFails(a) PROVE Quiet
  BY <1>3 DEF EmitFails
<1>4. ASSUME NEW a \in Audits, LoadPrebaked(a) PROVE Quiet
  BY <1>4 DEF LoadPrebaked
<1>5. ASSUME NEW a \in Audits, Post(a) PROVE Quiet
  BY <1>5 DEF Post
<1>6. ASSUME NEW a \in Audits, Receive(a) PROVE Quiet
  BY <1>6 DEF Receive
<1>7. ASSUME NEW a \in Audits, Spawn(a) PROVE Quiet
  <2>1. at[a] # "idle" /\ child[a] = "none" /\ result[a] = None
    BY <1>7 DEF Spawn
  <2>2. a \notin Range(dirs[HostOf(a)])
    BY <2>1, HostIsHost DEF Directories
  <2>. QED
    BY <1>7, <2>1, <2>2 DEF Spawn, StartStrix
<1>8. ASSUME NEW a \in Audits, TakeResult(a) PROVE Quiet
  BY <1>8 DEF TakeResult
<1>9. ASSUME NEW a \in Audits, Finish(a) PROVE Quiet
  BY <1>9 DEF Finish
<1>10. ASSUME NEW a \in Audits, Admit(a) PROVE Quiet
  BY <1>10 DEF Admit
<1>11. ASSUME NEW a \in Audits, Begin(a) PROVE Quiet
  <2>1. at[a] # "idle" /\ child[a] = "none" /\ result[a] = None
    BY <1>11 DEF Begin
  <2>2. a \notin Range(dirs[HostOf(a)])
    BY <2>1, HostIsHost DEF Directories
  <2>. QED
    BY <1>11, <2>1, <2>2 DEF Begin, StartStrix
<1>12. ASSUME NEW a \in Audits, Answer(a) PROVE Quiet
  BY <1>12 DEF Answer
<1>13. ASSUME NEW a \in Audits, GiveUp(a) PROVE Quiet
  BY <1>13 DEF GiveUp
<1>14. ASSUME NEW a \in Audits, Timeout(a) PROVE Quiet
  BY <1>14 DEF Timeout
<1>15. ASSUME NEW a \in Audits, WriteRunDir(a) PROVE Quiet
  BY <1>15 DEF WriteRunDir
<1>16. CASE UNCHANGED vars
  BY <1>16 DEF vars
<1>. QED
  BY <1>1, <1>2, <1>3, <1>4, <1>5, <1>6, <1>7, <1>8, <1>9, <1>10, <1>11,
     <1>12, <1>13, <1>14, <1>15, <1>16 DEF Next, SellerStep, BrokerStep

\* A new directory belongs to a run that has no answer yet.
LEMMA MakeRunDirKeeps ==
  ASSUME Inv, NEW a \in Audits, MakeRunDir(a)
  PROVE  Directories'
<1>. USE Distinct DEF Inv, TypeOK, MakeRunDir, Succeeded, auditVars,
          brokerVars
<1>. DEFINE h == HostOf(a)
<1>1. h \in Hosts /\ at[a] # "idle" /\ result[a] = None
  BY HostIsHost DEF Phases
<1>2. Range(dirs'[h]) = Range(dirs[h]) \cup {a}
  BY <1>1, RangeOfSeq
<1>3. \A g \in Hosts \ {h} : dirs'[g] = dirs[g]
  BY <1>1
<1>4. \A d \in Audits : HostOf(d)' = HostOf(d)
  BY DEF HostOf, PathOf
<1>5. ASSUME NEW g \in Hosts, NEW d \in Range(dirs'[g])
      PROVE  child'[d] # "none" /\ HostOf(d)' = g
  <2>1. (d = a /\ g = h) \/ d \in Range(dirs[g])
    BY <1>2, <1>3
  <2>2. d \in Audits
    BY <2>1, RangeOfSeq
  <2>. QED
    BY <2>1, <2>2, <1>4 DEF Directories
<1>6. ASSUME NEW b \in Audits, result[b] \in Audits
      PROVE  /\ HostOf(b)' \in Hosts
             /\ b \in Range(dirs'[HostOf(b)']) => b \in Range(dirs[HostOf(b)])
  <2>1. b # a /\ at[b] # "idle"
    BY <1>1, <1>6 DEF Phases
  <2>2. HostOf(b)' = HostOf(b) /\ HostOf(b) \in Hosts
    BY <2>1, <1>4, HostIsHost
  <2>. QED
    BY <2>1, <2>2, <1>2, <1>3
<1>. QED
  BY <1>4, <1>5, <1>6 DEF Directories

\* A run that closes takes a directory of its host, and not one it saw at first
\* if it has made its own.
LEMMA CloseKeeps ==
  ASSUME Inv, NEW a \in Audits, Close(a)
  PROVE  Directories'
<1>. USE Distinct DEF Inv, TypeOK, Close, Closed, Succeeded, auditVars, brokerVars,
          dirVars
<1>. DEFINE h == HostOf(a)
<1>1. h \in Hosts /\ at[a] # "idle"
  BY HostIsHost DEF Phases
<1>0. DealFixed
  BY DEF DealFixed
<1>2. CASE result' = result
  <2>1. Quiet
    BY <1>2 DEF Quiet
  <2>. QED
    BY <2>1, <1>0, QuietStep
<1>3. CASE result[a] = None /\ \E d \in RunDirs(a) : result' = [result EXCEPT ![a] = d]
  <2>1. PICK d \in RunDirs(a) : result' = [result EXCEPT ![a] = d]
    BY <1>3
  <2>2. /\ d = Failure \/ d \in Range(dirs[h])
        /\ d \in Audits \cup {Failure}
        /\ a \in Range(dirs[h]) => d \notin before[a]
    BY <1>1, RunDirsTaken DEF Directories
  <2>3. CASE d = Failure
    <3>1. Quiet
      BY <1>3, <2>1, <2>3 DEF Quiet
    <3>. QED
      BY <3>1, <1>0, QuietStep
  <2>4. CASE d \in Range(dirs[h])
    <3>1. \A b \in Audits : HostOf(b)' = HostOf(b)
      BY DEF HostOf, PathOf
    <3>2. child[d] # "none" /\ HostOf(d) = h /\ d \in Audits
      <4>1. d \in Audits
        BY <1>1, <2>4, RangeOfSeq
      <4>. QED
        BY <1>1, <2>4, <4>1 DEF Directories
    <3>3. \A b \in Audits : child[b] # "none" => child'[b] # "none"
      OBVIOUS
    <3>4. ASSUME NEW g \in Hosts, NEW e \in Range(dirs'[g])
          PROVE  child'[e] # "none" /\ HostOf(e)' = g
      <4>1. e \in Range(dirs[g]) /\ e \in Audits
        BY RangeOfSeq
      <4>. QED
        BY <4>1, <3>1, <3>3 DEF Directories
    <3>5. ASSUME NEW b \in Audits
          PROVE  /\ b \notin before'[b]
                 /\ found'[b] # None => found'[b] = result'[b]
      BY <1>3, <2>1 DEF Directories
    <3>6. ASSUME NEW b \in Audits, result'[b] \in Audits
          PROVE  /\ child'[result'[b]] # "none"
                 /\ HostOf(result[b])' = HostOf(b)'
                 /\ b \in Range(dirs'[HostOf(b)']) =>
                      result'[b] = b \/ result'[b] \notin before'[b]
      <4>1. UNCHANGED <<dirs, before>>
        OBVIOUS
      <4>2. CASE b = a
        BY <4>1, <4>2, <2>1, <2>2, <3>1, <3>2, <3>3
      <4>3. CASE b # a
        <5>1. result'[b] = result[b]
          BY <2>1, <4>3
        <5>. QED
          BY <4>1, <5>1, <3>1, <3>3, <3>6 DEF Directories
      <4>. QED
        BY <4>2, <4>3
    <3>. QED
      BY <3>4, <3>5, <3>6 DEF Directories
  <2>. QED
    BY <2>2, <2>3, <2>4
<1>. QED
  BY <1>2, <1>3

\* Every step keeps what is known of the directories.
LEMMA DirectoriesKept ==
  ASSUME Inv, [Next]_vars
  PROVE  Directories'
BY DealKept, MostAreQuiet, QuietStep, MakeRunDirKeeps, CloseKeeps

\* Only a process with a directory writes into one, and what is emptied has no
\* newest.
LEMMA NewestKept ==
  ASSUME Inv, [Next]_vars
  PROVE  NewestExists'
<1>. USE Distinct DEF Inv, TypeOK, NewestExists, auditVars, brokerVars, strixVars,
          dirVars
<1>1. ASSUME UNCHANGED dirVars PROVE NewestExists'
  BY <1>1
<1>2. ASSUME NEW s \in Sellers, SellerDies(s) PROVE NewestExists'
  BY <1>2 DEF SellerDies
<1>3. ASSUME NEW a \in Audits, MakeRunDir(a) PROVE NewestExists'
  <2>1. HostOf(a) \in Hosts
    BY <1>3, HostIsHost DEF MakeRunDir, Phases
  <2>2. Range(dirs'[HostOf(a)]) = Range(dirs[HostOf(a)]) \cup {a}
    BY <1>3, <2>1, RangeOfSeq DEF MakeRunDir
  <2>. QED
    BY <1>3, <2>1, <2>2 DEF MakeRunDir
<1>4. ASSUME NEW a \in Audits, WriteRunDir(a) PROVE NewestExists'
  BY <1>4 DEF WriteRunDir
<1>5. UNCHANGED dirVars
      \/ (\E s \in Sellers : SellerDies(s))
      \/ (\E a \in Audits : MakeRunDir(a) \/ WriteRunDir(a))
  BY DEF Next, vars, SellerStep, BrokerStep, Start, EmitFails, LoadPrebaked, Post,
         Receive, Spawn, StartStrix, TakeResult, Finish, GiveUp, Admit, Begin,
         Answer, Timeout, Close
<1>. QED
  BY <1>1, <1>2, <1>3, <1>4, <1>5

\* The invariant holds in every reachable state.
LEMMA Invariance == Spec => []Inv
<1>1. Inv /\ [Next]_vars => Inv'
  BY TypeKept, PhasesKept, BusyKept, DirectoriesKept, NewestKept DEF Inv
<1>. QED
  BY InitInv, <1>1, PTL DEF Spec
-----------------------------------------------------------------------------
(***************************************************************************)
(* What holds of every behaviour.                                          *)
(***************************************************************************)
\* The state of the delivery stays well typed; in particular no failure is taken
\* for a directory, and no report has findings without one.
THEOREM DeliveryTypeCorrect == Spec => []TypeOK
<1>1. Inv => TypeOK
  BY DEF Inv
<1>. QED
  BY Invariance, <1>1, PTL

\* Whenever the broker refuses requests, a scan that will free it is in progress.
THEOREM BrokerIsBusyWithAScan == Spec => []BusyMeansScanning
<1>1. Inv => BusyMeansScanning
  BY DEF Inv
<1>. QED
  BY Invariance, <1>1, PTL

\* Findings of another deal's scan come from a scan on the same host, and if the
\* deal's own run made a directory, from one that overlapped it.
THEOREM StrangeFindingsAreExplained == Spec => []StrangeFindingsExplained
<1>1. ASSUME Inv PROVE StrangeFindingsExplained
  <2>. SUFFICES ASSUME NEW a \in Audits, found[a] \notin {None, a}
                PROVE  /\ HostOf(found[a]) = HostOf(a)
                       /\ a \in Range(dirs[HostOf(a)]) => found[a] \notin before[a]
    BY DEF StrangeFindingsExplained
  <2>1. found[a] \in Audits /\ found[a] = result[a]
    BY <1>1 DEF Inv, TypeOK, Directories
  <2>. QED
    BY <1>1, <2>1 DEF Inv, Directories
<1>. QED
  BY Invariance, <1>1, PTL

\* No findings of a run that its timer killed, or that never ran, are delivered
\* for the deal, whenever the process closes.
THEOREM FindingsAreOfFinishedRuns == Spec => []FindingsOfFinishedRuns
<1>1. ASSUME Inv PROVE FindingsOfFinishedRuns
  <2>. SUFFICES ASSUME NEW a \in Audits, found[a] # None
                PROVE  child[a] = "closed"
    BY DEF FindingsOfFinishedRuns
  <2>1. found[a] \in Audits /\ found[a] = result[a]
    BY <1>1 DEF Inv, TypeOK, Directories
  <2>. QED
    BY <1>1, <2>1 DEF Inv, Phases
<1>. QED
  BY Invariance, <1>1, PTL
=============================================================================
