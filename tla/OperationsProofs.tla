--------------------------- MODULE OperationsProofs ---------------------------
(***************************************************************************)
(* Runtimes, their provider and their hosts agree when requests are served *)
(* one at a time, and an import accounts for every row it was sent.        *)
(***************************************************************************)
EXTENDS ConversationsProofs, SchemaMigrationsProofs

-----------------------------------------------------------------------------
(* Runtimes.                                                                 *)

RtBusy(q) == rtReq[q].next # "idle"

\* What the steps of a request have filled in.
RtRequestsHold == \A q \in RuntimeRequests :
  /\ rtReq[q].next \in {"row", "rows", "configure"} =>
       rtReq[q].runtime \in Runtimes /\ rtReq[q].status \in Works
  /\ rtReq[q].next = "delete" => rtReq[q].host \in Hosts

\* Only boots place runtimes, and only those of the seed.
OnlySeededPlaced == \A r \in Runtimes : placed[r] => Seeded(r)

\* Unless requests were served at once, there is one of them at most, and what
\* it has read of the hosts is still so.
NotCrowded == ~crowded =>
  /\ \A q1, q2 \in RuntimeRequests : RtBusy(q1) /\ RtBusy(q2) => q1 = q2
  /\ \A r \in Runtimes : placed[r] => host[r] # Nothing
  /\ \A q \in RuntimeRequests :
       /\ rtReq[q].next = "configure" /\ placed[rtReq[q].runtime] => rtReq[q].host # Nothing
       /\ rtReq[q].next = "delete" => On(rtReq[q].host) = {}

\* Who was told by a control, alone, either still waits for its row or has it.
ToldAgrees == \A r \in told :
  \/ Controls(r) = {} /\ status[r] = provider[r]
  \/ \E q \in RuntimeRequests : Controls(r) = {q} /\ provider[r] = rtReq[q].status

RuntimesInv ==
  RuntimesTypeOK /\ RtRequestsHold /\ OnlySeededPlaced /\ NotCrowded /\ ToldAgrees

LEMMA CountsOfRuntimes ==
  ASSUME NEW S, S \subseteq Runtimes
  PROVE  Cardinality(S) \in 0..Cardinality(Runtimes)
<1>1. IsFiniteSet(Runtimes)
  BY RuntimeSets
<1>2. Cardinality(Runtimes) \in Nat /\ Cardinality(S) \in Nat /\ Cardinality(S) <= Cardinality(Runtimes)
  BY <1>1, FS_Subset, FS_CardinalityType
<1> QED BY <1>2

\* Two requests at once are a crowd.
LEMMA CrowdOfTwo ==
  ASSUME NEW requests, NEW q1 \in RuntimeRequests, NEW q2 \in RuntimeRequests, q1 # q2,
         requests[q1].next # "idle", requests[q2].next # "idle"
  PROVE  Cardinality({q \in RuntimeRequests : requests[q].next # "idle"}) > 1
<1> DEFINE busy == {q \in RuntimeRequests : requests[q].next # "idle"}
<1>1. IsFiniteSet(busy)
  BY RuntimeSets, FS_Subset
<1>2. q1 \in busy /\ q2 \in busy
  OBVIOUS
<1>3. Cardinality(busy) \in Nat /\ Cardinality(busy) # 0 /\ Cardinality(busy) # 1
  BY <1>1, <1>2, FS_CardinalityType, FS_EmptySet, FS_Singleton
<1> QED BY <1>3

LEMMA InitRuntimes == RuntimesInit /\ crowded = FALSE /\ told = {} => RuntimesInv
<1> SUFFICES ASSUME RuntimesInit, told = {} PROVE RuntimesInv
  OBVIOUS
<1> USE SeededRuntimesExist, RuntimeBounds, RuntimeSets DEF RuntimesInit, Seeded, Works
<1>1. Cardinality(SeededRuntimes) \in 0..Cardinality(Runtimes) /\ 0 \in 0..Cardinality(Runtimes)
  BY CountsOfRuntimes, FS_CardinalityType
<1>2. RuntimesTypeOK
  <2>1. IdleRt \in RtRequest
    BY DEF IdleRt, RtRequest
  <2>2. rtReq \in [RuntimeRequests -> RtRequest] /\ hostCount \in [Hosts -> 0..Cardinality(Runtimes)]
    BY <1>1, <2>1
  <2> QED BY <2>2 DEF RuntimesTypeOK
<1>3. \A q \in RuntimeRequests : rtReq[q].next = "idle"
  BY DEF IdleRt
<1>4. RtRequestsHold /\ OnlySeededPlaced /\ NotCrowded /\ ToldAgrees
  BY <1>3 DEF RtRequestsHold, OnlySeededPlaced, NotCrowded, ToldAgrees, RtBusy
<1> QED BY <1>2, <1>4 DEF RuntimesInv

\* The row of one request changes.
LEMMA RtRowChanges ==
  ASSUME RuntimesTypeOK, NEW q \in RuntimeRequests, NEW row \in RtRequest,
         rtReq' = [rtReq EXCEPT ![q] = row]
  PROVE  /\ rtReq'[q] = row /\ \A q1 \in RuntimeRequests : q1 # q => rtReq'[q1] = rtReq[q1]
         /\ rtReq' \in [RuntimeRequests -> RtRequest]
         /\ \A r \in Runtimes :
              Controls(r)' = IF row.next \in {"row", "rows"} /\ row.runtime = r
                             THEN Controls(r) \cup {q} ELSE Controls(r) \ {q}
<1>1. /\ rtReq'[q] = row /\ \A q1 \in RuntimeRequests : q1 # q => rtReq'[q1] = rtReq[q1]
      /\ rtReq' \in [RuntimeRequests -> RtRequest]
  BY DEF RuntimesTypeOK
<1>2. ASSUME NEW r \in Runtimes
      PROVE  Controls(r)' = IF row.next \in {"row", "rows"} /\ row.runtime = r
                            THEN Controls(r) \cup {q} ELSE Controls(r) \ {q}
  BY <1>1 DEF Controls
<1> QED BY <1>1, <1>2

LEMMA IdleRtTyped == IdleRt \in RtRequest /\ IdleRt.next = "idle"
BY DEF IdleRt, RtRequest

LEMMA RuntimesTypeKept ==
  ASSUME RuntimesTypeOK, RtRequestsHold, RuntimesNext
  PROVE  RuntimesTypeOK'
<1> USE RuntimeBounds, RuntimeSets, IdleRtTyped DEF RuntimesTypeOK, rowVars, hostVars
<1>1. ASSUME NEW q \in RuntimeRequests, CallProvider(q) PROVE RuntimesTypeOK'
  <2>1. PICK r \in Runtimes, work \in Works, columns \in {"row", "rows"} :
          /\ RtStart(q, [IdleRt EXCEPT !.next = columns, !.runtime = r, !.status = work])
          /\ SetProvider(r, work)
          /\ UNCHANGED <<rowVars, hostVars, runtimeRestarts>>
    BY <1>1 DEF CallProvider
  <2>2. [IdleRt EXCEPT !.next = columns, !.runtime = r, !.status = work] \in RtRequest
    BY DEF IdleRt, RtRequest
  <2>3. rtReq' \in [RuntimeRequests -> RtRequest] /\ runtimeCalls' \in 0..MaxRuntimeCalls
    BY <2>1, <2>2 DEF RtStart, RtServe
  <2>4. provider' \in [Runtimes -> Works \cup {"unknown"}]
    BY <2>1 DEF SetProvider
  <2> QED BY <2>1, <2>3, <2>4
<1>2. ASSUME NEW q \in RuntimeRequests, WriteRow(q) PROVE RuntimesTypeOK'
  <2>1. rtReq[q].runtime \in Runtimes /\ rtReq[q].status \in Works
    BY <1>2 DEF WriteRow, RtRequestsHold
  <2>2. rtReq' \in [RuntimeRequests -> RtRequest] /\ runtimeCalls' \in 0..MaxRuntimeCalls
        /\ runtimeRestarts' \in 0..MaxRuntimeRestarts
    BY <1>2 DEF WriteRow, RtEnd
  <2>3. /\ status' \in [Runtimes -> Works \cup {"not_provisioned"}]
        /\ desired' \in [Runtimes -> Works]
        /\ observed' \in [Runtimes -> Works \cup {"unknown"}]
    BY <1>2, <2>1 DEF WriteRow
  <2> QED BY <1>2, <2>2, <2>3 DEF WriteRow
<1>3. ASSUME NEW q \in RuntimeRequests, RowRefused(q) PROVE RuntimesTypeOK'
  BY <1>3 DEF RowRefused, RtEnd
<1>4. ASSUME NEW q \in RuntimeRequests, ReadConfiguration(q) PROVE RuntimesTypeOK'
  <2>1. PICK r \in Runtimes, h \in Hosts \cup {Nothing}, work \in Works \cup {Nothing} :
          /\ RtStart(q, [next |-> "configure", runtime |-> r,
                        host |-> IF h = Nothing THEN host[r] ELSE h,
                        status |-> IF work = Nothing THEN desired[r] ELSE work])
          /\ UNCHANGED <<rowVars, provider, hostVars, runtimeRestarts>>
    BY <1>4 DEF ReadConfiguration
  <2>2. [next |-> "configure", runtime |-> r, host |-> IF h = Nothing THEN host[r] ELSE h,
         status |-> IF work = Nothing THEN desired[r] ELSE work] \in RtRequest
    BY DEF RtRequest
  <2> QED BY <2>1, <2>2 DEF RtStart, RtServe
<1>5. ASSUME NEW q \in RuntimeRequests, WriteConfiguration(q) PROVE RuntimesTypeOK'
  <2>1. /\ rtReq[q].runtime \in Runtimes /\ rtReq[q].status \in Works
        /\ rtReq[q].host \in Hosts \cup {Nothing}
    BY <1>5 DEF WriteConfiguration, RtAt, RtRequestsHold, RtRequest
  <2>2. /\ desired' \in [Runtimes -> Works] /\ host' \in [Runtimes -> Hosts \cup {Nothing}]
        /\ \A r \in Runtimes : host'[r] # Nothing => hostStatus'[host'[r]] # "none"
    BY <1>5, <2>1 DEF WriteConfiguration
  <2> QED BY <1>5, <2>2 DEF WriteConfiguration, RtEnd
<1>6. ASSUME NEW q \in RuntimeRequests, CheckHost(q) PROVE RuntimesTypeOK'
  <2>1. PICK h \in Hosts : /\ RtStart(q, [IdleRt EXCEPT !.next = "delete", !.host = h])
                           /\ UNCHANGED <<rowVars, provider, hostVars, runtimeRestarts>>
    BY <1>6 DEF CheckHost
  <2>2. [IdleRt EXCEPT !.next = "delete", !.host = h] \in RtRequest
    BY DEF IdleRt, RtRequest
  <2> QED BY <2>1, <2>2 DEF RtStart, RtServe
<1>7. ASSUME NEW q \in RuntimeRequests, DeleteHost(q) PROVE RuntimesTypeOK'
  <2>1. rtReq[q].host \in Hosts
    BY <1>7 DEF DeleteHost, RtAt, RtRequestsHold
  <2>2. /\ hostStatus' \in [Hosts -> {"none", "online", "offline"}]
        /\ hostCount' \in [Hosts -> 0..Cardinality(Runtimes)]
        /\ host' \in [Runtimes -> Hosts \cup {Nothing}]
    <3>1. 0 \in 0..Cardinality(Runtimes)
      BY FS_CardinalityType
    <3> QED BY <1>7, <2>1, <3>1 DEF DeleteHost, Placement
  <2>3. \A r \in Runtimes : host'[r] # Nothing => hostStatus'[host'[r]] # "none"
    BY <1>7, <2>1 DEF DeleteHost, Placement
  <2> QED BY <1>7, <2>2, <2>3 DEF DeleteHost, RtEnd
<1>8. CASE Kill
  BY <1>8 DEF Kill, RtAtOnce, RtServe, Works
<1>9. CASE SetStatus
  BY <1>9 DEF SetStatus, RtAtOnce, RtServe
<1>10. CASE SaveHost
  BY <1>10 DEF SaveHost, RtAtOnce, RtServe
<1>11. CASE TestHost
  BY <1>11 DEF TestHost, RtAtOnce, RtServe
<1>12. CASE InventoryHost
  <2>1. \A h \in Hosts : Cardinality(On(h)) \in 0..Cardinality(Runtimes)
    BY CountsOfRuntimes DEF On
  <2> QED BY <1>12, <2>1 DEF InventoryHost, RtAtOnce, RtServe
<1>13. CASE RestartRuntimes
  <2>1. Cardinality({r \in Runtimes : Seeded(r) \/ host[r] = DemoHost}) \in 0..Cardinality(Runtimes)
    BY CountsOfRuntimes
  <2>2. /\ hostStatus' \in [Hosts -> {"none", "online", "offline"}]
        /\ hostCount' \in [Hosts -> 0..Cardinality(Runtimes)]
        /\ host' \in [Runtimes -> Hosts \cup {Nothing}] /\ placed' \in [Runtimes -> BOOLEAN]
        /\ \A r \in Runtimes : host'[r] # Nothing => hostStatus'[host'[r]] # "none"
    <3> HIDE DEF Seeded
    <3> QED BY <1>13, <2>1, SeededRuntimesExist DEF RestartRuntimes
  <2>3. /\ desired' \in [Runtimes -> Works] /\ observed' \in [Runtimes -> Works \cup {"unknown"}]
        /\ provider' \in [Runtimes -> Works \cup {"unknown"}]
    BY <1>13 DEF RestartRuntimes, Works
  <2> QED BY <1>13, <2>2, <2>3 DEF RestartRuntimes
<1> QED BY <1>1, <1>2, <1>3, <1>4, <1>5, <1>6, <1>7, <1>8, <1>9, <1>10, <1>11, <1>12, <1>13
        DEF RuntimesNext

\* What a step does to the requests for runtimes: nothing, or it serves one, or
\* it is a boot.
LEMMA RtStepServes ==
  ASSUME RuntimesTypeOK, RuntimesNext
  PROVE  \/ rtReq' = rtReq /\ ~RuntimesBooted /\ UNCHANGED <<host, placed, provider>>
         \/ ~RuntimesBooted /\ UNCHANGED placed /\ \E q \in RuntimeRequests :
              \/ ~RtBusy(q) /\ (CallProvider(q) \/ ReadConfiguration(q) \/ CheckHost(q))
              \/ RtBusy(q) /\ rtReq' = [rtReq EXCEPT ![q] = IdleRt]
                 /\ (WriteRow(q) \/ RowRefused(q) \/ WriteConfiguration(q) \/ DeleteHost(q))
         \/ RestartRuntimes /\ RuntimesBooted
<1> USE DEF RuntimesBooted, rowVars, hostVars
<1>1. CASE Kill \/ SetStatus \/ SaveHost \/ TestHost \/ InventoryHost
  BY <1>1 DEF Kill, SetStatus, SaveHost, TestHost, InventoryHost, RtAtOnce
<1>2. CASE RestartRuntimes
  BY <1>2 DEF RestartRuntimes, RuntimesTypeOK
<1>3. ASSUME NEW q \in RuntimeRequests, CallProvider(q) \/ ReadConfiguration(q) \/ CheckHost(q)
      PROVE  ~RtBusy(q) /\ ~RuntimesBooted /\ UNCHANGED placed
  BY <1>3 DEF CallProvider, ReadConfiguration, CheckHost, RtStart, RtAt, RtBusy
<1>4. ASSUME NEW q \in RuntimeRequests,
             WriteRow(q) \/ RowRefused(q) \/ WriteConfiguration(q) \/ DeleteHost(q)
      PROVE  /\ RtBusy(q) /\ ~RuntimesBooted /\ UNCHANGED placed
             /\ rtReq' = [rtReq EXCEPT ![q] = IdleRt]
  BY <1>4 DEF WriteRow, RowRefused, WriteConfiguration, DeleteHost, RtEnd, RtAt, RtBusy
<1> QED BY <1>1, <1>2, <1>3, <1>4 DEF RuntimesNext

LEMMA RtStartMoves ==
  ASSUME RuntimesTypeOK, NEW q \in RuntimeRequests,
         CallProvider(q) \/ ReadConfiguration(q) \/ CheckHost(q)
  PROVE  rtReq' # rtReq
<1>1. CASE CallProvider(q)
  <2>1. PICK request : RtStart(q, request) /\ request.next \in {"row", "rows"}
    <3>1. PICK r \in Runtimes, work \in Works, columns \in {"row", "rows"} :
            RtStart(q, [IdleRt EXCEPT !.next = columns, !.runtime = r, !.status = work])
      BY <1>1 DEF CallProvider
    <3>2. [IdleRt EXCEPT !.next = columns, !.runtime = r, !.status = work].next = columns
      BY DEF IdleRt
    <3> QED BY <3>1, <3>2
  <2> QED BY <2>1 DEF RtStart, RtAt, RuntimesTypeOK
<1>2. CASE ReadConfiguration(q)
  BY <1>2 DEF ReadConfiguration, RtStart, RtAt, RuntimesTypeOK
<1>3. CASE CheckHost(q)
  BY <1>3 DEF CheckHost, RtStart, RtAt, IdleRt, RuntimesTypeOK
<1> QED BY <1>1, <1>2, <1>3

LEMMA RtRequestsHoldKept ==
  ASSUME RuntimesTypeOK, RtRequestsHold, OnlySeededPlaced, RuntimesNext
  PROVE  RtRequestsHold' /\ OnlySeededPlaced'
<1> USE IdleRtTyped
<1>1. CASE rtReq' = rtReq /\ UNCHANGED placed
  BY <1>1 DEF RtRequestsHold, OnlySeededPlaced
<1>2. ASSUME NEW q \in RuntimeRequests, UNCHANGED placed,
             CallProvider(q) \/ ReadConfiguration(q) \/ CheckHost(q)
      PROVE  RtRequestsHold' /\ OnlySeededPlaced'
  <2>1. /\ \A q1 \in RuntimeRequests : q1 # q => rtReq'[q1] = rtReq[q1]
        /\ rtReq'[q].next \in {"row", "rows", "configure"} =>
             rtReq'[q].runtime \in Runtimes /\ rtReq'[q].status \in Works
        /\ rtReq'[q].next = "delete" => rtReq'[q].host \in Hosts
    <3>1. CASE CallProvider(q)
      BY <3>1 DEF CallProvider, RtStart, IdleRt, RuntimesTypeOK
    <3>2. CASE ReadConfiguration(q)
      BY <3>2 DEF ReadConfiguration, RtStart, RuntimesTypeOK
    <3>3. CASE CheckHost(q)
      BY <3>3 DEF CheckHost, RtStart, IdleRt, RuntimesTypeOK
    <3> QED BY <1>2, <3>1, <3>2, <3>3
  <2> QED BY <2>1, <1>2 DEF RtRequestsHold, OnlySeededPlaced
<1>3. ASSUME NEW q \in RuntimeRequests, UNCHANGED placed, rtReq' = [rtReq EXCEPT ![q] = IdleRt]
      PROVE  RtRequestsHold' /\ OnlySeededPlaced'
  BY <1>3, RtRowChanges DEF RtRequestsHold, OnlySeededPlaced
<1>4. CASE RestartRuntimes
  BY <1>4 DEF RestartRuntimes, RtRequestsHold, OnlySeededPlaced
<1> QED BY <1>1, <1>2, <1>3, <1>4, RtStepServes

LEMMA NotCrowdedKept ==
  ASSUME RuntimesInv, RuntimesNext, crowded' = (~RuntimesBooted /\ (crowded \/ Crowd'))
  PROVE  NotCrowded'
<1> USE IdleRtTyped DEF RuntimesInv
<1>0. /\ RuntimesTypeOK' /\ RtRequestsHold'
  BY RuntimesTypeKept, RtRequestsHoldKept
<1> SUFFICES ASSUME ~crowded'
             PROVE  /\ \A q1, q2 \in RuntimeRequests : RtBusy(q1)' /\ RtBusy(q2)' => q1 = q2
                    /\ \A r \in Runtimes : placed'[r] => host'[r] # Nothing
                    /\ \A q \in RuntimeRequests :
                         /\ rtReq'[q].next = "configure" /\ placed'[rtReq'[q].runtime] =>
                              rtReq'[q].host # Nothing
                         /\ rtReq'[q].next = "delete" => On(rtReq[q].host)' = {}
  BY DEF NotCrowded
<1>1. CASE RestartRuntimes /\ RuntimesBooted
  <2>1. \A q \in RuntimeRequests : rtReq'[q].next = "idle"
    BY <1>1 DEF RestartRuntimes
  <2>2. \A r \in Runtimes : placed'[r] => host'[r] # Nothing
    BY <1>1, SeededRuntimesExist, RuntimeSets DEF RestartRuntimes, OnlySeededPlaced
  <2> QED BY <2>1, <2>2 DEF RtBusy
<1>2. CASE ~RuntimesBooted
  <2>1. ~crowded /\ ~Crowd'
    BY <1>2
  <2>2. \A q1, q2 \in RuntimeRequests : RtBusy(q1)' /\ RtBusy(q2)' => q1 = q2
    <3>1. ASSUME NEW q1 \in RuntimeRequests, NEW q2 \in RuntimeRequests,
                 RtBusy(q1)', RtBusy(q2)', q1 # q2
          PROVE  Crowd'
      BY <3>1, CrowdOfTwo DEF Crowd, RtBusy
    <3> QED BY <3>1, <2>1
  <2>3. CASE rtReq' = rtReq /\ UNCHANGED <<host, placed>>
    BY <2>1, <2>2, <2>3 DEF NotCrowded, On
  <2>4. ASSUME NEW q \in RuntimeRequests, ~RtBusy(q), UNCHANGED placed,
               CallProvider(q) \/ ReadConfiguration(q) \/ CheckHost(q)
        PROVE  /\ \A r \in Runtimes : placed'[r] => host'[r] # Nothing
               /\ \A q1 \in RuntimeRequests :
                    /\ rtReq'[q1].next = "configure" /\ placed'[rtReq'[q1].runtime] =>
                         rtReq'[q1].host # Nothing
                    /\ rtReq'[q1].next = "delete" => On(rtReq[q1].host)' = {}
    <3>1. /\ \A q1 \in RuntimeRequests : q1 # q => rtReq'[q1] = rtReq[q1]
          /\ rtReq'[q].next = "configure" /\ placed[rtReq'[q].runtime] => rtReq'[q].host # Nothing
          /\ rtReq'[q].next = "delete" => On(rtReq'[q].host) = {}
          /\ UNCHANGED host
      <4>1. CASE CallProvider(q)
        BY <4>1 DEF CallProvider, RtStart, IdleRt, RuntimesTypeOK, rowVars
      <4>2. CASE ReadConfiguration(q)
        BY <4>2, <2>1, RuntimeSets DEF ReadConfiguration, RtStart, RuntimesTypeOK, rowVars, NotCrowded
      <4>3. CASE CheckHost(q)
        BY <4>3 DEF CheckHost, InUse, RtStart, IdleRt, RuntimesTypeOK, rowVars
      <4> QED BY <2>4, <4>1, <4>2, <4>3
    <3> QED BY <3>1, <2>1, <2>4 DEF NotCrowded, On
  <2>5. ASSUME NEW q \in RuntimeRequests, RtBusy(q), rtReq' = [rtReq EXCEPT ![q] = IdleRt],
               UNCHANGED placed,
               WriteRow(q) \/ RowRefused(q) \/ WriteConfiguration(q) \/ DeleteHost(q)
        PROVE  /\ \A r \in Runtimes : placed'[r] => host'[r] # Nothing
               /\ \A q1 \in RuntimeRequests : rtReq'[q1].next = "idle"
    <3>1. \A q1 \in RuntimeRequests : rtReq'[q1].next = "idle"
      BY <2>1, <2>5, RtRowChanges DEF NotCrowded, RtBusy
    <3>2. CASE WriteRow(q) \/ RowRefused(q)
      BY <2>1, <2>5, <3>1, <3>2 DEF WriteRow, RowRefused, rowVars, NotCrowded
    <3>3. CASE WriteConfiguration(q)
      <4>1. rtReq[q].next = "configure" /\ rtReq[q].runtime \in Runtimes
            /\ (placed[rtReq[q].runtime] => rtReq[q].host # Nothing)
        BY <2>1, <3>3 DEF WriteConfiguration, RtAt, NotCrowded, RtRequestsHold
      <4>2. \A r \in Runtimes : \/ host'[r] = host[r]
                                \/ r = rtReq[q].runtime /\ host'[r] = rtReq[q].host
        BY <3>3, <4>1 DEF WriteConfiguration, RuntimesTypeOK
      <4> QED BY <2>1, <2>5, <3>1, <4>1, <4>2 DEF NotCrowded
    <3>4. CASE DeleteHost(q)
      <4>1. On(rtReq[q].host) = {}
        BY <2>1, <3>4 DEF DeleteHost, RtAt, NotCrowded
      <4>2. \A r \in Runtimes : host'[r] = host[r]
        BY <3>4, <4>1 DEF DeleteHost, Placement, On
      <4> QED BY <2>1, <2>5, <3>1, <4>2 DEF NotCrowded
    <3> QED BY <2>5, <3>2, <3>3, <3>4
  <2> QED BY <1>2, <2>2, <2>3, <2>4, <2>5, RtStepServes
<1> QED BY <1>1, <1>2, RtStepServes

LEMMA ToldAgreesKept ==
  ASSUME RuntimesInv, RuntimesNext, told' = Told
  PROVE  ToldAgrees'
<1> USE IdleRtTyped DEF RuntimesInv
<1> SUFFICES ASSUME NEW r \in told'
             PROVE  \/ Controls(r)' = {} /\ status'[r] = provider'[r]
                    \/ \E q \in RuntimeRequests : Controls(r)' = {q} /\ provider'[r] = rtReq'[q].status
  BY DEF ToldAgrees
<1>1. /\ r \in Runtimes /\ ~RuntimesBooted /\ \A q \in Controls(r) : ~RowRefused(q)
      /\ Controls(r)' \ Controls(r) # {} => Controls(r) = {}
      /\ Controls(r)' \ Controls(r) = {} =>
           r \in told /\ (rtReq' = rtReq => status'[r] = status[r])
  BY DEF Told
<1>2. CASE rtReq' = rtReq
  <2>1. Controls(r)' = Controls(r) /\ r \in told /\ status'[r] = status[r]
    BY <1>1, <1>2 DEF Controls
  <2>2. CASE UNCHANGED provider
    BY <1>2, <2>1, <2>2 DEF ToldAgrees
  <2>3. ASSUME NEW q \in RuntimeRequests PROVE ~CallProvider(q) /\ ~ReadConfiguration(q) /\ ~CheckHost(q)
    BY <1>2, RtStartMoves
  <2>4. ASSUME NEW q \in RuntimeRequests, RtBusy(q) PROVE rtReq' # [rtReq EXCEPT ![q] = IdleRt]
    BY <1>2, <2>4, RtRowChanges DEF RtBusy
  <2> QED BY <1>1, <2>2, <2>3, <2>4, RtStepServes
<1>3. ASSUME NEW q \in RuntimeRequests, CallProvider(q), ~RtBusy(q)
      PROVE  \/ Controls(r)' = {} /\ status'[r] = provider'[r]
             \/ \E p \in RuntimeRequests : Controls(r)' = {p} /\ provider'[r] = rtReq'[p].status
  <2>1. PICK s \in Runtimes, work \in Works, columns \in {"row", "rows"}, row \in RtRequest :
          /\ row = [IdleRt EXCEPT !.next = columns, !.runtime = s, !.status = work]
          /\ rtReq' = [rtReq EXCEPT ![q] = row] /\ SetProvider(s, work) /\ UNCHANGED status
    BY <1>3 DEF CallProvider, RtStart, IdleRt, RtRequest, rowVars
  <2>2. row.next \in {"row", "rows"} /\ row.runtime = s /\ row.status = work
    BY <2>1 DEF IdleRt
  <2>3. q \notin Controls(r)
    BY <1>3 DEF Controls, RtBusy
  <2>4. rtReq'[q] = row /\ \A q1 \in RuntimeRequests : q1 # q => rtReq'[q1] = rtReq[q1]
    BY <2>1, RtRowChanges
  <2>5. CASE r = s
    <3>1. Controls(r)' = Controls(r) \cup {q}
      BY <2>2, <2>4, <2>5 DEF Controls
    <3>2. Controls(r)' = {q}
      BY <1>1, <2>3, <3>1
    <3>3. provider'[r] = work
      BY <1>1, <2>1, <2>5 DEF SetProvider, RuntimesTypeOK
    <3> QED BY <2>2, <2>4, <3>2, <3>3
  <2>6. CASE r # s
    <3>1. Controls(r)' = Controls(r) \ {q}
      BY <2>2, <2>4, <2>6 DEF Controls
    <3>2. Controls(r)' = Controls(r) /\ r \in told
      BY <1>1, <2>3, <3>1
    <3>3. provider'[r] = provider[r] /\ status'[r] = status[r]
      BY <1>1, <2>1, <2>6 DEF SetProvider, RuntimesTypeOK
    <3> QED BY <2>3, <2>4, <3>2, <3>3 DEF ToldAgrees
  <2> QED BY <2>5, <2>6
<1>4. ASSUME NEW q \in RuntimeRequests, ~RtBusy(q), ReadConfiguration(q) \/ CheckHost(q)
      PROVE  \/ Controls(r)' = {} /\ status'[r] = provider'[r]
             \/ \E p \in RuntimeRequests : Controls(r)' = {p} /\ provider'[r] = rtReq'[p].status
  <2>1. PICK row \in RtRequest : /\ rtReq' = [rtReq EXCEPT ![q] = row]
                                 /\ row.next \notin {"row", "rows"} /\ UNCHANGED <<status, provider>>
    <3>1. CASE ReadConfiguration(q)
      BY <3>1 DEF ReadConfiguration, RtStart, RtRequest, RuntimesTypeOK, rowVars
    <3>2. CASE CheckHost(q)
      BY <3>2 DEF CheckHost, RtStart, IdleRt, RtRequest, rowVars
    <3> QED BY <1>4, <3>1, <3>2
  <2>2. Controls(r)' = Controls(r) \ {q} /\ q \notin Controls(r)
    BY <1>1, <1>4, <2>1, RtRowChanges DEF Controls, RtBusy
  <2>3. Controls(r)' = Controls(r) /\ r \in told
    BY <1>1, <2>2
  <2>4. \A q1 \in RuntimeRequests : q1 # q => rtReq'[q1] = rtReq[q1]
    BY <2>1, RtRowChanges
  <2> QED BY <2>1, <2>2, <2>3, <2>4 DEF ToldAgrees
<1>5. ASSUME NEW q \in RuntimeRequests, RtBusy(q), rtReq' = [rtReq EXCEPT ![q] = IdleRt],
             WriteRow(q) \/ RowRefused(q) \/ WriteConfiguration(q) \/ DeleteHost(q)
      PROVE  \/ Controls(r)' = {} /\ status'[r] = provider'[r]
             \/ \E p \in RuntimeRequests : Controls(r)' = {p} /\ provider'[r] = rtReq'[p].status
  <2>0. rtReq'[q] = IdleRt /\ \A q1 \in RuntimeRequests : q1 # q => rtReq'[q1] = rtReq[q1]
    BY <1>5, RtRowChanges
  <2>1. /\ Controls(r)' = Controls(r) \ {q} /\ r \in told
        /\ \A q1 \in RuntimeRequests : q1 # q => rtReq'[q1] = rtReq[q1]
    <3>1. Controls(r)' = Controls(r) \ {q}
      BY <2>0 DEF Controls
    <3> QED BY <3>1, <2>0, <1>1
  <2>2. UNCHANGED provider
    BY <1>5 DEF WriteRow, RowRefused, WriteConfiguration, DeleteHost
  <2>3. CASE q \in Controls(r)
    <3>1. WriteRow(q) /\ rtReq[q].runtime = r
      BY <1>1, <1>5, <2>3 DEF Controls, WriteConfiguration, DeleteHost, RtAt
    <3>2. Controls(r) = {q} /\ provider[r] = rtReq[q].status
      BY <2>1, <2>3 DEF ToldAgrees
    <3>3. status'[r] = rtReq[q].status
      BY <1>1, <3>1 DEF WriteRow, RuntimesTypeOK
    <3>4. Controls(r)' = {}
      BY <2>1, <3>2
    <3> QED BY <2>2, <3>2, <3>3, <3>4
  <2>4. CASE q \notin Controls(r)
    <3>1. Controls(r)' = Controls(r)
      BY <2>1, <2>4
    <3>2. status'[r] = status[r]
      <4>1. CASE WriteRow(q)
        <5>1. q \in RuntimeRequests /\ rtReq[q].next \in {"row", "rows"} /\ rtReq[q].runtime # r
          BY <2>4, <4>1 DEF Controls, WriteRow
        <5> QED BY <4>1, <5>1, <1>1 DEF WriteRow, RuntimesTypeOK
      <4>2. CASE ~WriteRow(q)
        BY <1>5, <4>2 DEF RowRefused, WriteConfiguration, DeleteHost, rowVars
      <4> QED BY <4>1, <4>2
    <3> QED BY <2>1, <2>2, <2>4, <3>1, <3>2 DEF ToldAgrees, Controls
  <2> QED BY <2>3, <2>4
<1> QED BY <1>1, <1>2, <1>3, <1>4, <1>5, RtStepServes

LEMMA RuntimesStep ==
  ASSUME RuntimesInv, [MCNext]_<<operationsVars, history>>
  PROVE  RuntimesInv'
<1> USE DEF RuntimesInv
<1>1. CASE RuntimesNext /\ MCNext
  BY <1>1, RuntimesTypeKept, RtRequestsHoldKept, NotCrowdedKept, ToldAgreesKept DEF MCNext
<1>2. CASE MCNext /\ UNCHANGED runtimeVars
  <2>1. /\ UNCHANGED <<rowVars, provider, hostVars, rtReq, runtimeCalls, runtimeRestarts>>
        /\ crowded' = (crowded \/ Crowd') /\ told' = Told
    BY <1>2 DEF MCNext, runtimeVars, RuntimesBooted
  <2> USE DEF rowVars, hostVars
  <2>2. RuntimesTypeOK' /\ RtRequestsHold' /\ OnlySeededPlaced' /\ NotCrowded'
    BY <2>1 DEF RuntimesTypeOK, RtRequestsHold, OnlySeededPlaced, NotCrowded, RtBusy, On
  <2>3. \A r : Controls(r)' = Controls(r)
    BY <2>1 DEF Controls
  <2>4. told' \subseteq told
    BY <2>1, <2>3 DEF Told
  <2>5. ToldAgrees'
    BY <2>1, <2>3, <2>4 DEF ToldAgrees
  <2> QED BY <2>2, <2>5
<1>3. CASE UNCHANGED <<operationsVars, history>>
  <2>1. UNCHANGED <<rowVars, provider, hostVars, rtReq, runtimeCalls, runtimeRestarts, crowded, told>>
    BY <1>3 DEF operationsVars, history, runtimeVars
  <2> USE DEF rowVars, hostVars
  <2>2. \A r : Controls(r)' = Controls(r)
    BY <2>1 DEF Controls
  <2> QED BY <2>1, <2>2 DEF RuntimesTypeOK, RtRequestsHold, OnlySeededPlaced, NotCrowded, RtBusy, On,
                            ToldAgrees
<1> QED BY <1>1, <1>2, <1>3 DEF MCNext

LEMMA RuntimesInductive == MCSpec => []RuntimesInv
<1>1. MCInit => RuntimesInv
  BY InitRuntimes DEF MCInit
<1>2. RuntimesInv /\ [MCNext]_<<operationsVars, history>> => RuntimesInv'
  BY RuntimesStep
<1> QED BY <1>1, <1>2, PTL DEF MCSpec

\* When requests are served one at a time no placed runtime loses its host,
\* neither to an edit nor to the deletion of the host; and whoever alone was last
\* told to run or to stop is in its row what the provider takes it for, whatever
\* the kill switch or the lifecycle wrote before.  (runtimeControlV21,
\* runtimeAction, updateRuntimeDesiredConfigurationV033, deleteRuntimeHostV032)
THEOREM RuntimesAgree == MCSpec => []RuntimesAgreeInSequence
<1>1. RuntimesInv => RuntimesAgreeInSequence
  BY DEF RuntimesInv, NotCrowded, ToldAgrees, RuntimesAgreeInSequence, Told
<1> QED BY <1>1, RuntimesInductive, PTL

-----------------------------------------------------------------------------
(* Imports.                                                                  *)

\* What an import knows of its file: refused rows and duplicates are different
\* rows, every refused row is counted, and before it writes it has looked at every
\* row, unless there are too many.
ImportHolds(request) ==
  /\ request.bad \subseteq DOMAIN request.file /\ request.duplicates \subseteq DOMAIN request.file
  /\ request.bad \cap request.duplicates = {}
  /\ request.next = "check" => request.at <= Len(request.file)
  /\ request.next = "write" =>
       request.at = Len(request.file) + 1 \/ Len(request.file) > MaxItems
  /\ Cardinality(request.bad) <= request.errors /\ request.errors <= Cardinality(request.bad) + 1
  /\ Len(request.file) <= MaxItems => request.errors = Cardinality(request.bad)

\* The rows it has let pass have titles that the rows before lack, and so do the
\* items of its type in the base, if no search was refused.
Unseen(request) == \A i \in 1..request.at - 1 : i \notin request.bad \cup request.duplicates =>
  /\ ~request.missed =>
       \A item \in items : item.type = TypeOf(request.kind) => item.title # request.file[i]
  /\ \A j \in 1..i - 1 : j \notin request.bad => request.file[j] # request.file[i]

ImportsInv ==
  /\ ImportsTypeOK
  /\ IsFiniteSet(items) /\ \A item \in items : item.job <= Len(jobs)
  /\ IsFiniteSet(Importing) /\ Len(jobs) + Cardinality(Importing) <= imports
  /\ \A q \in Importing : ImportHolds(importReq[q])
  /\ \A q \in Importing \ stale : Unseen(importReq[q])
  /\ ImportAccountsForRows

LEMMA FileShape ==
  ASSUME NEW f \in Files
  PROVE  /\ Len(f) \in 0..MaxItems + 1 /\ DOMAIN f = 1..Len(f)
         /\ \A i \in 1..Len(f) : f[i] \in Titles \cup {Untitled}
         /\ 1..Len(f) \subseteq RowNumbers
         /\ IsFiniteSet(DOMAIN f) /\ Cardinality(DOMAIN f) = Len(f)
<1>1. PICK n \in 0..MaxItems + 1 : f \in [1..n -> Titles \cup {Untitled}]
  BY DEF Files
<1>2. n \in Nat /\ f \in Seq(Titles \cup {Untitled})
  BY <1>1, ImportBounds
<1>3. Len(f) = n
  BY <1>1, <1>2
<1>4. DOMAIN f = 1..n /\ 1..n \subseteq RowNumbers
  BY <1>1, ImportBounds DEF RowNumbers
<1>5. IsFiniteSet(1..n) /\ Cardinality(1..n) = n
  BY <1>2, FS_Interval
<1> QED BY <1>1, <1>3, <1>4, <1>5

\* Rows that are split into parts add up.
LEMMA PartsAddUp ==
  ASSUME NEW S, IsFiniteSet(S), NEW A, NEW B, A \subseteq S, B \subseteq S, A \cap B = {}
  PROVE  /\ IsFiniteSet(A) /\ IsFiniteSet(B) /\ IsFiniteSet(S \ (A \cup B))
         /\ Cardinality(A) \in Nat /\ Cardinality(B) \in Nat /\ Cardinality(S) \in Nat
         /\ Cardinality(S \ (A \cup B)) \in Nat
         /\ Cardinality(S) = Cardinality(A) + Cardinality(B) + Cardinality(S \ (A \cup B))
<1>1. IsFiniteSet(A) /\ IsFiniteSet(B) /\ IsFiniteSet(A \cup B) /\ A \cup B \subseteq S
  BY FS_Subset, FS_Union
<1>2. Cardinality(A \cup B) = Cardinality(A) + Cardinality(B)
  <2>1. Cardinality(A \cup B) = Cardinality(A) + Cardinality(B) - Cardinality(A \cap B)
    BY <1>1, FS_Union
  <2>2. Cardinality(A \cap B) = 0
    BY FS_EmptySet
  <2> QED BY <1>1, <2>1, <2>2, FS_CardinalityType
<1>3. Cardinality(S \ (A \cup B)) = Cardinality(S) - Cardinality(A \cup B)
  <2>1. Cardinality(S \ (A \cup B)) = Cardinality(S) - Cardinality(S \cap (A \cup B))
    BY FS_Difference
  <2>2. S \cap (A \cup B) = A \cup B
    BY <1>1
  <2> QED BY <2>1, <2>2
<1>4. IsFiniteSet(S \ (A \cup B))
  BY FS_Difference
<1>5. /\ Cardinality(A) \in Nat /\ Cardinality(B) \in Nat /\ Cardinality(S) \in Nat
      /\ Cardinality(S \ (A \cup B)) \in Nat
  BY <1>1, <1>4, FS_CardinalityType
<1> QED BY <1>1, <1>2, <1>3, <1>4, <1>5

\* There are at most as many images as elements.
LEMMA ImagesCounted ==
  ASSUME NEW S, IsFiniteSet(S), NEW f, NEW T,
         \A y \in T : \E x \in S : y = f[x]
  PROVE  IsFiniteSet(T) /\ Cardinality(T) <= Cardinality(S)
<1> DEFINE U == {f[x] : x \in S}
           g == [x \in S |-> f[x]]
<1>1. g \in [S -> U] /\ \A y \in U : \E x \in S : g[x] = y
  OBVIOUS
<1>2. g \in Surjection(S, U)
  BY <1>1 DEF Surjection
<1>3. IsFiniteSet(U) /\ Cardinality(U) <= Cardinality(S)
  BY <1>2, FS_Surjection
<1>4. T \subseteq U
  OBVIOUS
<1>5. IsFiniteSet(T) /\ Cardinality(T) <= Cardinality(U)
  BY <1>3, <1>4, FS_Subset
<1> QED BY <1>3, <1>5, FS_CardinalityType

LEMMA InitImports == ImportsInit => ImportsInv
<1> SUFFICES ASSUME ImportsInit PROVE ImportsInv
  OBVIOUS
<1> USE ImportBounds DEF ImportsInit
<1>1. Importing = {} /\ IsFiniteSet({}) /\ Cardinality({}) = 0
  BY FS_EmptySet DEF Importing, IdleImport
<1>2. ImportsTypeOK
  <2>1. <<>> \in Files
    <3>1. <<>> \in [1..0 -> Titles \cup {Untitled}] /\ 0 \in 0..MaxItems + 1
      OBVIOUS
    <3> QED BY <3>1 DEF Files
  <2>2. IdleImport \in ImportRequest
    BY <2>1 DEF IdleImport, ImportRequest, Kinds
  <2>3. jobs \in Seq(Job) /\ Len(jobs) = 0
    OBVIOUS
  <2> QED BY <2>2, <2>3 DEF ImportsTypeOK
<1>3. ImportAccountsForRows
  BY DEF ImportAccountsForRows
<1> QED BY <1>1, <1>2, <1>3 DEF ImportsInv

LEMMA ImportRowChanges ==
  ASSUME ImportsTypeOK, NEW q \in ImportRequests, NEW row \in ImportRequest,
         importReq' = [importReq EXCEPT ![q] = row]
  PROVE  /\ importReq'[q] = row
         /\ \A p \in ImportRequests : p # q => importReq'[p] = importReq[p]
         /\ importReq' \in [ImportRequests -> ImportRequest]
         /\ Importing' = IF row.next = "idle" THEN Importing \ {q} ELSE Importing \cup {q}
<1>1. /\ importReq'[q] = row
      /\ \A p \in ImportRequests : p # q => importReq'[p] = importReq[p]
      /\ importReq' \in [ImportRequests -> ImportRequest]
  BY DEF ImportsTypeOK
<1>2. Importing' = IF row.next = "idle" THEN Importing \ {q} ELSE Importing \cup {q}
  BY <1>1 DEF Importing
<1> QED BY <1>1, <1>2

LEMMA IdleImportTyped == IdleImport \in ImportRequest /\ IdleImport.next = "idle"
<1>1. <<>> \in [1..0 -> Titles \cup {Untitled}] /\ 0 \in 0..MaxItems + 1
  BY ImportBounds
<1>2. <<>> \in Files
  BY <1>1 DEF Files
<1> QED BY <1>2, ImportBounds DEF IdleImport, ImportRequest, Kinds

\* Steps that write no job leave the jobs accounted for.
LEMMA AccountsKept ==
  ASSUME ImportsInv, items' \subseteq items, UNCHANGED jobs, crossed' = Crossed
  PROVE  ImportAccountsForRows' /\ IsFiniteSet(items')
<1> USE DEF ImportsInv
<1>1. crossed \subseteq crossed'
  BY DEF Crossed
<1>2. IsFiniteSet(items')
  BY FS_Subset
<1>3. ASSUME NEW j \in DOMAIN jobs
      PROVE  LET added == {x \in items' : x.job = j}
             IN /\ jobs[j].rows <= MaxItems =>
                     jobs[j].success + jobs[j].failed + jobs[j].duplicates = jobs[j].rows
                /\ Cardinality({x \in added : x.versioned}) <= jobs[j].success
                /\ Cardinality({x \in added : ~x.versioned}) <= jobs[j].failed
                /\ jobs[j].status = "completed" => jobs[j].success = jobs[j].rows
  <2> DEFINE with == {x \in {y \in items : y.job = j} : x.versioned}
             without == {x \in {y \in items : y.job = j} : ~x.versioned}
             with2 == {x \in {y \in items' : y.job = j} : x.versioned}
             without2 == {x \in {y \in items' : y.job = j} : ~x.versioned}
  <2>1. /\ IsFiniteSet(with) /\ IsFiniteSet(without)
        /\ with2 \subseteq with /\ without2 \subseteq without
    BY FS_Subset
  <2>2. /\ Cardinality(with2) <= Cardinality(with) /\ Cardinality(without2) <= Cardinality(without)
        /\ Cardinality(with2) \in Nat /\ Cardinality(with) \in Nat
        /\ Cardinality(without2) \in Nat /\ Cardinality(without) \in Nat
    BY <2>1, FS_Subset, FS_CardinalityType
  <2>3. jobs[j] \in Job
    BY DEF ImportsTypeOK
  <2>4. jobs[j].success \in Int /\ jobs[j].failed \in Int
    BY <2>3 DEF Job
  <2>5. /\ jobs[j].rows <= MaxItems =>
             jobs[j].success + jobs[j].failed + jobs[j].duplicates = jobs[j].rows
        /\ Cardinality(with) <= jobs[j].success /\ Cardinality(without) <= jobs[j].failed
        /\ jobs[j].status = "completed" => jobs[j].success = jobs[j].rows
    BY DEF ImportAccountsForRows
  <2> HIDE DEF with, without
  <2> QED BY <2>2, <2>4, <2>5
<1>4. \A x, y \in items' : x # y /\ x.type = y.type /\ x.title = y.title =>
        \E item \in {x, y} : item.job \in crossed' \/ jobs[item.job].rows > MaxItems
  BY <1>1 DEF ImportAccountsForRows
<1> QED BY <1>2, <1>3, <1>4 DEF ImportAccountsForRows

\* Imports that are at work count to those that were started.
LEMMA StartedCounted ==
  ASSUME ImportsInv
  PROVE  /\ Cardinality(Importing) \in Nat /\ Len(jobs) \in Nat /\ imports \in Nat
         /\ DOMAIN jobs = 1..Len(jobs)
         /\ \A q \in ImportRequests :
              /\ IsFiniteSet(Importing \cup {q}) /\ IsFiniteSet(Importing \ {q})
              /\ Cardinality(Importing \cup {q}) =
                   IF q \in Importing THEN Cardinality(Importing) ELSE Cardinality(Importing) + 1
              /\ Cardinality(Importing \ {q}) =
                   IF q \in Importing THEN Cardinality(Importing) - 1 ELSE Cardinality(Importing)
<1>1. Cardinality(Importing) \in Nat /\ Len(jobs) \in Nat /\ imports \in Nat /\ DOMAIN jobs = 1..Len(jobs)
  BY FS_CardinalityType, ImportBounds DEF ImportsInv, ImportsTypeOK
<1>2. ASSUME NEW q \in ImportRequests
      PROVE  /\ IsFiniteSet(Importing \cup {q}) /\ IsFiniteSet(Importing \ {q})
             /\ Cardinality(Importing \cup {q}) =
                  IF q \in Importing THEN Cardinality(Importing) ELSE Cardinality(Importing) + 1
             /\ Cardinality(Importing \ {q}) =
                  IF q \in Importing THEN Cardinality(Importing) - 1 ELSE Cardinality(Importing)
  BY FS_AddElement, FS_RemoveElement DEF ImportsInv
<1> QED BY <1>1, <1>2

\* Refused rows are rows, and when there are too many none is refused.
LEMMA RefusedShape ==
  ASSUME NEW f \in Files, NEW kind \in Kinds
  PROVE  /\ Refused(kind, f) \subseteq DOMAIN f
         /\ Cardinality(Refused(kind, f)) \in Nat /\ Cardinality(Refused(kind, f)) <= Len(f)
         /\ TooMany(kind, f) =>
              Len(f) = MaxItems + 1 /\ Cardinality(Refused(kind, f)) = 0 /\ kind # "rows"
<1>1. /\ Len(f) \in Nat /\ Len(f) <= MaxItems + 1
      /\ IsFiniteSet(DOMAIN f) /\ Cardinality(DOMAIN f) = Len(f)
  BY FileShape, ImportBounds
<1>2. Refused(kind, f) \subseteq DOMAIN f /\ Untitleds(f) \subseteq DOMAIN f
  BY DEF Refused, Untitleds
<1>3. /\ Cardinality(Refused(kind, f)) \in Nat /\ Cardinality(Refused(kind, f)) <= Len(f)
      /\ Cardinality(Untitleds(f)) \in Nat
  BY <1>1, <1>2, FS_Subset, FS_CardinalityType
<1> PICK n, m : n = Len(f) /\ m = Cardinality(Untitleds(f))
  OBVIOUS
<1>4. CASE kind = "markdown"
  <2>1. TooMany(kind, f) => Refused(kind, f) = {} /\ n > MaxItems
    BY <1>4 DEF TooMany, Refused
  <2>2. n > MaxItems => n = MaxItems + 1
    BY <1>1, ImportBounds
  <2> QED BY <2>1, <2>2, <1>2, <1>3, <1>4, FS_EmptySet
<1>5. CASE kind = "csv"
  <2>1. Refused(kind, f) = Untitleds(f) /\ (TooMany(kind, f) => n - m > MaxItems)
    BY <1>5 DEF TooMany, Refused
  <2>2. n - m > MaxItems => n = MaxItems + 1 /\ m = 0
    BY <1>1, <1>3, ImportBounds
  <2> QED BY <2>1, <2>2, <1>2, <1>3, <1>5
<1>6. CASE kind = "rows"
  BY <1>2, <1>3, <1>6 DEF TooMany
<1> QED BY <1>4, <1>5, <1>6 DEF Kinds

LEMMA EmptyFile == ASSUME NEW f \in Files PROVE f = <<>> <=> Len(f) = 0
<1>1. PICK n \in 0..MaxItems + 1 : f \in [1..n -> Titles \cup {Untitled}]
  BY DEF Files
<1>2. f \in Seq(Titles \cup {Untitled})
  BY <1>1, ImportBounds
<1> QED BY <1>2

LEMMA StartImportKeeps ==
  ASSUME ImportsInv, NEW q \in ImportRequests, StartImport(q), stale' = Stale, crossed' = Crossed
  PROVE  ImportsInv'
<1> USE DEF ImportsInv
<1>1. PICK kind, f, next, errors, refused :
        /\ kind \in Kinds /\ f \in Files
        /\ ImportAt(q, "idle") /\ imports < MaxImports /\ imports' = imports + 1
        /\ refused = Refused(kind, f)
        /\ errors = Cardinality(refused) + (IF TooMany(kind, f) THEN 1 ELSE 0)
        /\ next = (IF f = <<>> \/ (kind = "markdown" /\ TooMany(kind, f)) THEN "write" ELSE "check")
        /\ importReq' = [importReq EXCEPT ![q] =
             [next |-> next, kind |-> kind, file |-> f, at |-> 1, bad |-> refused,
              duplicates |-> {}, missed |-> FALSE, errors |-> errors]]
        /\ UNCHANGED <<items, jobs>>
  BY DEF StartImport
<1>0. kind \in Kinds /\ f \in Files
  BY <1>1
<1> PICK n, c : n = Len(f) /\ c = Cardinality(refused)
  OBVIOUS
<1>2. n \in Nat /\ n <= MaxItems + 1 /\ DOMAIN f = 1..n /\ 1..n \subseteq RowNumbers
  BY <1>0, FileShape, ImportBounds
<1>3. /\ refused \subseteq DOMAIN f /\ c \in Nat /\ c <= n
      /\ TooMany(kind, f) => n = MaxItems + 1 /\ c = 0
  BY <1>0, <1>1, RefusedShape
<1>4. (errors = c + 1 /\ n = MaxItems + 1 /\ c = 0) \/ errors = c
  BY <1>1, <1>3
<1>5. errors \in 0..MaxItems + 1 /\ c <= errors /\ errors <= c + 1 /\ (n <= MaxItems => errors = c)
  BY <1>2, <1>3, <1>4, ImportBounds
<1>6. next \in {"write", "check"}
      /\ (next = "check" => 1 <= n) /\ (next = "write" => 1 = n + 1 \/ n > MaxItems)
  BY <1>1, <1>2, <1>3, <1>0, EmptyFile, ImportBounds
<1> PICK row : row = [next |-> next, kind |-> kind, file |-> f, at |-> 1, bad |-> refused,
                      duplicates |-> {}, missed |-> FALSE, errors |-> errors]
  OBVIOUS
<1>7. row \in ImportRequest
  <2>1. refused \in SUBSET RowNumbers /\ 1 \in 1..MaxItems + 2 /\ {} \in SUBSET RowNumbers
    BY <1>2, <1>3, ImportBounds
  <2> QED BY <2>1, <1>0, <1>5, <1>6 DEF ImportRequest
<1>8. importReq' = [importReq EXCEPT ![q] = row]
  BY <1>1
<1>9. /\ row.next = next /\ row.file = f /\ row.at = 1 /\ row.errors = errors
      /\ row.bad = refused /\ row.duplicates = {}
  OBVIOUS
<1>10. /\ importReq'[q] = row /\ \A p \in ImportRequests : p # q => importReq'[p] = importReq[p]
       /\ importReq' \in [ImportRequests -> ImportRequest]
       /\ Importing' = Importing \cup {q} /\ q \notin Importing
  <2>1. q \notin Importing /\ row.next # "idle"
    BY <1>1, <1>6, <1>9 DEF ImportAt, Importing
  <2> QED BY <2>1, <1>7, <1>8, ImportRowChanges
<1>11. ImportHolds(row)
  BY <1>2, <1>3, <1>5, <1>6, <1>9 DEF ImportHolds
<1>12. stale' = stale
  <2>1. Written = {} /\ Writers = {}
    BY <1>1, <1>6, <1>9, <1>10 DEF Written, Writers
  <2> QED BY <2>1 DEF Stale
<1>13. ImportsTypeOK' /\ IsFiniteSet(Importing') /\ Len(jobs') + Cardinality(Importing') <= imports'
  <2>1. /\ IsFiniteSet(Importing') /\ Cardinality(Importing') = Cardinality(Importing) + 1
        /\ Cardinality(Importing) \in Nat /\ Len(jobs) \in Nat /\ imports \in Nat
    BY <1>10, StartedCounted
  <2>2. Len(jobs') + Cardinality(Importing') <= imports' /\ imports' \in 0..MaxImports
    BY <2>1, <1>1, ImportBounds
  <2> QED BY <2>1, <2>2, <1>1, <1>10 DEF ImportsTypeOK
<1>14. \A p \in Importing' : ImportHolds(importReq'[p])
  BY <1>10, <1>11 DEF Importing
<1>15. \A p \in (Importing \ stale)' : Unseen(importReq[p])'
  <2> SUFFICES ASSUME NEW p \in Importing', p \notin stale, NEW r, r = importReq'[p]
               PROVE  \A i \in 1..r.at - 1 : i \notin r.bad \cup r.duplicates =>
                        /\ ~r.missed => \A item \in items :
                             item.type = TypeOf(r.kind) => item.title # r.file[i]
                        /\ \A j \in 1..i - 1 : j \notin r.bad => r.file[j] # r.file[i]
    BY <1>1, <1>12 DEF Unseen
  <2>1. CASE p = q
    BY <2>1, <1>9, <1>10
  <2>2. CASE p # q
    <3>1. p \in Importing /\ r = importReq[p]
      BY <2>2, <1>10 DEF Importing
    <3> QED BY <3>1, <1>12 DEF Unseen
  <2> QED BY <2>1, <2>2
<1> QED BY <1>1, <1>13, <1>14, <1>15, AccountsKept

LEMMA CheckedTyped ==
  ASSUME NEW r \in ImportRequest, NEW d \in SUBSET RowNumbers, NEW m \in BOOLEAN,
         NEW a \in 1..MaxItems + 2, NEW next \in {"idle", "check", "write"}
  PROVE  [r EXCEPT !.duplicates = d, !.missed = m, !.at = a, !.next = next] \in ImportRequest
BY DEF ImportRequest

LEMMA CheckRowKeeps ==
  ASSUME ImportsInv, NEW q \in ImportRequests, CheckRow(q), stale' = Stale, crossed' = Crossed
  PROVE  ImportsInv'
<1> USE DEF ImportsInv
<1> PICK request, n, i : request = importReq[q] /\ n = Len(request.file) /\ i = request.at
  OBVIOUS
<1>1. /\ request \in ImportRequest /\ request.next = "check" /\ q \in Importing
      /\ ImportHolds(request) /\ UNCHANGED <<items, jobs, imports>>
  BY DEF CheckRow, ImportAt, Importing, ImportsTypeOK
<1>2. /\ n \in Nat /\ n <= MaxItems + 1 /\ DOMAIN request.file = 1..n /\ i \in 1..n
      /\ 1..n \subseteq RowNumbers
  <2>1. request.file \in Files /\ i \in 1..MaxItems + 2
    BY <1>1 DEF ImportRequest
  <2> QED BY <2>1, <1>1, FileShape, ImportBounds DEF ImportHolds
<1>3. PICK refused \in BOOLEAN :
        LET searched == i \notin request.bad /\ Earlier(request) = {}
            missed == refused /\ searched /\ SameTitle(request)
            duplicate == i \notin request.bad /\ (searched => SameTitle(request) /\ ~refused)
        IN importReq' = [importReq EXCEPT ![q] =
             [request EXCEPT !.duplicates =
                               IF duplicate THEN request.duplicates \cup {i} ELSE request.duplicates,
                             !.missed = request.missed \/ missed, !.at = i + 1,
                             !.next = IF i = n THEN "write" ELSE "check"]]
  BY DEF CheckRow
<1> PICK searched, duplicate, duplicates, missed, next :
      /\ searched = (i \notin request.bad /\ Earlier(request) = {})
      /\ duplicate = (i \notin request.bad /\ (searched => SameTitle(request) /\ ~refused))
      /\ missed = (request.missed \/ (refused /\ searched /\ SameTitle(request)))
      /\ duplicates = (IF duplicate THEN request.duplicates \cup {i} ELSE request.duplicates)
      /\ next = (IF i = n THEN "write" ELSE "check")
  OBVIOUS
<1>13. importReq' = [importReq EXCEPT ![q] =
         [request EXCEPT !.duplicates = duplicates, !.missed = missed, !.at = i + 1, !.next = next]]
  BY <1>3
<1> PICK row : row = [request EXCEPT !.duplicates = duplicates, !.missed = missed,
                                     !.at = i + 1, !.next = next]
  OBVIOUS
<1>4. /\ row.file = request.file /\ row.bad = request.bad /\ row.errors = request.errors
      /\ row.duplicates = duplicates /\ row.at = i + 1 /\ row.next = next
      /\ row.missed = missed /\ row.kind = request.kind
  BY <1>1 DEF ImportRequest
<1>5. duplicates \subseteq DOMAIN request.file /\ request.bad \cap duplicates = {}
  BY <1>1, <1>2 DEF ImportHolds
<1>6. row \in ImportRequest
  <2>0. duplicates \in SUBSET RowNumbers
    BY <1>2, <1>5
  <2>1. i + 1 \in 1..MaxItems + 2
    BY <1>2, ImportBounds
  <2>2. next \in {"idle", "check", "write"} /\ missed \in BOOLEAN
    BY <1>1 DEF ImportRequest
  <2>3. request \in ImportRequest
    BY <1>1
  <2>4. [request EXCEPT !.duplicates = duplicates, !.missed = missed, !.at = i + 1, !.next = next]
          \in ImportRequest
    BY ONLY <2>0, <2>1, <2>2, <2>3, CheckedTyped, Zenon
  <2> QED BY <2>4
<1>7. /\ importReq'[q] = row /\ \A p \in ImportRequests : p # q => importReq'[p] = importReq[p]
      /\ importReq' \in [ImportRequests -> ImportRequest]
      /\ Importing' = Importing
  <2>1. row.next # "idle" /\ importReq' = [importReq EXCEPT ![q] = row]
    BY <1>13, <1>4
  <2>2. Importing \cup {q} = Importing
    BY <1>1
  <2> QED BY <2>1, <2>2, <1>6, ImportRowChanges
<1>8. ImportHolds(row)
  <2>1. /\ row.next = "check" => row.at <= n
        /\ row.next = "write" => row.at = n + 1
    BY <1>2, <1>4
  <2>2. /\ Cardinality(row.bad) <= row.errors /\ row.errors <= Cardinality(row.bad) + 1
        /\ Len(row.file) <= MaxItems => row.errors = Cardinality(row.bad)
    BY <1>1, <1>4 DEF ImportHolds
  <2> QED BY <2>1, <2>2, <1>1, <1>4, <1>5 DEF ImportHolds
<1>9. stale' = stale
  <2>1. Written = {} /\ Writers = {}
    <3>1. row.next # "idle"
      BY <1>4
    <3>2. \A p \in ImportRequests : importReq'[p].next = "idle" => importReq[p].next = "idle"
      BY <3>1, <1>7
    <3> QED BY <3>2, <1>1 DEF Written, Writers
  <2> QED BY <2>1 DEF Stale
<1>10. ImportsTypeOK' /\ IsFiniteSet(Importing') /\ Len(jobs') + Cardinality(Importing') <= imports'
  BY <1>1, <1>7 DEF ImportsTypeOK
<1>11. \A p \in Importing' : ImportHolds(importReq'[p])
  BY <1>7, <1>8 DEF Importing
<1>12. \A p \in (Importing \ stale)' : Unseen(importReq[p])'
  <2> SUFFICES ASSUME NEW p \in Importing', p \notin stale, NEW r, r = importReq'[p],
                      NEW k \in 1..r.at - 1, k \notin r.bad \cup r.duplicates
               PROVE  /\ ~r.missed => \A item \in items :
                           item.type = TypeOf(r.kind) => item.title # r.file[k]
                      /\ \A j \in 1..k - 1 : j \notin r.bad => r.file[j] # r.file[k]
    BY <1>1, <1>9 DEF Unseen
  <2>1. CASE p = q
    <3>1. r = row /\ k \in 1..i /\ k \notin request.bad /\ k \notin duplicates
      BY <2>1, <1>2, <1>4, <1>7
    <3>2. CASE k = i
      <4>1. ~duplicate
        BY <3>1, <3>2
      <4>2. Earlier(request) = {} /\ (~missed => ~SameTitle(request))
        BY <3>1, <3>2, <4>1
      <4>5. ~missed => \A item \in items :
              item.type = TypeOf(request.kind) => item.title # request.file[i]
        BY <4>2 DEF SameTitle
      <4>3. \A j \in 1..i - 1 : j \notin request.bad => request.file[j] # request.file[i]
        BY <4>2 DEF Earlier
      <4> QED BY <3>1, <3>2, <4>3, <4>5, <1>4
    <3>3. CASE k # i
      <4>1. k \in 1..i - 1 /\ k \notin request.bad \cup request.duplicates
        BY <3>1, <3>3, <1>2
      <4>2. Unseen(request)
        BY <2>1, <1>1, <1>9
      <4>3. ~missed => ~request.missed
        OBVIOUS
      <4> QED BY <3>1, <4>1, <4>2, <4>3, <1>4 DEF Unseen
    <3> QED BY <3>2, <3>3
  <2>2. CASE p # q
    <3>1. p \in Importing \ stale /\ r = importReq[p]
      BY <2>2, <1>7, <1>9 DEF Importing
    <3> QED BY <3>1 DEF Unseen
  <2> QED BY <2>1, <2>2
<1> QED BY <1>1, <1>10, <1>11, <1>12, AccountsKept

LEMMA ImportFailsKeeps ==
  ASSUME ImportsInv, NEW q \in ImportRequests, ImportFails(q), stale' = Stale, crossed' = Crossed
  PROVE  ImportsInv'
<1> USE DEF ImportsInv
<1>1. UNCHANGED <<items, jobs, imports>> /\ q \in Importing
  BY DEF ImportFails, Importing
<1>2. /\ importReq'[q] = IdleImport
      /\ \A p \in ImportRequests : p # q => importReq'[p] = importReq[p]
      /\ importReq' \in [ImportRequests -> ImportRequest] /\ Importing' = Importing \ {q}
  BY ImportRowChanges, IdleImportTyped DEF ImportFails
<1>3. stale \subseteq stale' \cup {q}
  <2>1. Written = {} /\ Writers \subseteq {q}
    BY <1>1, <1>2 DEF Written, Writers
  <2> QED BY <2>1 DEF Stale
<1>4. ImportsTypeOK' /\ IsFiniteSet(Importing') /\ Len(jobs') + Cardinality(Importing') <= imports'
  <2>1. /\ IsFiniteSet(Importing') /\ Cardinality(Importing') = Cardinality(Importing) - 1
        /\ Cardinality(Importing) \in Nat /\ Len(jobs) \in Nat /\ imports \in Nat
    BY <1>1, <1>2, StartedCounted
  <2> QED BY <2>1, <1>1, <1>2 DEF ImportsTypeOK
<1>5. \A p \in Importing' : p \in Importing /\ importReq'[p] = importReq[p]
  BY <1>2 DEF Importing
<1>6. \A p \in Importing' : ImportHolds(importReq'[p])
  BY <1>5
<1>7. \A p \in (Importing \ stale)' : Unseen(importReq[p])'
  <2> SUFFICES ASSUME NEW p \in Importing', p \notin stale', NEW r, r = importReq'[p]
               PROVE  \A i \in 1..r.at - 1 : i \notin r.bad \cup r.duplicates =>
                        /\ ~r.missed => \A item \in items :
                             item.type = TypeOf(r.kind) => item.title # r.file[i]
                        /\ \A j \in 1..i - 1 : j \notin r.bad => r.file[j] # r.file[i]
    BY <1>1 DEF Unseen
  <2>1. p \in Importing \ stale /\ r = importReq[p]
    BY <1>2, <1>3, <1>5
  <2> QED BY <2>1 DEF Unseen
<1> QED BY <1>1, <1>4, <1>6, <1>7, AccountsKept

LEMMA DeleteItemKeeps ==
  ASSUME ImportsInv, DeleteItem, stale' = Stale, crossed' = Crossed
  PROVE  ImportsInv'
<1> USE DEF ImportsInv
<1>1. items' \subseteq items /\ UNCHANGED <<jobs, importReq, imports>>
  BY DEF DeleteItem
<1>2. stale' = stale /\ Importing' = Importing
  BY <1>1 DEF Stale, Written, Writers, Importing
<1>3. \A p \in (Importing \ stale)' : Unseen(importReq[p])'
  BY <1>1, <1>2 DEF Unseen
<1> QED BY <1>1, <1>2, <1>3, AccountsKept DEF ImportsTypeOK

LEMMA OtherPartKeepsImports ==
  ASSUME ImportsInv, UNCHANGED importVars,
         (stale' = Stale /\ crossed' = Crossed) \/ UNCHANGED <<stale, crossed>>
  PROVE  ImportsInv'
<1> USE DEF ImportsInv
<1>1. UNCHANGED <<items, jobs, importReq, imports>>
  BY DEF importVars
<1>2. Importing' = Importing /\ stale' = stale /\ crossed' = Crossed
  BY <1>1 DEF Importing, Stale, Crossed, Written, Writers
<1>3. ImportsTypeOK' /\ ImportAccountsForRows'
  BY <1>1, <1>2, AccountsKept DEF ImportsTypeOK
<1>4. \A p \in (Importing \ stale)' : Unseen(importReq[p])'
  BY <1>1, <1>2 DEF Unseen
<1> QED BY <1>1, <1>2, <1>3, <1>4

\* The rows it tries to insert.
Wanted(request) == DOMAIN request.file \ (request.bad \cup request.duplicates)

\* What a job that is written counts: every row once, as an item with its version,
\* as a duplicate or as a failure; an item without its version is a failure too.
LEMMA WrittenCounts ==
  ASSUME NEW request \in ImportRequest, ImportHolds(request),
         NEW refused \in SUBSET Wanted(request), NEW orphans \in SUBSET Wanted(request),
         refused \cap orphans = {}
  PROVE  LET wanted == Wanted(request)
             n == Len(request.file)
             success == Cardinality((wanted \ refused) \ orphans)
             failed == request.errors + Cardinality(refused) + Cardinality(orphans)
             duplicates == Cardinality(request.duplicates)
         IN
         /\ n \in 0..MaxItems + 1 /\ success \in 0..MaxItems + 1 /\ failed \in 0..MaxItems + 2
         /\ duplicates \in 0..MaxItems + 1
         /\ n <= MaxItems => success + failed + duplicates = n
         /\ failed = 0 /\ duplicates = 0 => success = n
         /\ IsFiniteSet((wanted \ refused) \ orphans) /\ IsFiniteSet(orphans)
         /\ Cardinality(orphans) <= failed
<1> PICK wanted, n, success, failed, duplicates :
      /\ wanted = Wanted(request) /\ n = Len(request.file)
      /\ success = Cardinality((wanted \ refused) \ orphans)
      /\ failed = request.errors + Cardinality(refused) + Cardinality(orphans)
      /\ duplicates = Cardinality(request.duplicates)
  OBVIOUS
<1>1. request.file \in Files /\ request.errors \in 0..MaxItems + 1
  BY DEF ImportRequest
<1>2. n \in Nat /\ n <= MaxItems + 1 /\ IsFiniteSet(DOMAIN request.file) /\ Cardinality(DOMAIN request.file) = n
  BY <1>1, FileShape, ImportBounds
<1>3. PICK bad : bad = Cardinality(request.bad)
  OBVIOUS
<1>4. /\ IsFiniteSet(wanted) /\ bad \in Nat /\ duplicates \in Nat /\ Cardinality(wanted) \in Nat
      /\ n = bad + duplicates + Cardinality(wanted)
  <2>1. /\ request.bad \subseteq DOMAIN request.file /\ request.duplicates \subseteq DOMAIN request.file
        /\ request.bad \cap request.duplicates = {}
    BY DEF ImportHolds
  <2>2. wanted = DOMAIN request.file \ (request.bad \cup request.duplicates)
    BY DEF Wanted
  <2> DEFINE S == DOMAIN request.file
  <2>3. /\ IsFiniteSet(S \ (request.bad \cup request.duplicates))
        /\ Cardinality(request.bad) \in Nat /\ Cardinality(request.duplicates) \in Nat
        /\ Cardinality(S \ (request.bad \cup request.duplicates)) \in Nat
        /\ Cardinality(S) = Cardinality(request.bad) + Cardinality(request.duplicates)
                             + Cardinality(S \ (request.bad \cup request.duplicates))
    <3> HIDE DEF S
    <3>1. IsFiniteSet(S) /\ request.bad \subseteq S /\ request.duplicates \subseteq S
      BY <2>1, <1>2 DEF S
    <3> QED BY <3>1, <2>1, PartsAddUp
  <2>4. duplicates = Cardinality(request.duplicates)
    OBVIOUS
  <2> HIDE DEF S
  <2>5. Cardinality(S) = n /\ wanted = S \ (request.bad \cup request.duplicates)
    BY <1>2, <2>2 DEF S
  <2> QED BY <2>3, <2>4, <2>5, <1>3
<1>5. PICK r, o, w : r = Cardinality(refused) /\ o = Cardinality(orphans) /\ w = Cardinality(wanted)
  OBVIOUS
<1>6. (wanted \ refused) \ orphans = wanted \ (refused \cup orphans)
  OBVIOUS
<1>7. /\ r \in Nat /\ o \in Nat /\ success \in Nat /\ w = r + o + success
      /\ IsFiniteSet((wanted \ refused) \ orphans) /\ IsFiniteSet(orphans)
  <2>1. IsFiniteSet(wanted) /\ refused \subseteq wanted /\ orphans \subseteq wanted
    BY <1>4
  <2>2. /\ IsFiniteSet(refused) /\ IsFiniteSet(orphans) /\ IsFiniteSet(wanted \ (refused \cup orphans))
        /\ Cardinality(refused) \in Nat /\ Cardinality(orphans) \in Nat /\ Cardinality(wanted) \in Nat
        /\ Cardinality(wanted \ (refused \cup orphans)) \in Nat
        /\ Cardinality(wanted) = Cardinality(refused) + Cardinality(orphans)
                                   + Cardinality(wanted \ (refused \cup orphans))
    <3>1. refused \cap orphans = {}
      OBVIOUS
    <3> QED BY ONLY <2>1, <3>1, PartsAddUp
  <2> QED BY <1>5, <1>6, <2>2
<1>8. /\ bad <= request.errors /\ request.errors <= bad + 1
      /\ n <= MaxItems => request.errors = bad
  BY <1>3 DEF ImportHolds
<1>9. request.errors \in Nat /\ failed = request.errors + r + o /\ n = bad + duplicates + w
  BY <1>1, <1>4, <1>5, ImportBounds
<1>10. failed \in Nat /\ failed <= MaxItems + 2 /\ success <= MaxItems + 1 /\ duplicates <= MaxItems + 1
  BY <1>2, <1>4, <1>7, <1>8, <1>9, ImportBounds
<1>11. n <= MaxItems => success + failed + duplicates = n
  BY <1>2, <1>4, <1>7, <1>8, <1>9
<1>12. failed = 0 /\ duplicates = 0 => success = n
  <2> SUFFICES ASSUME failed = 0, duplicates = 0
               PROVE  success = n
    OBVIOUS
  <2>1. request.errors = 0 /\ r = 0 /\ o = 0
    BY <1>7, <1>9
  <2>2. bad = 0
    BY <2>1, <1>4, <1>8
  <2> QED BY <2>1, <2>2, <1>4, <1>7, <1>9
<1>13. o <= failed
  BY <1>7, <1>9
<1> QED BY <1>2, <1>4, <1>5, <1>7, <1>10, <1>11, <1>12, <1>13, ImportBounds

LEMMA WriteImportKeeps ==
  ASSUME ImportsInv, NEW q \in ImportRequests, WriteImport(q), stale' = Stale, crossed' = Crossed
  PROVE  ImportsInv'
<1> USE DEF ImportsInv
<1> DEFINE request == importReq[q]
           id == Len(jobs) + 1
           n == Len(request.file)
           wanted == Wanted(request)
<1>1. /\ request \in ImportRequest /\ request.next = "write" /\ q \in Importing
      /\ ImportHolds(request) /\ UNCHANGED imports
      /\ importReq' = [importReq EXCEPT ![q] = IdleImport]
  BY DEF WriteImport, ImportAt, Importing, ImportsTypeOK
<1>2. PICK refused, orphans, written, failed, success, duplicates, job, new :
        /\ refused \in SUBSET wanted /\ orphans \in SUBSET wanted
        /\ written = wanted \ refused
        /\ failed = request.errors + Cardinality(refused) + Cardinality(orphans)
        /\ success = Cardinality(written \ orphans)
        /\ duplicates = Cardinality(request.duplicates)
        /\ refused \cap orphans = {}
        /\ new = {[title |-> request.file[i], type |-> TypeOf(request.kind), job |-> id, row |-> i,
                   versioned |-> i \notin orphans] : i \in written}
        /\ items' = items \cup new
        /\ job = [rows |-> n, success |-> success, failed |-> failed, duplicates |-> duplicates,
                  status |-> StatusOf(success, failed, duplicates)]
        /\ jobs' = Append(jobs, job)
  <2>1. PICK refused \in SUBSET wanted, orphans \in SUBSET wanted :
          LET written == wanted \ refused
              failed == request.errors + Cardinality(refused) + Cardinality(orphans)
              success == Cardinality(written \ orphans)
          IN /\ refused \cap orphans = {}
             /\ items' = items \cup {[title |-> request.file[i], type |-> TypeOf(request.kind),
                                     job |-> id, row |-> i,
                                     versioned |-> i \notin orphans] : i \in written}
             /\ jobs' = Append(jobs,
                  [rows |-> n, success |-> success, failed |-> failed,
                   duplicates |-> Cardinality(request.duplicates),
                   status |-> StatusOf(success, failed, Cardinality(request.duplicates))])
    BY DEF WriteImport, Wanted
  <2> HIDE DEF request, id, n, wanted
  <2> QED BY <2>1
<1>0. /\ id = Len(jobs) + 1 /\ n = Len(request.file) /\ request = importReq[q]
      /\ wanted = Wanted(request)
      /\ wanted = DOMAIN request.file \ (request.bad \cup request.duplicates)
  BY DEF Wanted
<1> HIDE DEF request, id, n, wanted
<1> DEFINE item == [i \in written |-> [title |-> request.file[i], type |-> TypeOf(request.kind),
                                       job |-> id, row |-> i, versioned |-> i \notin orphans]]
<1>3. /\ n \in 0..MaxItems + 1 /\ success \in 0..MaxItems + 1 /\ failed \in 0..MaxItems + 2
      /\ duplicates \in 0..MaxItems + 1
      /\ n <= MaxItems => success + failed + duplicates = n
      /\ failed = 0 /\ duplicates = 0 => success = n
      /\ IsFiniteSet(written \ orphans) /\ IsFiniteSet(orphans)
      /\ Cardinality(orphans) <= failed
  <2>1. success = Cardinality((wanted \ refused) \ orphans) /\ written \ orphans = (wanted \ refused) \ orphans
    BY <1>2
  <2>2. failed = request.errors + Cardinality(refused) + Cardinality(orphans)
        /\ duplicates = Cardinality(request.duplicates) /\ refused \cap orphans = {}
    BY <1>2
  <2>3. request \in ImportRequest /\ ImportHolds(request) /\ request.next = "write"
    BY <1>1
  <2>4. /\ n = Len(request.file) /\ wanted = Wanted(request)
        /\ refused \in SUBSET wanted /\ orphans \in SUBSET wanted
    BY <1>0, <1>2
  <2> HIDE DEF ImportsInv
  <2> QED BY <2>1, <2>2, <2>3, <2>4, WrittenCounts
<1>4. /\ n \in 0..MaxItems + 1 /\ n \in Nat /\ DOMAIN request.file = 1..n /\ 1..n \subseteq RowNumbers
      /\ \A i \in 1..n : request.file[i] \in Titles \cup {Untitled}
      /\ IsFiniteSet(DOMAIN request.file)
  <2>1. request.file \in Files
    BY <1>1 DEF ImportRequest
  <2> QED BY <2>1, <1>0, FileShape, ImportBounds
<1>5. written \subseteq 1..n /\ orphans \subseteq written /\ IsFiniteSet(written)
  BY <1>0, <1>2, <1>4, FS_Subset
<1>6. \A x : x \in new <=> \E i \in written : x = item[i]
  BY <1>2
<1>7. \A i \in written :
        /\ item[i].title = request.file[i] /\ item[i].job = id /\ item[i].row = i
        /\ item[i].type = TypeOf(request.kind) /\ (item[i].versioned <=> i \notin orphans)
  OBVIOUS
<1>8. \A i \in written : id \in 1..MaxImports => item[i] \in Item
  BY <1>4, <1>5 DEF Item, TypeOf
<1> HIDE DEF item
<1>9. IsFiniteSet(new) /\ IsFiniteSet(items')
  <2>1. IsFiniteSet(new)
    BY <1>5, <1>6, ImagesCounted
  <2> QED BY <2>1, <1>2, FS_Union
<1>10. /\ importReq'[q] = IdleImport
       /\ \A p \in ImportRequests : p # q => importReq'[p] = importReq[p]
       /\ importReq' \in [ImportRequests -> ImportRequest] /\ Importing' = Importing \ {q}
  BY <1>1, ImportRowChanges, IdleImportTyped
<1>11. /\ IsFiniteSet(Importing') /\ Len(jobs) \in Nat /\ id \in 1..MaxImports
       /\ id + Cardinality(Importing') <= imports /\ DOMAIN jobs = 1..Len(jobs)
  <2>1. /\ IsFiniteSet(Importing') /\ Cardinality(Importing') = Cardinality(Importing) - 1
        /\ Cardinality(Importing) \in Nat /\ Len(jobs) \in Nat /\ imports \in Nat
        /\ DOMAIN jobs = 1..Len(jobs) /\ Cardinality(Importing') \in Nat
    BY <1>0, <1>1, <1>10, StartedCounted, FS_CardinalityType
  <2>2. imports <= MaxImports
    BY ImportBounds DEF ImportsTypeOK
  <2> QED BY <2>1, <2>2, <1>0, ImportBounds
<1>12. /\ Len(jobs') = id /\ DOMAIN jobs' = 1..id /\ jobs'[id] = job
       /\ \A j \in DOMAIN jobs : j \in DOMAIN jobs' /\ j # id /\ jobs'[j] = jobs[j]
       /\ \A j \in DOMAIN jobs' : j = id \/ j \in DOMAIN jobs
       /\ jobs' \in Seq(Job) /\ id \in DOMAIN jobs'
  <2>1. job \in Job
    <3>1. StatusOf(success, failed, duplicates) \in {"failed", "partial", "completed"}
      BY DEF StatusOf
    <3> QED BY <3>1, <1>2, <1>3 DEF Job
  <2>2. jobs \in Seq(Job)
    BY DEF ImportsTypeOK
  <2> QED BY <2>1, <2>2, <1>0, <1>2, <1>11
<1>13. ImportsTypeOK'
  <2>1. items' \subseteq Item
    BY <1>2, <1>6, <1>8, <1>11 DEF ImportsTypeOK
  <2> QED BY <2>1, <1>1, <1>10, <1>11, <1>12 DEF ImportsTypeOK
<1>14. \A x \in items' : \/ x \in items /\ x.job \in DOMAIN jobs /\ x.job # id
                         \/ x \in new /\ x.job = id
  <2>1. ASSUME NEW x \in items PROVE x.job \in DOMAIN jobs /\ x.job # id
    <3>1. x \in Item /\ x.job <= Len(jobs)
      BY DEF ImportsTypeOK
    <3>2. x.job \in 1..MaxImports
      BY <3>1 DEF Item
    <3> QED BY <3>1, <3>2, <1>0, <1>11, ImportBounds
  <2>2. ASSUME NEW x \in new PROVE x.job = id
    BY <1>6, <1>7
  <2>3. items' = items \cup new
    BY <1>2
  <2> HIDE DEF ImportsInv
  <2> QED BY <2>1, <2>2, <2>3
<1>15. \A x \in items' : x.job <= Len(jobs')
  BY <1>11, <1>12, <1>14
<1>16. \A p \in Importing' : p \in Importing /\ p # q /\ importReq'[p] = importReq[p]
  BY <1>10 DEF Importing
<1>17. id \in Written /\ Written = {id} /\ Writers = {q}
  <2>1. Written = {id}
    BY <1>0, <1>11, <1>12 DEF Written
  <2>2. Writers = {q}
    BY <1>1, <1>10, IdleImportTyped DEF Writers, Importing
  <2> QED BY <2>1, <2>2
<1>18. \A p \in Importing' : p \in stale'
  BY <1>16, <1>17 DEF Stale
<1>19. crossed \subseteq crossed' /\ (q \in stale \/ request.missed => id \in crossed')
  BY <1>0, <1>17 DEF Crossed
<1>20. \A p \in Importing' : ImportHolds(importReq'[p])
  BY <1>16
<1>21. \A p \in (Importing \ stale)' : Unseen(importReq[p])'
  BY <1>18
<1>22. ASSUME NEW j \in DOMAIN jobs'
       PROVE  LET added == {x \in items' : x.job = j}
              IN /\ jobs'[j].rows <= MaxItems =>
                      jobs'[j].success + jobs'[j].failed + jobs'[j].duplicates = jobs'[j].rows
                 /\ Cardinality({x \in added : x.versioned}) <= jobs'[j].success
                 /\ Cardinality({x \in added : ~x.versioned}) <= jobs'[j].failed
                 /\ jobs'[j].status = "completed" => jobs'[j].success = jobs'[j].rows
  <2> DEFINE added == {x \in items' : x.job = j}
  <2>1. CASE j \in DOMAIN jobs
    <3>1. added = {x \in items : x.job = j}
      BY <2>1, <1>2, <1>12, <1>14
    <3> HIDE DEF added
    <3>2. jobs'[j] = jobs[j]
      BY <2>1, <1>12
    <3>3. LET old == {x \in items : x.job = j}
          IN /\ jobs[j].rows <= MaxItems =>
                  jobs[j].success + jobs[j].failed + jobs[j].duplicates = jobs[j].rows
             /\ Cardinality({x \in old : x.versioned}) <= jobs[j].success
             /\ Cardinality({x \in old : ~x.versioned}) <= jobs[j].failed
             /\ jobs[j].status = "completed" => jobs[j].success = jobs[j].rows
      BY <2>1 DEF ImportAccountsForRows
    <3>4. /\ jobs'[j].rows <= MaxItems =>
                  jobs'[j].success + jobs'[j].failed + jobs'[j].duplicates = jobs'[j].rows
          /\ Cardinality({x \in added : x.versioned}) <= jobs'[j].success
          /\ Cardinality({x \in added : ~x.versioned}) <= jobs'[j].failed
          /\ jobs'[j].status = "completed" => jobs'[j].success = jobs'[j].rows
      BY <3>1, <3>2, <3>3
    <3> QED BY <3>4 DEF added
  <2>2. CASE j = id
    <3>1. \A x \in added : \E i \in written : x = item[i]
      BY <2>2, <1>6, <1>14
    <3> DEFINE with == {x \in added : x.versioned}
               without == {x \in added : ~x.versioned}
    <3>2. /\ \A x \in with : \E i \in written \ orphans : x = item[i]
          /\ \A x \in without : \E i \in orphans : x = item[i]
      BY <3>1, <1>7
    <3> HIDE DEF with, without, added
    <3>3. Cardinality(with) <= success /\ Cardinality(without) <= Cardinality(orphans)
          /\ IsFiniteSet(without)
      <4>1. Cardinality(with) <= Cardinality(written \ orphans)
        BY <3>2, <1>3, ImagesCounted
      <4>2. IsFiniteSet(without) /\ Cardinality(without) <= Cardinality(orphans)
        BY <3>2, <1>3, ImagesCounted
      <4> QED BY <4>1, <4>2, <1>2
    <3>4. Cardinality(without) <= failed
      <4>1. Cardinality(without) \in Nat /\ Cardinality(orphans) \in Nat
        BY <3>3, <1>3, FS_CardinalityType
      <4> QED BY <3>3, <4>1, <1>3
    <3>5. /\ jobs'[j].rows = n /\ jobs'[j].success = success /\ jobs'[j].failed = failed
          /\ jobs'[j].duplicates = duplicates
          /\ jobs'[j].status = StatusOf(success, failed, duplicates)
      BY <2>2, <1>2, <1>12
    <3>6. StatusOf(success, failed, duplicates) = "completed" => success = n
      BY <1>3 DEF StatusOf
    <3> QED BY <3>3, <3>4, <3>5, <3>6, <1>3 DEF with, without, added
  <2> QED BY <2>1, <2>2, <1>12
<1>23. ASSUME NEW x \in items', NEW y \in items', x # y, x.type = y.type, x.title = y.title
       PROVE  \E z \in {x, y} : z.job \in crossed' \/ jobs'[z.job].rows > MaxItems
  <2>1. CASE x \in items /\ y \in items
    <3>1. PICK z \in {x, y} : z.job \in crossed \/ jobs[z.job].rows > MaxItems
      BY <2>1, <1>23 DEF ImportAccountsForRows
    <3>2. z.job \in DOMAIN jobs
      <4>1. z \in Item /\ z.job <= Len(jobs)
        BY <2>1 DEF ImportsTypeOK
      <4> QED BY <4>1, <1>11, ImportBounds DEF Item
    <3> QED BY <3>1, <3>2, <1>12, <1>19
  <2>2. CASE x \in new \/ y \in new
    <3>1. PICK z \in {x, y} : z \in new /\ z.job = id
      BY <2>2, <1>6, <1>7
    <3>2. CASE q \in stale \/ request.missed \/ n > MaxItems
      BY <3>1, <3>2, <1>2, <1>12, <1>19
    <3>3. CASE q \notin stale /\ ~request.missed /\ n <= MaxItems
      <4>1. request.at = n + 1 /\ Unseen(request)
        <5>1. ~(n > MaxItems)
          BY <3>3, <1>4, ImportBounds
        <5> QED BY <5>1, <3>3, <1>0, <1>1 DEF ImportHolds
      <4>2. \A i \in written : /\ \A old \in items : old.type = TypeOf(request.kind) =>
                                    old.title # request.file[i]
                               /\ \A j \in written : j < i => request.file[j] # request.file[i]
        BY <3>3, <4>1, <1>0, <1>2, <1>4, <1>5 DEF Unseen
      <4>3. x \in new /\ y \in new
        BY <2>2, <4>2, <1>2, <1>6, <1>7, <1>23
      <4>4. PICK i \in written, j \in written : x = item[i] /\ y = item[j]
        BY <4>3, <1>6
      <4>5. i # j /\ request.file[i] = request.file[j]
        BY <4>4, <1>7, <1>23
      <4> QED BY <4>2, <4>5, <1>5
    <3> QED BY <3>2, <3>3, <1>4, ImportBounds
  <2> QED BY <2>1, <2>2, <1>2
<1>24. ImportAccountsForRows'
  BY <1>22, <1>23 DEF ImportAccountsForRows
<1> QED BY <1>9, <1>11, <1>12, <1>13, <1>15, <1>20, <1>21, <1>24, <1>1

LEMMA ImportsStep ==
  ASSUME ImportsInv, [MCNext]_<<operationsVars, history>>
  PROVE  ImportsInv'
<1>1. CASE ImportsNext /\ MCNext
  <2>1. stale' = Stale /\ crossed' = Crossed
    BY <1>1 DEF MCNext
  <2>2. ASSUME NEW q \in ImportRequests,
               StartImport(q) \/ CheckRow(q) \/ WriteImport(q) \/ ImportFails(q)
        PROVE  ImportsInv'
    BY <2>1, <2>2, StartImportKeeps, CheckRowKeeps, WriteImportKeeps, ImportFailsKeeps
  <2>3. CASE DeleteItem
    BY <2>1, <2>3, DeleteItemKeeps
  <2> QED BY <1>1, <2>2, <2>3 DEF ImportsNext
<1>2. CASE MCNext /\ UNCHANGED importVars
  BY <1>2, OtherPartKeepsImports DEF MCNext
<1>3. CASE UNCHANGED <<operationsVars, history>>
  BY <1>3, OtherPartKeepsImports DEF operationsVars, history
<1> QED BY <1>1, <1>2, <1>3 DEF MCNext

LEMMA ImportsInductive == MCSpec => []ImportsInv
<1>1. MCInit => ImportsInv
  BY InitImports DEF MCInit
<1>2. ImportsInv /\ [MCNext]_<<operationsVars, history>> => ImportsInv'
  BY ImportsStep
<1> QED BY <1>1, <1>2, PTL DEF MCSpec

\* Whichever imports look at their rows at the same time, whichever of their
\* INSERTs are refused and whatever is deleted between, an import accounts for
\* every row, and adds no title twice among the items of its type unless another
\* import committed after it had looked, or one of its searches was refused.
\* (importKnowledgeQAV033Hotfix, importKnowledgeMarkdownV033Hotfix)
THEOREM ImportsAccount == MCSpec => []ImportAccountsForRows
<1>1. ImportsInv => ImportAccountsForRows
  BY DEF ImportsInv
<1> QED BY <1>1, ImportsInductive, PTL

-----------------------------------------------------------------------------

LEMMA MigrationsInductive == MCSpec => []TypedInv
<1>1. MCInit => TypedInv
  BY InitTyped DEF MCInit
<1>2. TypedInv /\ [MCNext]_<<operationsVars, history>> => TypedInv'
  <2>1. [MCNext]_<<operationsVars, history>> => [MigrationsNext]_migrationVars
    BY DEF MCNext, operationsVars
  <2> QED BY <2>1, TypedStep
<1> QED BY <1>1, <1>2, PTL DEF MCSpec

\* No request for a runtime, a conversation or an import, no control, boot or
\* rollback leaves a row or a request outside its type; the next id of a message
\* and of a job stays within its bound.  (runtimes.go, conversations.go and
\* v033_completion_hotfix.go as Runtimes, Conversations, KnowledgeImports and
\* SchemaMigrations have them)
THEOREM OperationsTyped == MCSpec => []OperationsTypeOK
<1>1. RuntimesInv /\ ChatInv /\ ImportsInv /\ TypedInv => OperationsTypeOK
  BY TypedImplies DEF RuntimesInv, ChatInv, ImportsInv, OperationsTypeOK
<1> QED BY <1>1, RuntimesInductive, ChatInductive, ImportsInductive, MigrationsInductive, PTL
=============================================================================
