------------------------------- MODULE Runtimes -------------------------------
(***************************************************************************)
(* User runtimes, what the provider knows of them, and the hosts they are  *)
(* placed on.                                                              *)
(*                                                                         *)
(* Three writers disagree on what they tell: the controls call the         *)
(* provider and then write the row, the kill switch and the lifecycle of   *)
(* users write the row only, and an edit of the desired configuration      *)
(* writes back what it read.  The provider keeps its map in memory.        *)
(*                                                                         *)
(* A host is "offline" in every status but online: no statement that runs  *)
(* tells the five others apart.  Limits and images are left out, and with  *)
(* them updateRuntimeSpec; executions belong to ApprovalCenter.            *)
(* <Definition>_<Slip> is the definition after it with a plausible mistake.*)
(***************************************************************************)
EXTENDS Integers, FiniteSets

CONSTANTS
  Runtimes, Hosts,
  SeededRuntimes,  \* runtimes of the demo users, which each boot places
  DemoHost,        \* on this host
  RuntimeRequests, \* requests the server handles at the same time
  Nothing,         \* no host, nothing to remember
  MaxRuntimeCalls, MaxRuntimeRestarts   \* bounds: requests served, restarts

ASSUME SeededRuntimesExist == SeededRuntimes \subseteq Runtimes /\ DemoHost \in Hosts
ASSUME RuntimeBounds == MaxRuntimeCalls \in Nat /\ MaxRuntimeRestarts \in Nat
ASSUME RuntimeSets ==
  /\ IsFiniteSet(Runtimes) /\ IsFiniteSet(RuntimeRequests)
  /\ Nothing \notin Runtimes \cup Hosts \cup {"running", "stopped"}

VARIABLES
  status, desired, observed,  \* columns of runtimes
  killed,                     \* kill_switch_enabled
  host, placed,               \* host_id, placement_status = 'placed'
  provider,                   \* MockRuntimeProvider.status
  hostStatus, hostCount,      \* columns of runtime_hosts, "none" without a row
  rtReq, runtimeCalls, runtimeRestarts

rowVars == <<status, desired, observed, killed, host, placed>>
hostVars == <<hostStatus, hostCount>>
runtimeVars == <<rowVars, provider, hostVars, rtReq, runtimeCalls, runtimeRestarts>>

Works == {"running", "stopped"}
RtRequest ==
  [next : {"idle", "row", "rows", "configure", "delete"}, runtime : Runtimes \cup {Nothing},
   host : Hosts \cup {Nothing}, status : Works \cup {Nothing}]
IdleRt == [next |-> "idle", runtime |-> Nothing, host |-> Nothing, status |-> Nothing]

RuntimesTypeOK ==
  /\ status \in [Runtimes -> Works \cup {"not_provisioned"}]
  /\ desired \in [Runtimes -> Works]
  /\ observed \in [Runtimes -> Works \cup {"unknown"}]
  /\ killed \in [Runtimes -> BOOLEAN]
  /\ host \in [Runtimes -> Hosts \cup {Nothing}]
  /\ \A r \in Runtimes : host[r] # Nothing => hostStatus[host[r]] # "none"
  /\ placed \in [Runtimes -> BOOLEAN]
  /\ provider \in [Runtimes -> Works \cup {"unknown"}]
  /\ hostStatus \in [Hosts -> {"none", "online", "offline"}]
  /\ hostCount \in [Hosts -> 0..Cardinality(Runtimes)]
  /\ rtReq \in [RuntimeRequests -> RtRequest]
  /\ runtimeCalls \in 0..MaxRuntimeCalls /\ runtimeRestarts \in 0..MaxRuntimeRestarts

On(h) == {r \in Runtimes : host[r] = h}
Seeded(r) == r \in SeededRuntimes

\* The seed has placed its runtimes, the others are as createUser inserts them.
RuntimesInit ==
  /\ status = [r \in Runtimes |-> IF Seeded(r) THEN "running" ELSE "stopped"]
  /\ desired = [r \in Runtimes |-> "running"]
  /\ observed = [r \in Runtimes |-> IF Seeded(r) THEN "running" ELSE "unknown"]
  /\ killed = [r \in Runtimes |-> FALSE]
  /\ host = [r \in Runtimes |-> IF Seeded(r) THEN DemoHost ELSE Nothing]
  /\ placed = [r \in Runtimes |-> Seeded(r)]
  /\ provider = [r \in Runtimes |-> "unknown"]
  /\ hostStatus = [h \in Hosts |-> IF h = DemoHost THEN "online" ELSE "none"]
  /\ hostCount = [h \in Hosts |-> IF h = DemoHost THEN Cardinality(SeededRuntimes) ELSE 0]
  /\ rtReq = [q \in RuntimeRequests |-> IdleRt]
  /\ runtimeCalls = 0 /\ runtimeRestarts = 0

-----------------------------------------------------------------------------

RtAt(q, step) == rtReq[q].next = step
RtServe == runtimeCalls < MaxRuntimeCalls /\ runtimeCalls' = runtimeCalls + 1
RtStart(q, request) ==
  RtAt(q, "idle") /\ RtServe /\ rtReq' = [rtReq EXCEPT ![q] = request]
RtEnd(q) == rtReq' = [rtReq EXCEPT ![q] = IdleRt] /\ UNCHANGED <<runtimeCalls, runtimeRestarts>>
\* A request of a single statement.
RtAtOnce == RtServe /\ UNCHANGED <<rtReq, runtimeRestarts>>

\* MockRuntimeProvider never fails.
SetProvider(r, work) == provider' = [provider EXCEPT ![r] = work]

\* runtimeAction ("row": it writes status only) and runtimeControlV21 ("rows":
\* it writes all three): start and restart run the runtime, stop stops it.
CallProvider(q) == \E r \in Runtimes, work \in Works, columns \in {"row", "rows"} :
  /\ RtStart(q, [IdleRt EXCEPT !.next = columns, !.runtime = r, !.status = work])
  /\ SetProvider(r, work)
  /\ UNCHANGED <<rowVars, hostVars, runtimeRestarts>>

WriteRow(q) ==
  LET r == rtReq[q].runtime  work == rtReq[q].status
  IN /\ rtReq[q].next \in {"row", "rows"}
     /\ status' = [status EXCEPT ![r] = work]
     /\ IF RtAt(q, "row") THEN UNCHANGED <<desired, observed>>
        ELSE /\ desired' = [desired EXCEPT ![r] = work]
             /\ observed' = [observed EXCEPT ![r] = work]
     /\ RtEnd(q) /\ UNCHANGED <<killed, host, placed, provider, hostVars>>

\* The statement is refused: one handler answers 500, the other does not notice.
RowRefused(q) ==
  /\ rtReq[q].next \in {"row", "rows"}
  /\ RtEnd(q) /\ UNCHANGED <<rowVars, provider, hostVars>>

\* runtimeKillSwitch never calls the provider.
Kill == \E r \in Runtimes :
  /\ killed' = [killed EXCEPT ![r] = TRUE]
  /\ status' = [status EXCEPT ![r] = "stopped"]
  /\ desired' = [desired EXCEPT ![r] = "stopped"]
  /\ observed' = [observed EXCEPT ![r] = "stopped"]
  /\ RtAtOnce /\ UNCHANGED <<host, placed, provider, hostVars>>

\* orchestrateUserLifecycle (pending, suspended, disabled, archived),
\* ensureAutomaticProvisioned (by auto_start of the template) and
\* provisionRuntime (running) write status only.
SetStatus == \E r \in Runtimes, to \in Works \cup {"not_provisioned"} :
  /\ status' = [status EXCEPT ![r] = to]
  /\ RtAtOnce
  /\ UNCHANGED <<desired, observed, killed, host, placed, provider, hostVars>>

\* updateRuntimeDesiredConfigurationV033 keeps what the request leaves out as
\* it reads it now ...
ReadConfiguration(q) == \E r \in Runtimes, h \in Hosts \cup {Nothing}, work \in Works \cup {Nothing} :
  /\ RtStart(q, [next |-> "configure", runtime |-> r,
                 host |-> IF h = Nothing THEN host[r] ELSE h,
                 status |-> IF work = Nothing THEN desired[r] ELSE work])
  /\ UNCHANGED <<rowVars, provider, hostVars, runtimeRestarts>>

\* ... and writes it back; the foreign key refuses a host that is gone.
WriteConfiguration(q) ==
  LET r == rtReq[q].runtime  h == rtReq[q].host
  IN /\ RtAt(q, "configure")
     /\ IF h # Nothing /\ hostStatus[h] = "none" THEN UNCHANGED <<host, desired>>
        ELSE /\ host' = [host EXCEPT ![r] = h]
             /\ desired' = [desired EXCEPT ![r] = rtReq[q].status]
     /\ RtEnd(q) /\ UNCHANGED <<status, observed, killed, placed, provider, hostVars>>

-----------------------------------------------------------------------------
(* Hosts.                                                                     *)

\* createRuntimeHostV032, updateRuntimeHostV032, setRuntimeHostStatusV032
SaveHost == \E h \in Hosts, to \in {"online", "offline"} :
  /\ hostStatus' = [hostStatus EXCEPT ![h] = to]
  /\ RtAtOnce /\ UNCHANGED <<rowVars, provider, hostCount>>

\* testRuntimeHostV032 with a credential that can be read
TestHost == \E h \in Hosts :
  /\ hostStatus[h] # "none"
  /\ hostStatus' = [hostStatus EXCEPT ![h] = "online"]
  /\ RtAtOnce /\ UNCHANGED <<rowVars, provider, hostCount>>

InventoryHost == \E h \in Hosts :
  /\ hostStatus[h] # "none"
  /\ hostStatus' = [hostStatus EXCEPT ![h] = "online"]
  /\ hostCount' = [hostCount EXCEPT ![h] = Cardinality(On(h))]
  /\ RtAtOnce /\ UNCHANGED <<rowVars, provider>>

\* deleteRuntimeHostV032 counts the runtimes ...
InUse_Inventory(h) == hostCount[h] > 0
InUse(h) == On(h) # {}

CheckHost(q) == \E h \in Hosts :
  /\ hostStatus[h] # "none" /\ ~InUse(h)
  /\ RtStart(q, [IdleRt EXCEPT !.next = "delete", !.host = h])
  /\ UNCHANGED <<rowVars, provider, hostVars, runtimeRestarts>>

\* ON DELETE SET NULL
Placement_Kept(h) == host
Placement(h) == [r \in Runtimes |-> IF host[r] = h THEN Nothing ELSE host[r]]

\* ... and deletes the row, whereupon the foreign key empties host_id.
DeleteHost(q) ==
  LET h == rtReq[q].host
  IN /\ RtAt(q, "delete")
     /\ hostStatus' = [hostStatus EXCEPT ![h] = "none"]
     /\ hostCount' = [hostCount EXCEPT ![h] = 0]
     /\ host' = Placement(h)
     /\ RtEnd(q) /\ UNCHANGED <<status, desired, observed, killed, placed, provider>>

-----------------------------------------------------------------------------

\* The provider forgets everything; the boot fills desired and observed where
\* observed is unknown, and places the seeded runtimes on the demo host again.
RestartRuntimes ==
  /\ runtimeRestarts < MaxRuntimeRestarts /\ runtimeRestarts' = runtimeRestarts + 1
  /\ provider' = [r \in Runtimes |-> "unknown"]
  /\ rtReq' = [q \in RuntimeRequests |-> IdleRt]
  /\ desired' = [r \in Runtimes |->
       IF observed[r] # "unknown" THEN desired[r]
       ELSE IF status[r] \in Works THEN status[r] ELSE "running"]
  /\ observed' = [r \in Runtimes |->
       IF observed[r] = "unknown" /\ status[r] \in Works THEN status[r] ELSE observed[r]]
  /\ host' = [r \in Runtimes |-> IF Seeded(r) THEN DemoHost ELSE host[r]]
  /\ placed' = [r \in Runtimes |-> Seeded(r) \/ placed[r]]
  /\ hostStatus' = [hostStatus EXCEPT ![DemoHost] = "online"]
  /\ hostCount' = [hostCount EXCEPT ![DemoHost] =
       Cardinality({r \in Runtimes : Seeded(r) \/ host[r] = DemoHost})]
  /\ UNCHANGED <<status, killed, runtimeCalls>>

RuntimesNext ==
  \/ \E q \in RuntimeRequests :
       \/ CallProvider(q) \/ WriteRow(q) \/ RowRefused(q)
       \/ ReadConfiguration(q) \/ WriteConfiguration(q)
       \/ CheckHost(q) \/ DeleteHost(q)
  \/ Kill \/ SetStatus \/ SaveHost \/ TestHost \/ InventoryHost
  \/ RestartRuntimes

RuntimesSpec == RuntimesInit /\ [][RuntimesNext]_runtimeVars
=============================================================================
