------------------------------- MODULE Route --------------------------------
(***************************************************************************)
(* One bridge route of vea-validator: main.rs runs an event indexer and a  *)
(* task dispatcher over two files and two chains, catches what panics, and *)
(* starts over five minutes later.                                         *)
(***************************************************************************)
EXTENDS Indexer, Dispatcher

(* run_route: EventIndexer::initialize, then the loops.  A cursor that is  *)
(* missing or older than the lookback moves both cursors, the other one    *)
(* perhaps backwards.                                                      *)
SyncStart == Truncated(clock, Lookback)

NeedsInit ==
    \E s \in Sides : cursor[s] = NoBlock \/ cursor[s] < SyncStart

(* Seeded fault: the sync flag of the last run is believed. *)
StartKeepingSync ==
    /\ route # "up"
    /\ route' = "up"
    /\ booted' = clock
    /\ IF NeedsInit
       THEN /\ indexingSince' = SyncStart
            /\ cursor' = [s \in Sides |-> SyncStart]
       ELSE UNCHANGED <<indexingSince, cursor>>
    /\ UNCHANGED <<chainVars, tasks, claims, onSync, idx, disp>>

Start ==
    /\ route # "up"
    /\ route' = "up"
    /\ onSync' = FALSE
    /\ booted' = clock
    /\ IF NeedsInit
       THEN /\ indexingSince' = SyncStart
            /\ cursor' = [s \in Sides |-> SyncStart]
       ELSE UNCHANGED <<indexingSince, cursor>>
    /\ UNCHANGED <<chainVars, tasks, claims, idx, disp>>

FirstStart == Start /\ booted = 0 /\ UNCHANGED restarts

(* run_route_with_retry after a panic, an operator after a kill.           *)
Restart ==
    /\ booted # 0 /\ restarts < MaxRestarts
    /\ Start
    /\ restarts' = restarts + 1

Kill ==
    /\ "crash" \in Faults /\ Running
    /\ Die("down")
    /\ UNCHANGED <<chainVars, storeVars, bootVars>>

Environment ==
    /\ Tick \/ Others
    /\ UNCHANGED <<storeVars, procVars, bootVars>>

Init == ChainsInit /\ ProcessInit

Next ==
    \/ Environment
    \/ FirstStart \/ Restart \/ Kill
    \/ IndexerStep \/ IndexerFault
    \/ DispatcherStep \/ DispatcherFault

Spec == Init /\ [][Next]_vars

TypeOK == ChainsTypeOK /\ ProcessTypeOK
=============================================================================
