------------------------------ MODULE Process -------------------------------
(***************************************************************************)
(* The state of one route of the validator process, shared by the event    *)
(* indexer and the task dispatcher.  main.rs polls the two (and the epoch  *)
(* watcher) inside one task with tokio::select!, so they interleave at     *)
(* their .await points and nowhere else: each action of Indexer and        *)
(* Dispatcher is the code between two awaits.  (An await that completes at *)
(* once is the schedule in which the other component does not move.)       *)
(*                                                                         *)
(* `tasks`, `claims`, `cursor`, `indexingSince` and `onSync` are the two    *)
(* JSON files and survive a crash; `idx` and `disp` are memory and do not.  *)
(***************************************************************************)
EXTENDS Chains

CONSTANTS
    NoBlock,      \* Option<u64>::None, a cursor that was never saved
    Finality,     \* FINALITY_BUFFER_SECS
    Lookback,     \* settings.sync_lookback_secs
    Chunk,        \* CHUNK_SIZE
    Window,       \* blocks was_event_emitted looks back
    Slack,        \* what load_route_settings adds to the contracts' periods
    RelayDelay,   \* settings.relay_delay_secs
    RetryDelay,   \* the +20, +30 and +60 minutes of reschedule_task
    MaxRestarts,  \* bound: starts of the process after the first
    Faults        \* what may go wrong outside the process

FaultKinds == {"rpc",          \* a request fails
               "lost",         \* a transaction lands, its receipt is not read
               "notFinal",     \* is_epoch_finalized answers false
               "funds",        \* the wallet cannot cover the deposit
               "unconfirmed",  \* the Outbox does not know the root yet
               "crash"}        \* the process is killed

ASSUME ProcessAssumption ==
    /\ Finality \in Nat \ {0} /\ Lookback \in Nat /\ Chunk \in Nat \ {0}
    /\ Window \in Nat /\ Slack \in Nat /\ RelayDelay \in Nat
    /\ RetryDelay \in Nat /\ MaxRestarts \in Nat
    /\ Faults \subseteq FaultKinds
    /\ NoBlock \notin Nat

VARIABLES
    tasks,          \* RouteState::tasks
    claims,         \* the claims file
    cursor,         \* inbox_last_block and outbox_last_block
    indexingSince,  \* RouteState::indexing_since
    onSync,         \* RouteState::on_sync
    route,          \* "up", or why run_route is not running
    idx,            \* the indexer's scan in progress
    disp,           \* the dispatcher's pass in progress
    restarts,       \* starts after the first, bounded by MaxRestarts
    booted          \* history: the clock at the last start

storeVars == <<tasks, claims, cursor, indexingSince, onSync>>
procVars  == <<route, idx, disp>>
bootVars  == <<restarts, booted>>
vars == <<chainVars, storeVars, procVars, bootVars>>

Sides == {"inbox", "outbox"}

(* Panics, by the message of the code. *)
Panics == {"Duplicate claim", "claim not found", "No claim found",
           "Cannot update claim", "honest party not determined", "rpc"}

(* phase: "query" before a get_logs, "logs" while its result is handled,    *)
(* "await" inside the handler of log entry `at`.  `target` is catchup_target. *)
Indexing == [phase: {"query", "logs", "await"}, side: Sides, inboxDone: BOOLEAN,
             target: [Sides -> Nat], to: Nat, queue: SUBSET Nat, at: Nat,
             verdict: Parties]

IdleIndexer ==
    [phase |-> "query", side |-> "inbox", inboxDone |-> FALSE,
     target |-> [s \in Sides |-> 0], to |-> 0, queue |-> {}, at |-> 0,
     verdict |-> "None"]

(* phase: what process_pending or the task at hand waits for.              *)
Phases == {"idle", "polled", "next", "finality", "compare", "hash", "spent",
           "send", "result"}

Results == {"none", "ok", "invalid", "error"}

Dispatching == [phase: Phases, now: Nat, ready: SUBSET Task,
                task: Task \cup {NoTask}, claim: ClaimData \cup {NoClaim},
                result: Results]

IdleDispatcher ==
    [phase |-> "idle", now |-> 0, ready |-> {}, task |-> NoTask,
     claim |-> NoClaim, result |-> "none"]

ProcessTypeOK ==
    /\ tasks \in SUBSET Task
    /\ claims \in [Epochs -> ClaimData \cup {NoClaim}]
    /\ cursor \in [Sides -> Nat \cup {NoBlock}]
    /\ indexingSince \in Nat
    /\ onSync \in BOOLEAN
    /\ route \in {"up", "down"} \cup Panics
    /\ idx \in Indexing
    /\ disp \in Dispatching
    /\ restarts \in Nat
    /\ booted \in Nat

ProcessInit ==
    /\ tasks = {}
    /\ claims = [e \in Epochs |-> NoClaim]
    /\ cursor = [s \in Sides |-> NoBlock]
    /\ indexingSince = 0
    /\ onSync = FALSE
    /\ route = "down"
    /\ idx = IdleIndexer
    /\ disp = IdleDispatcher
    /\ restarts = 0
    /\ booted = 0

Running == route = "up"

(* A panic unwinds the whole route; a kill ends it.  The files stay.       *)
Die(why) ==
    /\ route' = why
    /\ idx' = IdleIndexer
    /\ disp' = IdleDispatcher

Panic(why) == Die(why) /\ UNCHANGED storeVars

(* What a handler leaves behind: nothing, a new schedule, or both files.   *)
Proceed(newIdx) == idx' = newIdx /\ UNCHANGED <<storeVars, route, disp>>

Schedule(newTasks, newIdx) ==
    /\ tasks' = newTasks /\ idx' = newIdx
    /\ UNCHANGED <<claims, cursor, indexingSince, onSync, route, disp>>

(* The claims file is written first, then the schedule, once for each      *)
(* change: a kill can fall in between and leave any schedule of `torn`.    *)
Commit(newClaims, torn, newTasks, newIdx) ==
    /\ claims' = newClaims
    /\ \/ tasks' = newTasks /\ idx' = newIdx /\ UNCHANGED <<route, disp>>
       \/ "crash" \in Faults /\ tasks' \in torn /\ Die("down")
    /\ UNCHANGED <<cursor, indexingSince, onSync>>
=============================================================================
