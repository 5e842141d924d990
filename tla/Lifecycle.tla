----------------------------- MODULE Lifecycle -----------------------------
(***************************************************************************)
(* Startup and shutdown of a Controller: the thread in Controller::Run,    *)
(* which constructs and destroys the RunData, the RPC server's threads,    *)
(* the updater thread of Sync, and the thread of the base chain that sends *)
(* push notifications.  What the threads do to the chain is left out; what *)
(* is kept are the mutexes, the registration of callbacks, which objects   *)
(* exist, and how the database is used.  The mutexes of PendingManager,    *)
(* ZmqPub and RpcServer are not here: nobody waits for another lock or     *)
(* thread while holding them.                                              *)
(***************************************************************************)
EXTENDS Database, FiniteSets

CONSTANTS
    StopRequest,    \* the RPC calls of "stop"
    InfoRequest,    \* those of "getzmqnotifications"
    ChainRequest    \* those that lock the chainstate and may publish

Handler == StopRequest \cup InfoRequest \cup ChainRequest

ASSUME LifecycleAssumption == Handler \cap {"run", "updater", "notifier", "free"} = {}

Free == "free"

VARIABLES
    runPc,          \* Controller::Run with the constructor, destructor of RunData
    shouldStop,     \* Controller::shouldStop
    exists,         \* the members of RunData that exist and are used by others
    listening,      \* the RPC server accepts calls
    baseCb,         \* BaseChain::cb is set
    syncCb,         \* Sync::cb is set
    syncShouldStop, \* Sync::shouldStop
    updaterPc,
    notifierPc,
    handlerPc,
    owner           \* who holds each mutex

flags == <<shouldStop, exists, listening, baseCb, syncCb, syncShouldStop>>
lifecycleVars == <<runPc, flags, updaterPc, notifierPc, handlerPc, owner, database>>

Mutex == {"controller", "base", "sync", "chain"}

(* The threads that use the database. *)
Thread == {"run", "updater"} \cup ChainRequest

Lock(m, who) == owner[m] = Free /\ owner' = [owner EXCEPT ![m] = who]
Unlock(m) == owner' = [owner EXCEPT ![m] = Free]

LifecycleInit ==
    /\ runPc = "start"
    /\ shouldStop = FALSE
    /\ exists = {}
    /\ listening = FALSE
    /\ baseCb = FALSE
    /\ syncCb = FALSE
    /\ syncShouldStop = FALSE
    /\ updaterPc = "none"
    /\ notifierPc = "idle"
    /\ handlerPc = [h \in Handler |-> "idle"]
    /\ owner = [m \in Mutex |-> Free]
    /\ DatabaseInit(Thread)

(* A step of a thread with the database, or out of it to other objects. *)
UseDatabase(t) ==
    /\ \/ Acquire(t)
       \/ RunQuery(t)
       \/ Release(t)
       \/ OpenBatch(t)
       \/ CloseBatch(t)
       \/ CallMethod(t)
       \/ SkipMethod(t)
       \/ LoopMethod(t)
       \/ CallOthers(t)
       \/ OthersThrow(t)
       \/ LeaveTry(t)
       \/ CallBack(t, syncCb)
    /\ UNCHANGED <<runPc, flags, updaterPc, notifierPc, handlerPc, owner>>

-----------------------------------------------------------------------------
(* Controller::Run: the constructor of RunData runs with the lock held. *)

RunStarts ==
    /\ runPc = "start"
    /\ Lock("controller", "run")
    /\ exists' = {"chain", "sync", "zmq", "pendings"}
    /\ runPc' = "listen"
    /\ UNCHANGED <<shouldStop, listening, baseCb, syncCb, syncShouldStop,
                   updaterPc, notifierPc, handlerPc, database>>

StartListening ==
    /\ runPc = "listen"
    /\ listening' = TRUE
    /\ runPc' = "setBase"
    /\ UNCHANGED <<shouldStop, exists, baseCb, syncCb, syncShouldStop,
                   updaterPc, notifierPc, handlerPc, owner, database>>

SetBaseCallbacks ==
    /\ runPc = "setBase"
    /\ owner["base"] = Free
    /\ baseCb' = TRUE
    /\ runPc' = "setSync"
    /\ UNCHANGED <<shouldStop, exists, listening, syncCb, syncShouldStop,
                   updaterPc, notifierPc, handlerPc, owner, database>>

SetSyncCallbacks ==
    /\ runPc = "setSync"
    /\ owner["sync"] = Free
    /\ syncCb' = TRUE
    /\ runPc' = "startSync"
    /\ UNCHANGED <<shouldStop, exists, listening, baseCb, syncShouldStop,
                   updaterPc, notifierPc, handlerPc, owner, database>>

(* sync->Start locks Sync and then the chain, and records the chain's name. *)
StartSync ==
    /\ runPc = "startSync"
    /\ Lock("sync", "run")
    /\ syncShouldStop' = FALSE
    /\ runPc' = "lockChain"
    /\ UNCHANGED <<shouldStop, exists, listening, baseCb, syncCb,
                   updaterPc, notifierPc, handlerPc, database>>

SyncSetsChain ==
    /\ runPc = "lockChain"
    /\ Lock("chain", "run")
    /\ \E steps \in SetChain : Start("run", steps)
    /\ runPc' = "setChain"
    /\ UNCHANGED <<flags, updaterPc, notifierPc, handlerPc, used, batches>>

SyncStarts ==
    /\ runPc = "setChain"
    /\ ~ Busy("run")
    /\ owner' = [owner EXCEPT !["chain"] = Free, !["sync"] = Free]
    /\ updaterPc' = "lock"
    /\ runPc' = "wait"
    /\ UNCHANGED <<flags, notifierPc, handlerPc, database>>

(* Mutant: the lock is held while waiting. *)
RunWaitsLocked ==
    /\ runPc = "wait"
    /\ shouldStop' = FALSE
    /\ runPc' = "waiting"
    /\ UNCHANGED <<exists, listening, baseCb, syncCb, syncShouldStop,
                   updaterPc, notifierPc, handlerPc, owner, database>>

(* shouldStop is reset, and cv.wait releases the lock. *)
RunWaits ==
    /\ runPc = "wait"
    /\ shouldStop' = FALSE
    /\ Unlock("controller")
    /\ runPc' = "waiting"
    /\ UNCHANGED <<exists, listening, baseCb, syncCb, syncShouldStop,
                   updaterPc, notifierPc, handlerPc, database>>

RunWakes ==
    /\ runPc = "waiting"
    /\ shouldStop
    /\ Lock("controller", "run")
    /\ runPc' = "stopListening"
    /\ UNCHANGED <<flags, updaterPc, notifierPc, handlerPc, database>>

(* The destructor of RunData runs with the lock held. *)

StopListening ==
    /\ runPc = "stopListening"
    /\ listening' = FALSE
    /\ runPc' = "drain"
    /\ UNCHANGED <<shouldStop, exists, baseCb, syncCb, syncShouldStop,
                   updaterPc, notifierPc, handlerPc, owner, database>>

(* The HTTP server waits for the calls that it is still processing. *)
HandlersDrained ==
    /\ runPc = "drain"
    /\ \A h \in Handler : handlerPc[h] \in {"idle", "done"}
    /\ runPc' = "clearBase"
    /\ UNCHANGED <<flags, updaterPc, notifierPc, handlerPc, owner, database>>

ClearBaseCallbacks ==
    /\ runPc = "clearBase"
    /\ owner["base"] = Free
    /\ baseCb' = FALSE
    /\ runPc' = "clearSync"
    /\ UNCHANGED <<shouldStop, exists, listening, syncCb, syncShouldStop,
                   updaterPc, notifierPc, handlerPc, owner, database>>

(* Mutant: cleared without the mutex. *)
ClearSyncCallbacksUnlocked ==
    /\ runPc = "clearSync"
    /\ syncCb' = FALSE
    /\ runPc' = "destroy"
    /\ UNCHANGED <<shouldStop, exists, listening, baseCb, syncShouldStop,
                   updaterPc, notifierPc, handlerPc, owner, database>>

ClearSyncCallbacks ==
    /\ runPc = "clearSync"
    /\ owner["sync"] = Free
    /\ syncCb' = FALSE
    /\ runPc' = "destroy"
    /\ UNCHANGED <<shouldStop, exists, listening, baseCb, syncShouldStop,
                   updaterPc, notifierPc, handlerPc, owner, database>>

(* The members go in the reverse order of their declaration. *)
DestroyPublisher ==
    /\ runPc = "destroy"
    /\ exists' = exists \ {"zmq", "pendings"}
    /\ runPc' = "stopSync"
    /\ UNCHANGED <<shouldStop, listening, baseCb, syncCb, syncShouldStop,
                   updaterPc, notifierPc, handlerPc, owner, database>>

(* Mutant: the updater is joined without being told to stop. *)
JoinWithoutStop ==
    /\ runPc = "stopSync"
    /\ runPc' = "join"
    /\ UNCHANGED <<flags, updaterPc, notifierPc, handlerPc, owner, database>>

StopSync ==
    /\ runPc = "stopSync"
    /\ owner["sync"] = Free
    /\ syncShouldStop' = TRUE
    /\ runPc' = "join"
    /\ UNCHANGED <<shouldStop, exists, listening, baseCb, syncCb,
                   updaterPc, notifierPc, handlerPc, owner, database>>

(* The updater is joined, and Sync and Chainstate are destroyed. *)
RunReturns ==
    /\ runPc = "join"
    /\ updaterPc = "ended"
    /\ exists' = {}
    /\ Unlock("controller")
    /\ runPc' = "returned"
    /\ UNCHANGED <<shouldStop, listening, baseCb, syncCb, syncShouldStop,
                   updaterPc, notifierPc, handlerPc, database>>

RunStep ==
    \/ RunStarts \/ StartListening \/ SetBaseCallbacks \/ SetSyncCallbacks
    \/ StartSync \/ SyncSetsChain \/ SyncStarts \/ RunWaits \/ RunWakes
    \/ StopListening \/ HandlersDrained \/ ClearBaseCallbacks
    \/ ClearSyncCallbacks \/ DestroyPublisher \/ StopSync \/ RunReturns
    \/ UseDatabase("run")

-----------------------------------------------------------------------------
(* The updater thread of Sync. *)

(* It enters the loop, or wakes up from cv.wait_for or the sleep. *)
UpdaterLocks ==
    /\ updaterPc = "lock"
    /\ Lock("sync", "updater")
    /\ updaterPc' = "check"
    /\ UNCHANGED <<runPc, flags, notifierPc, handlerPc, database>>

UpdaterEnds ==
    /\ updaterPc = "check"
    /\ syncShouldStop
    /\ Unlock("sync")
    /\ updaterPc' = "ended"
    /\ UNCHANGED <<runPc, flags, notifierPc, handlerPc, database>>

(* UpdateStep. *)
UpdaterSteps ==
    /\ updaterPc = "check"
    /\ ~ syncShouldStop
    /\ Lock("chain", "updater")
    /\ \E steps \in UpdateStep : Start("updater", steps)
    /\ updaterPc' = "step"
    /\ UNCHANGED <<runPc, flags, notifierPc, handlerPc, used, batches>>

UpdaterReleases ==
    /\ updaterPc = "step"
    /\ ~ Busy("updater")
    /\ owner' = [owner EXCEPT !["chain"] = Free, !["sync"] = Free]
    /\ updaterPc' = "lock"
    /\ UNCHANGED <<runPc, flags, notifierPc, handlerPc, database>>

UpdaterStep ==
    \/ UpdaterLocks \/ UpdaterEnds \/ UpdaterSteps \/ UpdaterReleases
    \/ UseDatabase("updater")

-----------------------------------------------------------------------------
(* The base chain's thread: BaseChain::TipChanged, and the callback of     *)
(* RunData, which passes the tip on to PendingManager and wakes up Sync.   *)

Notify ==
    /\ notifierPc = "idle"
    /\ Lock("base", "notifier")
    /\ notifierPc' = IF baseCb THEN "pendings" ELSE "release"
    /\ UNCHANGED <<runPc, flags, updaterPc, handlerPc, database>>

NotifyPendings ==
    /\ notifierPc = "pendings"
    /\ notifierPc' = "newTip"
    /\ UNCHANGED <<runPc, flags, updaterPc, handlerPc, owner, database>>

NotifySync ==
    /\ notifierPc = "newTip"
    /\ owner["sync"] = Free
    /\ notifierPc' = "release"
    /\ UNCHANGED <<runPc, flags, updaterPc, handlerPc, owner, database>>

NotifyDone ==
    /\ notifierPc = "release"
    /\ Unlock("base")
    /\ notifierPc' = "idle"
    /\ UNCHANGED <<runPc, flags, updaterPc, handlerPc, database>>

NotifierStep == Notify \/ NotifyPendings \/ NotifySync \/ NotifyDone

-----------------------------------------------------------------------------
(* The RPC server's threads. *)

CallArrives(h) ==
    /\ listening
    /\ handlerPc[h] = "idle"
    /\ handlerPc' = [handlerPc EXCEPT ![h] = "called"]
    /\ UNCHANGED <<runPc, flags, updaterPc, notifierPc, owner, database>>

(***************************************************************************)
(* The two methods that lock the controller's mutex: "stop", which calls   *)
(* Controller::Stop, and "getzmqnotifications", which only reads.          *)
(***************************************************************************)
HandleController(h) ==
    /\ h \in StopRequest \cup InfoRequest
    /\ handlerPc[h] = "called"
    /\ owner["controller"] = Free
    /\ shouldStop' = (shouldStop \/ h \in StopRequest)
    /\ handlerPc' = [handlerPc EXCEPT ![h] = "done"]
    /\ UNCHANGED <<runPc, exists, listening, baseCb, syncCb, syncShouldStop,
                   updaterPc, notifierPc, owner, database>>

(***************************************************************************)
(* getnetworkinfo, verifymessage, getrawmempool, or a base-chain error in  *)
(* getblockchaininfo: the answer is cached or comes from the base chain.   *)
(***************************************************************************)
HandleBase(h) ==
    /\ h \in ChainRequest
    /\ handlerPc[h] = "called"
    /\ handlerPc' = [handlerPc EXCEPT ![h] = "done"]
    /\ UNCHANGED <<runPc, flags, updaterPc, notifierPc, owner, database>>

(* Mutant: the chainstate is used without its mutex. *)
HandleChainUnlocked(h) ==
    /\ h \in ChainRequest
    /\ handlerPc[h] = "called"
    /\ \E steps \in Request : Start(h, steps)
    /\ handlerPc' = [handlerPc EXCEPT ![h] = "working"]
    /\ UNCHANGED <<runPc, flags, updaterPc, notifierPc, owner, used, batches>>

HandleChain(h) ==
    /\ h \in ChainRequest
    /\ handlerPc[h] = "called"
    /\ Lock("chain", h)
    /\ \E steps \in Request : Start(h, steps)
    /\ handlerPc' = [handlerPc EXCEPT ![h] = "working"]
    /\ UNCHANGED <<runPc, flags, updaterPc, notifierPc, used, batches>>

HandleDone(h) ==
    /\ handlerPc[h] = "working"
    /\ ~ Busy(h)
    /\ Unlock("chain")
    /\ handlerPc' = [handlerPc EXCEPT ![h] = "done"]
    /\ UNCHANGED <<runPc, flags, updaterPc, notifierPc, database>>

HandlerStep(h) ==
    \/ HandleController(h)
    \/ HandleBase(h) \/ HandleChain(h) \/ HandleDone(h)
    \/ h \in ChainRequest /\ UseDatabase(h)

LifecycleNext ==
    \/ RunStep
    \/ UpdaterStep
    \/ NotifierStep
    \/ \E h \in Handler : CallArrives(h)
    \/ \E h \in Handler : HandlerStep(h)

(***************************************************************************)
(* Every thread goes on when it can.  A mutex that is locked and unlocked  *)
(* over and over by other threads is got in the end.  Nobody is forced to  *)
(* call the RPC server.                                                    *)
(***************************************************************************)
Fairness ==
    /\ SF_lifecycleVars(RunStep)
    /\ SF_lifecycleVars(UpdaterStep)
    /\ SF_lifecycleVars(NotifierStep)
    /\ \A h \in Handler : SF_lifecycleVars(HandlerStep(h))

LifecycleSpec == LifecycleInit /\ [][LifecycleNext]_lifecycleVars /\ Fairness

-----------------------------------------------------------------------------
(***************************************************************************)
(* No thread uses a member of RunData that is not there yet or no longer:  *)
(* the destructor first gets rid of everyone who could.  PendingManager    *)
(* and ZmqPub are destroyed while the updater of Sync is still running.    *)
(***************************************************************************)
NothingUsedAfterDestruction ==
    /\ updaterPc \in {"check", "step"} => {"chain", "sync"} \subseteq exists
    /\ \A t \in Thread : At(t, "publish") => {"zmq", "pendings"} \subseteq exists
    /\ notifierPc = "pendings" => "pendings" \in exists
    /\ notifierPc = "newTip" => "sync" \in exists
    /\ \A h \in Handler : handlerPc[h] \notin {"idle", "done"}
                             => {"chain", "zmq"} \subseteq exists

(***************************************************************************)
(* "Note that each particular statement (string) can only be in use at     *)
(* most once at any given moment; else this method aborts": no method that *)
(* is called while a statement is open prepares the same one again.        *)
(***************************************************************************)
StatementsUsedOnce ==
    \A t \in Thread :
        At(t, "take") \/ At(t, "query") => Head(todo[t]).arg \notin used

(***************************************************************************)
(* "calls are not automatically thread-safe and external synchronisation   *)
(* must be used": only the owner of the chain's mutex is in the database.  *)
(* Who gives it back leaves no statement in use, which would abort the     *)
(* process at the end, and no savepoint open, whose changes would be lost. *)
(***************************************************************************)
DatabaseGuarded ==
    /\ \A t \in Thread : Busy(t) => owner["chain"] = t
    /\ owner["chain"] = Free => used = {} /\ batches = {}

(* What is published is committed: it is still there after a crash. *)
PublishedIsCommitted ==
    \A t \in Thread : At(t, "publish") => batches = {}

(***************************************************************************)
(* What Controller::Stop says: "When this method returns, the Run call may *)
(* not yet have actually returned, but it will do so shortly."             *)
(***************************************************************************)
StopWorks ==
    (\E h \in StopRequest : handlerPc[h] = "done") ~> runPc = "returned"

(* No call that was accepted is left without an answer. *)
CallsAnswered ==
    \A h \in Handler : handlerPc[h] = "called" ~> handlerPc[h] = "done"

-----------------------------------------------------------------------------
(***************************************************************************)
(* The inductive invariant.  The stages of Controller::Run in which each   *)
(* thing is there:                                                         *)
(***************************************************************************)
SyncCalls == {"startSync", "lockChain", "setChain", "wait", "waiting",
              "stopListening", "drain", "clearBase", "clearSync"}
BaseCalls == (SyncCalls \ {"clearSync"}) \cup {"setSync"}
Serving == (BaseCalls \ {"drain", "clearBase"}) \cup {"setBase"}
Complete == Serving \cup SyncCalls \cup {"listen", "destroy"}

(* The type of the variables. *)
LifecycleTypeOK ==
    /\ runPc \in Complete \cup {"start", "stopSync", "join", "returned"}
    /\ \A flag \in {shouldStop, listening, baseCb, syncCb, syncShouldStop} : flag \in BOOLEAN
    /\ exists \subseteq {"chain", "sync", "zmq", "pendings"}
    /\ updaterPc \in {"none", "lock", "check", "step", "ended"}
    /\ notifierPc \in {"idle", "pendings", "newTip", "release"}
    /\ handlerPc \in [Handler -> {"idle", "called", "working", "done"}]
    /\ owner \in [Mutex -> Thread \cup {"notifier", Free}]
    /\ todo \in [Thread -> Seq(StepType)]
    /\ used \subseteq Statement
    /\ batches \subseteq Batcher

(* What is there is decided by how far the constructor or destructor is. *)
StagesInOrder ==
    /\ exists = IF runPc \in Complete THEN {"chain", "sync", "zmq", "pendings"}
                ELSE IF runPc \in {"stopSync", "join"} THEN {"chain", "sync"}
                ELSE {}
    /\ listening <=> runPc \in Serving
    /\ baseCb <=> runPc \in BaseCalls
    /\ syncCb <=> runPc \in SyncCalls
    /\ runPc \notin Serving \cup {"drain"} =>
          \A h \in Handler : handlerPc[h] \in {"idle", "done"}
    /\ updaterPc \in {"lock", "check", "step"} =>
          runPc \in (Complete \cup {"stopSync", "join"})
                      \ {"listen", "setBase", "setSync", "startSync", "lockChain", "setChain"}
    /\ notifierPc \in {"pendings", "newTip"} => runPc \in BaseCalls

(* A mutex has the owner that is where it is held. *)
OwnersInside ==
    /\ owner["base"] = "notifier" <=> notifierPc # "idle"
    /\ owner["sync"] = "updater" <=> updaterPc \in {"check", "step"}
    /\ owner["chain"] = "run" <=> runPc = "setChain"
    /\ owner["chain"] = "updater" <=> updaterPc = "step"
    /\ owner["chain"] # "notifier"
    /\ \A h \in Handler : handlerPc[h] = "working" <=> owner["chain"] = h

(* The database is the owner's. *)
DatabaseOwned ==
    /\ \A t \in Thread : IF owner["chain"] = t THEN InUse(t) ELSE todo[t] = <<>>
    /\ owner["chain"] = Free => used = {} /\ batches = {}

(* Without callbacks, nothing that Sync still does leads to a publication. *)
SyncQuiet == syncCb \/ todo["updater"] \in Seq(QuietStep)

LifecycleInv ==
    LifecycleTypeOK /\ StagesInOrder /\ OwnersInside /\ DatabaseOwned /\ SyncQuiet
=============================================================================
