--------------------------- MODULE DbWALRefinement ---------------------------
(* DbWAL implements WalService: the calls in flight are the operations      *)
(* being registered and completed, and durable is what verifyLog() would    *)
(* report of the file as it is.                                             *)
EXTENDS DbWAL

CallsOf(kind) == {t \in Threads : call[t].kind = kind /\ call[t].placed}

InRegistration == {Op(call[t].id) : t \in CallsOf("register")}
InCompletion   == {Op(call[t].target) : t \in CallsOf("update")}
WouldReplay    == Reported(log)

Service == INSTANCE WalService WITH
    Operations  <- [epoch : 0 .. MaxEpoch + MaxIoFailures, id : 0 .. MaxOps],
    registering <- InRegistration,
    completing  <- InCompletion,
    durable     <- WouldReplay

(* The detailed log is one way to keep the promise of WalService: an        *)
(* operation is acknowledged only when a restart would replay it, stays so  *)
(* until its completion is under way, and is finished only when no restart  *)
(* will replay it; the log is emptied only when nothing depends on it.      *)
ServiceSpec == Service!Spec
=============================================================================
