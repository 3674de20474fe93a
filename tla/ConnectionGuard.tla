----------------------------- MODULE ConnectionGuard ----------------------------
(***************************************************************************)
(* The pre-flight guard in front of the inference server                   *)
(* (ConnectionGuard) and the calls it protects (ModelWrapper.chat).  One   *)
(* wrapper is cached per model and its guard is shared by every worker     *)
(* thread, without a lock: an action is one access to a shared cell.       *)
(*                                                                         *)
(* The two time stamps are modelled by their age, which stops counting at  *)
(* the time to live: an older stamp and a stamp of that age are treated    *)
(* alike.  The reason that is stored with a mark is only worded.           *)
(***************************************************************************)
EXTENDS Naturals

CONSTANTS
  Threads,  \* worker threads that call the model
  CacheTTL, \* the time to live, in ticks
  Unset     \* a cell that holds None

ASSUME CacheTTLAssumption == CacheTTL \in Nat \ {0} /\ Unset \notin Nat

VARIABLES
  lastHealthy,     \* age of _last_healthy
  lastUnhealthyAt, \* age of _last_unhealthy_at
  at,              \* what each thread does next
  result           \* how the thread's last call of the model ended

guardVars == <<lastHealthy, lastUnhealthyAt, at, result>>

Ages == 0 .. CacheTTL
Steps == {"idle", "healthy?", "healthy_age", "unhealthy?", "unhealthy_age",
          "ping", "store", "clear", "call", "forget", "mark"}
Results == {"none", "ok", "unreachable", "type_error", "other_error"}

\* a stamp younger than the time to live
Valid(age) == age # Unset /\ age # CacheTTL

GuardInit ==
  /\ lastHealthy = Unset /\ lastUnhealthyAt = Unset
  /\ at = [t \in Threads |-> "idle"] /\ result = [t \in Threads |-> "none"]

GoTo(t, step) == at' = [at EXCEPT ![t] = step]
End(t, how) == GoTo(t, "idle") /\ result' = [result EXCEPT ![t] = how]
CellsUnchanged == UNCHANGED <<lastHealthy, lastUnhealthyAt>>

\* the clock: the stamps grow older
GuardTick ==
  /\ lastHealthy \in Nat \/ lastUnhealthyAt \in Nat
  /\ lastHealthy' = IF Valid(lastHealthy) THEN lastHealthy + 1 ELSE lastHealthy
  /\ lastUnhealthyAt' = IF Valid(lastUnhealthyAt) THEN lastUnhealthyAt + 1
                        ELSE lastUnhealthyAt
  /\ UNCHANGED <<at, result>>

-----------------------------------------------------------------------------
(* check().  Each stamp is read twice, once for None and once for its age: *)
(* when it became None in between, the subtraction raises a TypeError.     *)

StartCheck(t) == /\ at[t] = "idle" /\ GoTo(t, "healthy?")
                 /\ UNCHANGED result /\ CellsUnchanged

SeeHealthy(t) ==
  /\ at[t] = "healthy?"
  /\ GoTo(t, IF lastHealthy = Unset THEN "unhealthy?" ELSE "healthy_age")
  /\ UNCHANGED result /\ CellsUnchanged

AgeHealthy(t) ==
  /\ at[t] = "healthy_age" /\ lastHealthy # Unset
  /\ GoTo(t, IF Valid(lastHealthy) THEN "call" ELSE "unhealthy?")
  /\ UNCHANGED result /\ CellsUnchanged

SeeUnhealthy(t) ==
  /\ at[t] = "unhealthy?"
  /\ GoTo(t, IF lastUnhealthyAt = Unset THEN "ping" ELSE "unhealthy_age")
  /\ UNCHANGED result /\ CellsUnchanged

FailFast(t) == /\ at[t] = "unhealthy_age" /\ Valid(lastUnhealthyAt)
               /\ End(t, "unreachable") /\ CellsUnchanged

\* Mutant: an unhealthy stamp is always probed again
BugMarkExpired(t) == /\ at[t] = "unhealthy_age" /\ GoTo(t, "ping")
                     /\ UNCHANGED result /\ CellsUnchanged

MarkExpired(t) ==
  /\ at[t] = "unhealthy_age" /\ lastUnhealthyAt = CacheTTL
  /\ GoTo(t, "ping") /\ UNCHANGED result /\ CellsUnchanged

StampVanished(t) ==
  /\ \/ at[t] = "healthy_age" /\ lastHealthy = Unset
     \/ at[t] = "unhealthy_age" /\ lastUnhealthyAt = Unset
  /\ End(t, "type_error") /\ CellsUnchanged

(* _ping: /health, then the base URL; any answer below 500 of either one   *)
(* is good, everything else becomes InferenceServerUnreachable.            *)
PingAnswered(t) == /\ at[t] = "ping" /\ GoTo(t, "store")
                   /\ UNCHANGED result /\ CellsUnchanged
PingFailed(t) == /\ at[t] = "ping" /\ GoTo(t, "forget")
                 /\ UNCHANGED result /\ CellsUnchanged

StoreHealthy(t) == /\ at[t] = "store" /\ lastHealthy' = 0
                   /\ GoTo(t, "clear")
                   /\ UNCHANGED <<lastUnhealthyAt, result>>

ClearUnhealthy(t) == /\ at[t] = "clear" /\ lastUnhealthyAt' = Unset
                     /\ GoTo(t, "call") /\ UNCHANGED <<lastHealthy, result>>

-----------------------------------------------------------------------------
(* The call, and mark_unreachable(): two stores, in this order.            *)

CallAnswered(t) == at[t] = "call" /\ End(t, "ok") /\ CellsUnchanged
\* an error that is neither a refused connection nor a timeout is not marked
CallErrs(t) == at[t] = "call" /\ End(t, "other_error") /\ CellsUnchanged
CallUnreachable(t) == /\ at[t] = "call" /\ GoTo(t, "forget")
                      /\ UNCHANGED result /\ CellsUnchanged

ForgetHealthy(t) == /\ at[t] = "forget" /\ lastHealthy' = Unset
                    /\ GoTo(t, "mark") /\ UNCHANGED <<lastUnhealthyAt, result>>
MarkUnreachable(t) == /\ at[t] = "mark" /\ lastUnhealthyAt' = 0
                      /\ End(t, "unreachable") /\ UNCHANGED lastHealthy

Check(t) == \/ StartCheck(t) \/ SeeHealthy(t) \/ AgeHealthy(t)
            \/ SeeUnhealthy(t) \/ FailFast(t) \/ MarkExpired(t)
            \/ StampVanished(t) \/ PingAnswered(t) \/ PingFailed(t)
            \/ StoreHealthy(t) \/ ClearUnhealthy(t)
Chat(t) == \/ CallAnswered(t) \/ CallErrs(t) \/ CallUnreachable(t)
           \/ ForgetHealthy(t) \/ MarkUnreachable(t)

GuardNext == GuardTick \/ \E t \in Threads : Check(t) \/ Chat(t)
GuardSpec == GuardInit /\ [][GuardNext]_guardVars

-----------------------------------------------------------------------------
(* Properties.                                                             *)

GuardTypeOK ==
  /\ lastHealthy \in Ages \cup {Unset} /\ lastUnhealthyAt \in Ages \cup {Unset}
  /\ at \in [Threads -> Steps] /\ result \in [Threads -> Results]

\* the server is marked, and no thread is past the test of the mark
FailsFast == /\ Valid(lastUnhealthyAt) /\ lastHealthy = Unset
             /\ \A t \in Threads : at[t] \notin {"ping", "store", "clear"}
Expired == lastUnhealthyAt' = CacheTTL

(* "subsequent check() calls will raise InferenceServerUnreachable         *)
(* immediately until the cache TTL expires": once a mark is set while no   *)
(* ping is in flight, only the time to live ends it, and until then no     *)
(* thread gets from a check to the server.  (A ping that was in flight     *)
(* when the mark was set erases it: the condition is needed.)              *)
MarkHoldsUntilItExpires ==
  [][FailsFast => \/ Expired
                  \/ FailsFast' /\ \A t \in Threads : at'[t] = "call" => at[t] = "call"]_guardVars

=============================================================================
