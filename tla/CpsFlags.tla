---- MODULE CpsFlags ----
(***************************************************************************)
(* The library parameters of a process.  A parameter is stored under a     *)
(* lock; the handlers that follow it run outside the lock and read the     *)
(* value again before they copy it to their target.                        *)
(***************************************************************************)
EXTENDS Integers, FiniteSets

CONSTANTS Setters,   \* threads that set the parameter or follow it
          Values,
          Unset,     \* no value
          MaxCalls   \* bound: calls

VARIABLES flag,      \* _cps_parameters
          follows,   \* _parameter_handler_map: the target is followed
          target,    \* the variable that follows the parameter
          call,      \* the call each thread is in
          calls,     \* bound: calls made
          crossed    \* observer: two handlers ran at the same time

flagVars == <<flag, follows, target, call, calls, crossed>>

NoCall == [pc |-> "idle", value |-> Unset]
Handling(c) == c.pc \in {"read", "assign"}

\* cps_api_set_library_flags: the value is stored, the handlers come next.
SetFlag(s, v) ==
    /\ call[s].pc = "idle" /\ calls < MaxCalls
    /\ flag' = v /\ calls' = calls + 1
    /\ call' = [call EXCEPT ![s].pc = "trigger"]
    /\ UNCHANGED <<follows, target, crossed>>

\* cps_api_update_ssize_on_param_change: the handler is added first.
Follow(s) ==
    /\ call[s].pc = "idle" /\ calls < MaxCalls /\ ~follows
    /\ calls' = calls + 1
    /\ follows' = TRUE
    /\ call' = [call EXCEPT ![s].pc = "check"]
    /\ UNCHANGED <<flag, target, crossed>>

\* Mutant: a value set before is not looked for.
CheckNever(s) ==
    /\ call[s].pc = "check"
    /\ call' = [call EXCEPT ![s].pc = "idle"]
    /\ UNCHANGED <<flag, follows, target, calls, crossed>>

\* It then asks for the value and calls the handlers if there is one.
Check(s) ==
    /\ call[s].pc = "check"
    /\ call' = [call EXCEPT ![s].pc = IF flag = Unset THEN "idle" ELSE "trigger"]
    /\ UNCHANGED <<flag, follows, target, calls, crossed>>

\* __trigger_param_callback: the handlers are copied under the lock.
Trigger(s) ==
    /\ call[s].pc = "trigger"
    /\ call' = [call EXCEPT ![s].pc = IF follows THEN "read" ELSE "idle"]
    /\ crossed' = (crossed \/ (follows /\ \E r \in Setters \ {s} : Handling(call[r])))
    /\ UNCHANGED <<flag, follows, target, calls>>

\* The handler: the value is read under the lock and assigned outside it.
ReadFlag(s) ==
    /\ call[s].pc = "read"
    /\ call' = [call EXCEPT ![s] = [pc |-> "assign", value |-> flag]]
    /\ UNCHANGED <<flag, follows, target, calls, crossed>>

Assign(s) ==
    /\ call[s].pc = "assign"
    /\ target' = call[s].value
    /\ call' = [call EXCEPT ![s] = NoCall]
    /\ UNCHANGED <<flag, follows, calls, crossed>>

FlagsInit ==
    /\ flag = Unset /\ follows = FALSE /\ target = Unset
    /\ call = [s \in Setters |-> NoCall]
    /\ calls = 0 /\ crossed = FALSE

FlagsNext ==
    \E s \in Setters :
       \/ \E v \in Values : SetFlag(s, v)
       \/ Follow(s) \/ Check(s) \/ Trigger(s) \/ ReadFlag(s) \/ Assign(s)

FlagsSpec == FlagsInit /\ [][FlagsNext]_flagVars

\* When all calls are over the target has the value of the parameter, however
\* setting and following interleave, unless two handlers ran at the same time:
\* the later one may have assigned the older value.
TargetFollowsFlag ==
    (follows /\ flag # Unset /\ \A s \in Setters : call[s].pc = "idle")
       => target = flag \/ crossed
====
