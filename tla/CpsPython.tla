----------------------------- MODULE CpsPython -----------------------------
(***************************************************************************)
(* The Python extension (src/src/python_extension): a Python process whose *)
(* threads call the library, and whose callbacks the library calls.        *)
(*                                                                         *)
(* Python code, and everything that touches a Python object, needs the     *)
(* interpreter's lock (GIL).  Some functions of the extension release it   *)
(* while the library works, others keep it.  The library runs the          *)
(* callbacks of obj_register in the thread of its operation service, under *)
(* the read lock of db_functions, which cps_api_register takes for         *)
(* writing.                                                                *)
(*                                                                         *)
(* What the calls transfer is left out (CpsPyObject has the conversion of  *)
(* objects); a call of the own process is told apart from all others, as   *)
(* it is the operation service's thread that has to answer it.             *)
(***************************************************************************)
EXTENDS Naturals, Sequences, FiniteSets

CONSTANTS
    Apps,        \* threads of the Python program
    Server,      \* the thread of the operation service
    Nobody,
    Regs,        \* calls of obj_register; each has a dictionary of methods
    MaxPyCalls,  \* bound: calls of the extension
    MaxDepth     \* bound: functions a thread is in at a time

PyThreads == Apps \cup {Server}

ASSUME PythonAssumption ==
    /\ Server \notin Apps
    /\ Nobody \notin PyThreads
    /\ MaxPyCalls \in Nat
    /\ MaxDepth \in Nat

VARIABLES
    gil,        \* the thread that has the interpreter's lock
    at,         \* where each thread is
    frames,     \* the functions of the extension it is in
    functions,  \* db_functions: what is registered
    context,    \* the py_callbacks_t of each registration
    refs,       \* references to its dictionary of methods
    kept,       \* history: the program has a reference of its own
    leaked,     \* history: argument tuples that were not given back
    pyCalls     \* bound: calls made

pyVars == <<gil, at, frames, functions, context, refs, kept, leaked, pyCalls>>

PyPlaces == {"off",      \* the thread does not exist yet
           "idle",     \* the service waits for a request
           "enter",    \* a callback waits for the GIL
           "python",   \* Python code
           "outside",  \* a function of the library, without the GIL
           "back",     \* the GIL is wanted back
           "held"}     \* a function of the library, with the GIL

Frame(f, r, c) == [fn |-> f, reg |-> r, client |-> c]
Top(t) == frames[t][Len(frames[t])]
In(t, f) == frames[t] # <<>> /\ Top(t).fn = f
Popped(t) == [frames EXCEPT ![t] = SubSeq(@, 1, Len(@) - 1)]
Pushed(t, f) == [frames EXCEPT ![t] = Append(@, f)]

\* GILLock and PyEval_RestoreThread wait for it, and so does Python code that
\* has been interrupted.
TakeGil(t) == gil = Nobody /\ gil' = t
Runs(t) == at[t] = "python" /\ gil = t

PyInit ==
    /\ gil = Nobody
    /\ at = [t \in PyThreads |-> IF t = Server THEN "off" ELSE "python"]
    /\ frames = [t \in PyThreads |-> <<>>]
    /\ functions = {}
    /\ context = [r \in Regs |-> "none"]
    /\ refs = [r \in Regs |-> 1]
    /\ kept = Regs
    /\ leaked = [r \in Regs |-> 0]
    /\ pyCalls = 0

-----------------------------------------------------------------------------
(* The interpreter (external) *)

\* Python code takes the GIL, and gives it up now and then for others.
Resume(t) ==
    /\ at[t] = "python"
    /\ TakeGil(t)
    /\ UNCHANGED <<at, frames, functions, context, refs, kept, leaked, pyCalls>>

Interrupt(t) ==
    /\ Runs(t)
    /\ gil' = Nobody
    /\ UNCHANGED <<at, frames, functions, context, refs, kept, leaked, pyCalls>>

\* The program drops its reference to a dictionary.
Forget(t, r) ==
    /\ Runs(t)
    /\ r \in kept
    /\ kept' = kept \ {r}
    /\ refs' = [refs EXCEPT ![r] = @ - 1]
    /\ UNCHANGED <<gil, at, frames, functions, context, leaked, pyCalls>>

\* A function of the extension is called, and releases the GIL or keeps it.
Called(t) ==
    /\ Runs(t)
    /\ pyCalls < MaxPyCalls
    /\ pyCalls' = pyCalls + 1
    /\ Len(frames[t]) < MaxDepth

ReleasesGil(t, f) ==
    /\ frames' = Pushed(t, f)
    /\ at' = [at EXCEPT ![t] = "outside"]
    /\ gil' = Nobody

KeepsGil(t, f) ==
    /\ frames' = Pushed(t, f)
    /\ at' = [at EXCEPT ![t] = "held"]
    /\ UNCHANGED gil

-----------------------------------------------------------------------------
(* obj_init and obj_register *)

\* py_cps_obj_init: an operation service with one thread.
ObjInit(t) ==
    /\ Called(t)
    /\ at[Server] = "off"
    /\ ReleasesGil(t, Frame("obj_init", Nobody, Nobody))
    /\ UNCHANGED <<functions, context, refs, kept, leaked>>

\* py_cps_obj_reg: the dictionary is an argument, so that the call has a
\* reference to it.
Args(r) == [refs EXCEPT ![r] = @ + 1]
ObjReg(t, r) ==
    /\ Called(t)
    /\ at[Server] # "off"
    /\ r \in kept
    /\ context[r] = "none"
    /\ context' = [context EXCEPT ![r] = "live"]
    /\ refs' = Args(r)
    /\ ReleasesGil(t, Frame("obj_register", r, Nobody))
    /\ UNCHANGED <<functions, kept, leaked>>

\* The key cannot be translated: the context goes with its unique_ptr.
ObjRegRefused(t, r) ==
    /\ Called(t)
    /\ r \in kept
    /\ context[r] = "none"
    /\ context' = [context EXCEPT ![r] = "freed"]
    /\ UNCHANGED <<gil, at, frames, functions, refs, kept, leaked>>

\* cps_api_register, under the write lock of db_functions; it does not fail.
Serving == at[Server] \notin {"off", "idle"}
Register(t) ==
    /\ at[t] = "outside"
    /\ In(t, "obj_register")
    /\ ~Serving
    /\ functions' = functions \cup {Top(t).reg}
    /\ at' = [at EXCEPT ![t] = "back"]
    /\ UNCHANGED <<gil, frames, context, refs, kept, leaked, pyCalls>>

\* The context is released to the library and the dictionary gets a reference
\* for it; the arguments of the call are given back.
ReferencedByArgs(r) == [refs EXCEPT ![r] = @ - 1]
Referenced(r) == [refs EXCEPT ![r] = (@ + 1) - 1]
ObjRegReturns(t) ==
    /\ at[t] = "back"
    /\ In(t, "obj_register")
    /\ TakeGil(t)
    /\ refs' = Referenced(Top(t).reg)
    /\ frames' = Popped(t)
    /\ at' = [at EXCEPT ![t] = "python"]
    /\ UNCHANGED <<functions, context, kept, leaked, pyCalls>>

-----------------------------------------------------------------------------
(* Functions that release the GIL *)

\* py_cps_get: of the own process, or of others.
GetKeepsGil(t, own) ==
    /\ Called(t)
    /\ KeepsGil(t, Frame(IF own THEN "own" ELSE "other", Nobody, Nobody))
    /\ UNCHANGED <<functions, context, refs, kept, leaked>>
Get(t, own) ==
    /\ Called(t)
    /\ ReleasesGil(t, Frame(IF own THEN "own" ELSE "other", Nobody, Nobody))
    /\ UNCHANGED <<functions, context, refs, kept, leaked>>

\* py_cps_trans: the changes are of the own process or of others, or there are
\* none and nobody is asked.
Trans(t, own) ==
    /\ Called(t)
    /\ ReleasesGil(t, Frame(IF own THEN "own" ELSE "other", Nobody, Nobody))
    /\ UNCHANGED <<functions, context, refs, kept, leaked>>

\* py_add_object_to_trans takes all items of the list or the call fails.
TransRefused(t) ==
    /\ Called(t)
    /\ UNCHANGED <<gil, at, frames, functions, context, refs, kept, leaked>>

\* event_register, event_register_object, event_send, event_wait and
\* event_close.
EventCall(t) ==
    /\ Called(t)
    /\ ReleasesGil(t, Frame("other", Nobody, Nobody))
    /\ UNCHANGED <<functions, context, refs, kept, leaked>>

\* The library has done what it was asked, or failed; obj_init may have started
\* the service.
Started(t) == IF In(t, "obj_init") /\ at[Server] = "off" THEN {"off", "idle"} ELSE {at[Server]}
Finish(t) ==
    /\ at[t] = "outside"
    /\ In(t, "obj_init") \/ In(t, "other")
    /\ \E service \in Started(t) : at' = [at EXCEPT ![Server] = service, ![t] = "back"]
    /\ UNCHANGED <<gil, frames, functions, context, refs, kept, leaked, pyCalls>>

Return(t) ==
    /\ at[t] = "back"
    /\ ~In(t, "obj_register")
    /\ TakeGil(t)
    /\ frames' = Popped(t)
    /\ at' = [at EXCEPT ![t] = "python"]
    /\ UNCHANGED <<functions, context, refs, kept, leaked, pyCalls>>

-----------------------------------------------------------------------------
(* Functions that keep the GIL *)

\* db_commit, db_get, node_set_update, node_delete_group, node_set_master,
\* event_connect, and enabled, which asks the name service: other processes do
\* the work.
DbCall(t) ==
    /\ Called(t)
    /\ KeepsGil(t, Frame("other", Nobody, Nobody))
    /\ UNCHANGED <<functions, context, refs, kept, leaked>>

\* obj_stats of an object of the own process.
Stats(t) ==
    /\ Called(t)
    /\ KeepsGil(t, Frame("stats", Nobody, Nobody))
    /\ UNCHANGED <<functions, context, refs, kept, leaked>>

\* sync and reconcile: the callbacks are called by the same thread.
Sync(t) ==
    /\ Called(t)
    /\ KeepsGil(t, Frame("sync", Nobody, Nobody))
    /\ UNCHANGED <<functions, context, refs, kept, leaked>>

SyncFunction(t) ==
    /\ at[t] = "held"
    /\ In(t, "sync")
    /\ at' = [at EXCEPT ![t] = "python"]
    /\ UNCHANGED <<gil, frames, functions, context, refs, kept, leaked, pyCalls>>

SyncFunctionReturns(t) ==
    /\ Runs(t)
    /\ In(t, "sync")
    /\ at' = [at EXCEPT ![t] = "held"]
    /\ UNCHANGED <<gil, frames, functions, context, refs, kept, leaked, pyCalls>>

ReturnHeld(t) ==
    /\ at[t] = "held"
    /\ In(t, "other") \/ In(t, "sync")
    /\ frames' = Popped(t)
    /\ at' = [at EXCEPT ![t] = "python"]
    /\ UNCHANGED <<gil, functions, context, refs, kept, leaked, pyCalls>>

-----------------------------------------------------------------------------
(* The operation service *)

\* Requests come from other processes, or from this one.
Clients == {Nobody} \cup {t \in PyThreads : at[t] = "outside" /\ In(t, "own")}

Serve(r, c) ==
    /\ at[Server] = "idle"
    /\ r \in functions
    /\ c \in Clients
    /\ at' = [at EXCEPT ![Server] = "enter"]
    /\ frames' = Pushed(Server, Frame("callback", r, c))
    /\ UNCHANGED <<gil, functions, context, refs, kept, leaked, pyCalls>>

\* No function for the key, or statistics: nothing of Python is needed.
ServeWithoutCallback(t) ==
    /\ at[Server] = "idle"
    /\ at[t] \in {"outside", "held"}
    /\ In(t, "own") \/ In(t, "stats")
    /\ at' = [at EXCEPT ![t] = IF @ = "held" THEN "python" ELSE "back"]
    /\ frames' = IF at[t] = "held" THEN Popped(t) ELSE frames
    /\ UNCHANGED <<gil, functions, context, refs, kept, leaked, pyCalls>>

\* _read_function and _write_function: execute builds the arguments, with a
\* reference to the dictionary.
Execute ==
    /\ at[Server] = "enter"
    /\ TakeGil(Server)
    /\ refs' = Args(Top(Server).reg)
    /\ at' = [at EXCEPT ![Server] = "python"]
    /\ UNCHANGED <<frames, functions, context, kept, leaked, pyCalls>>

\* The callback is over: the client has its answer.
Answer ==
    [t \in PyThreads |-> IF t = Server THEN "idle"
                         ELSE IF t = Top(Server).client THEN "back" ELSE at[t]]

\* There is no such method: call_object does not give the arguments back.
NoMethod ==
    /\ at[Server] = "enter"
    /\ gil = Nobody
    /\ pyCalls < MaxPyCalls
    /\ pyCalls' = pyCalls + 1
    /\ refs' = Args(Top(Server).reg)
    /\ leaked' = [leaked EXCEPT ![Top(Server).reg] = @ + 1]
    /\ at' = Answer
    /\ frames' = Popped(Server)
    /\ UNCHANGED <<gil, functions, context, kept>>

\* _rollback_function takes the GIL and fails.
Rollback ==
    /\ at[Server] = "enter"
    /\ gil = Nobody
    /\ at' = Answer
    /\ frames' = Popped(Server)
    /\ UNCHANGED <<gil, functions, context, refs, kept, leaked, pyCalls>>

CallbackReturns ==
    /\ Runs(Server)
    /\ In(Server, "callback")
    /\ refs' = [refs EXCEPT ![Top(Server).reg] = @ - 1]
    /\ gil' = Nobody
    /\ at' = Answer
    /\ frames' = Popped(Server)
    /\ UNCHANGED <<functions, context, kept, leaked, pyCalls>>

PyNext ==
    \/ \E t \in PyThreads :
         \/ Resume(t) \/ Interrupt(t)
         \/ ObjInit(t) \/ Register(t) \/ ObjRegReturns(t)
         \/ \E r \in Regs : Forget(t, r) \/ ObjReg(t, r) \/ ObjRegRefused(t, r)
         \/ \E own \in BOOLEAN : Get(t, own) \/ Trans(t, own)
         \/ TransRefused(t) \/ EventCall(t) \/ Finish(t) \/ Return(t)
         \/ DbCall(t) \/ Stats(t) \/ Sync(t)
         \/ SyncFunction(t) \/ SyncFunctionReturns(t) \/ ReturnHeld(t)
         \/ ServeWithoutCallback(t)
    \/ \E r \in Regs, c \in PyThreads \cup {Nobody} : Serve(r, c)
    \/ Execute \/ NoMethod \/ Rollback \/ CallbackReturns

PythonSpec == PyInit /\ [][PyNext]_pyVars

-----------------------------------------------------------------------------
(* Properties *)

\* The context and the dictionary of methods that a callback is about to use
\* are there, in whatever order the program registers them, drops its own
\* references and is called back, also before obj_register has returned.
CallbacksAlive ==
    \A i \in DOMAIN frames[Server] :
        LET r == frames[Server][i].reg
        IN frames[Server][i].fn = "callback" => context[r] = "live" /\ refs[r] > 0

InLibrary(t) == at[t] \in {"outside", "held"}
WantsGil(t) == at[t] \in {"back", "enter"} \/ (at[t] = "python" /\ gil # t)
NeedsServer(t) == InLibrary(t) /\ (In(t, "obj_register") \/ In(t, "own") \/ In(t, "stats"))
WaitsFor(t, u) ==
    \/ WantsGil(t) /\ gil = u
    \/ NeedsServer(t) /\ Serving /\ u = Server

\* a callback that needs its own process, or obj_stats of an own object
Misused(t) ==
    \/ t = Server /\ NeedsServer(t)
    \/ In(t, "stats")

\* Threads wait for each other in a circle only where a callback calls for its
\* own process, or where obj_stats keeps the GIL that the operation service
\* needs to get to its question: the GIL and the lock of db_functions are never
\* taken in opposite orders.
NoWaitCycle ==
    \A S \in SUBSET PyThreads :
        (S # {} /\ \A t \in S : \E u \in S : WaitsFor(t, u)) => \E t \in S : Misused(t)
=============================================================================
