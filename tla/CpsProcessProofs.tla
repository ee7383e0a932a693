-------------------------- MODULE CpsProcessProofs --------------------------
(***************************************************************************)
(* Proofs about what is inside one process.  CpsFlags: a target follows    *)
(* its parameter.  CpsPython: callbacks find their context and dictionary  *)
(* alive, and threads wait for each other in a circle only where the       *)
(* program misuses the extension.  CpsSubscription: what the event         *)
(* thread tells the application of the nodes and their events.             *)
(* CpsObject: objects are referred to as often as they are counted.        *)
(* CpsDictionary: the key attributes of an object are told completely.     *)
(***************************************************************************)
EXTENDS CpsFlags, CpsPython, CpsSubscription, CpsObject, CpsDictionary, CpsRegistrationsProofs, FiniteSetTheorems

(* The library flags *)

FlagCall == [pc : {"idle", "trigger", "check", "read", "assign"}, value : Values \cup {Unset}]

FlagsTyped ==
    /\ flag \in Values \cup {Unset}
    /\ follows \in BOOLEAN
    /\ crossed \in BOOLEAN
    /\ call \in [Setters -> FlagCall]

\* Handlers run only once the target is followed, and one at a time unless the
\* observer has seen two.
OneHandler ==
    /\ \A s \in Setters : call[s].pc \in {"check", "read", "assign"} => follows
    /\ ~crossed => \A s, r \in Setters : Handling(call[s]) /\ Handling(call[r]) => s = r

\* The handlers are still to be called, by a thread that has set or followed
\* the parameter.
Due(s) == call[s].pc \in {"check", "trigger"}

\* A target without the value will get it.
UpdateDue ==
    follows /\ flag # Unset /\ ~crossed =>
        \/ target = flag
        \/ \E s \in Setters : Due(s) \/ call[s].pc = "read" \/ (call[s].pc = "assign" /\ call[s].value = flag)

\* A handler that has read an old value is followed by another one.
StaleIsFollowed ==
    follows /\ flag # Unset /\ ~crossed =>
        \A s \in Setters :
            call[s].pc = "assign" /\ call[s].value # flag => \E r \in Setters : Due(r)

\* The inductive invariant.
FlagsInv == FlagsTyped /\ OneHandler /\ UpdateDue /\ StaleIsFollowed

\* Nobody follows the parameter, nobody handles it.
LEMMA FlagsInitInv == FlagsInit => FlagsInv
  <1> SUFFICES ASSUME FlagsInit PROVE FlagsInv
    OBVIOUS
  <1>1. call \in [Setters -> FlagCall] /\ \A s \in Setters : call[s].pc = "idle"
    BY DEF FlagsInit, NoCall, FlagCall
  <1>2. flag = Unset /\ follows = FALSE /\ crossed = FALSE
    BY DEF FlagsInit
  <1> QED
    BY <1>1, <1>2 DEF FlagsInv, FlagsTyped, OneHandler, UpdateDue, StaleIsFollowed, Handling

\* Every step keeps the invariant: a value stored while a handler has read the
\* one before makes its thread call the handlers afterwards.
LEMMA FlagsNextInv == FlagsInv /\ [FlagsNext]_flagVars => FlagsInv'
  <1> SUFFICES ASSUME FlagsInv, [FlagsNext]_flagVars PROVE FlagsInv'
    OBVIOUS
  <1> USE DEF FlagsInv, FlagsTyped, OneHandler, UpdateDue, StaleIsFollowed, FlagCall, Handling, Due
  <1>1. ASSUME NEW s \in Setters, NEW v \in Values, SetFlag(s, v) PROVE FlagsInv'
    <2>1. /\ call' \in [Setters -> FlagCall] /\ call'[s].pc = "trigger" /\ call[s].pc = "idle"
          /\ \A r \in Setters \ {s} : call'[r] = call[r]
      BY <1>1 DEF SetFlag
    <2> QED
      BY <1>1, <2>1 DEF SetFlag
  <1>2. ASSUME NEW s \in Setters, Follow(s) PROVE FlagsInv'
    <2>1. /\ call' \in [Setters -> FlagCall] /\ call'[s].pc = "check" /\ call[s].pc = "idle"
          /\ \A r \in Setters \ {s} : call'[r] = call[r]
      BY <1>2 DEF Follow
    <2> QED
      BY <1>2, <2>1 DEF Follow
  <1>3. ASSUME NEW s \in Setters, Check(s) PROVE FlagsInv'
    <2>1. /\ call' \in [Setters -> FlagCall] /\ call[s].pc = "check"
          /\ call'[s].pc = (IF flag = Unset THEN "idle" ELSE "trigger")
          /\ \A r \in Setters \ {s} : call'[r] = call[r]
      BY <1>3 DEF Check
    <2> QED
      BY <1>3, <2>1 DEF Check
  <1>4. ASSUME NEW s \in Setters, Trigger(s) PROVE FlagsInv'
    <2>1. /\ call' \in [Setters -> FlagCall] /\ call[s].pc = "trigger"
          /\ call'[s].pc = (IF follows THEN "read" ELSE "idle")
          /\ \A r \in Setters \ {s} : call'[r] = call[r]
      BY <1>4 DEF Trigger
    <2>2. crossed' \in BOOLEAN
      BY <1>4 DEF Trigger
    <2>3. ~crossed' => ~crossed /\ (follows => \A r \in Setters \ {s} : ~Handling(call[r]))
      BY <1>4 DEF Trigger
    <2> QED
      BY <1>4, <2>1, <2>2, <2>3 DEF Trigger
  <1>5. ASSUME NEW s \in Setters, ReadFlag(s) PROVE FlagsInv'
    <2>1. /\ call' \in [Setters -> FlagCall] /\ call[s].pc = "read"
          /\ call'[s].pc = "assign" /\ call'[s].value = flag
          /\ \A r \in Setters \ {s} : call'[r] = call[r]
      BY <1>5 DEF ReadFlag
    <2> QED
      BY <1>5, <2>1 DEF ReadFlag
  <1>6. ASSUME NEW s \in Setters, Assign(s) PROVE FlagsInv'
    <2>1. /\ call' \in [Setters -> FlagCall] /\ call[s].pc = "assign" /\ call'[s].pc = "idle"
          /\ \A r \in Setters \ {s} : call'[r] = call[r]
      BY <1>6 DEF Assign, NoCall
    <2> QED
      BY <1>6, <2>1 DEF Assign
  <1>7. CASE UNCHANGED flagVars
    BY <1>7 DEF flagVars
  <1> QED
    BY <1>1, <1>2, <1>3, <1>4, <1>5, <1>6, <1>7 DEF FlagsNext

\* For every number of threads: when all calls of cps_api_set_library_flags and
\* cps_api_update_ssize_on_param_change are over, a target that follows the
\* parameter has its value, unless two handlers ran at the same time.
THEOREM TargetHasTheValue == FlagsSpec => []TargetFollowsFlag
  <1>1. FlagsInv => TargetFollowsFlag
    BY DEF FlagsInv, FlagsTyped, UpdateDue, Due, TargetFollowsFlag
  <1>2. FlagsSpec => []FlagsInv
    BY FlagsInitInv, FlagsNextInv, PTL DEF FlagsSpec
  <1> QED
    BY <1>1, <1>2, PTL

-----------------------------------------------------------------------------
(* The Python extension *)

ExtensionFns == {"obj_init", "obj_register", "own", "other", "stats", "sync", "callback"}
FrameSet == [fn : ExtensionFns, reg : Regs \cup {Nobody}, client : PyThreads \cup {Nobody}]

\* The GIL, where threads are, and their stacks.
PyTyped ==
    /\ gil \in PyThreads \cup {Nobody}
    /\ at \in [PyThreads -> PyPlaces]
    /\ frames \in [PyThreads -> Seq(FrameSet)]

\* Only a thread that runs Python code, or has kept the GIL in a call, has the
\* GIL.
GilInv ==
    /\ gil \in PyThreads => at[gil] \in {"python", "held"}
    /\ \A t \in PyThreads :
         at[t] = "held" => gil = t /\ frames[t] # <<>> /\ Top(t).fn \in {"other", "stats", "sync"}

\* The service's thread is in exactly one callback, its first frame, from when
\* it takes a request to when it answers it.
ServerInv ==
    /\ at[Server] \in {"off", "idle"} => frames[Server] = <<>>
    /\ Serving => /\ frames[Server] # <<>>
                  /\ frames[Server][1].fn = "callback"
                  /\ frames[Server][1].reg \in functions
    /\ at[Server] = "enter" => Len(frames[Server]) = 1
    /\ at[Server] \in {"outside", "back", "held"} => Len(frames[Server]) > 1
    /\ \A i \in DOMAIN frames[Server] : i # 1 => frames[Server][i].fn # "callback"

\* The context of what is registered, or about to be, lives.
ContextInv ==
    /\ context \in [Regs -> {"none", "live", "freed"}]
    /\ functions \subseteq {r \in Regs : context[r] = "live"}
    /\ \A t \in PyThreads : \A i \in DOMAIN frames[t] :
          frames[t][i].fn = "obj_register" =>
             frames[t][i].reg \in Regs /\ context[frames[t][i].reg] = "live"

\* A callback of r has its argument tuple.
Executing(r) == at[Server] \notin {"off", "idle", "enter"} /\ frames[Server][1].reg = r
One(b) == IF b THEN 1 ELSE 0

\* A dictionary has a reference of the program, one of its context, or of the
\* call that registers it, one of the callback that runs, and those that
\* call_object did not give back.
RefsInv ==
    /\ leaked \in [Regs -> Nat]
    /\ refs \in [Regs -> Nat]
    /\ \A r \in Regs :
          refs[r] = One(r \in kept) + One(context[r] = "live") + One(Executing(r)) + leaked[r]

\* The inductive invariant.
PyInv == PyTyped /\ GilInv /\ ServerInv /\ ContextInv /\ RefsInv
\* A frame on top of the others.
LEMMA PushedFrames ==
    ASSUME PyTyped, NEW t \in PyThreads, NEW f \in FrameSet
    PROVE  /\ Pushed(t, f) \in [PyThreads -> Seq(FrameSet)]
           /\ \A u \in PyThreads \ {t} : Pushed(t, f)[u] = frames[u]
           /\ Len(Pushed(t, f)[t]) = Len(frames[t]) + 1
           /\ Pushed(t, f)[t] # <<>>
           /\ Pushed(t, f)[t][Len(frames[t]) + 1] = f
           /\ \A i \in 1 .. Len(frames[t]) : Pushed(t, f)[t][i] = frames[t][i]
  <1>1. frames[t] \in Seq(FrameSet)
    BY DEF PyTyped
  <1>2. Append(frames[t], f) \in Seq(FrameSet) /\ Len(Append(frames[t], f)) = Len(frames[t]) + 1
    BY <1>1
  <1>3. /\ Append(frames[t], f) # <<>>
        /\ Append(frames[t], f)[Len(frames[t]) + 1] = f
        /\ \A i \in 1 .. Len(frames[t]) : Append(frames[t], f)[i] = frames[t][i]
    BY <1>1, AppendProperties
  <1>4. Pushed(t, f) = [frames EXCEPT ![t] = Append(frames[t], f)]
    BY DEF Pushed
  <1>5. Pushed(t, f) \in [PyThreads -> Seq(FrameSet)]
    BY <1>2, <1>4 DEF PyTyped
  <1>6. Pushed(t, f)[t] = Append(frames[t], f) /\ \A u \in PyThreads \ {t} : Pushed(t, f)[u] = frames[u]
    BY <1>4 DEF PyTyped
  <1> QED
    BY <1>2, <1>3, <1>5, <1>6

\* The frames without the last.
LEMMA PoppedFrames ==
    ASSUME PyTyped, NEW t \in PyThreads
    PROVE  /\ Popped(t) \in [PyThreads -> Seq(FrameSet)]
           /\ \A u \in PyThreads \ {t} : Popped(t)[u] = frames[u]
           /\ Len(frames[t]) > 0 => Len(Popped(t)[t]) = Len(frames[t]) - 1
           /\ Len(frames[t]) <= 1 => Popped(t)[t] = <<>>
           /\ \A i \in 1 .. Len(Popped(t)[t]) : i \in 1 .. Len(frames[t]) /\ Popped(t)[t][i] = frames[t][i]
  <1> DEFINE s == frames[t]  p == SubSeq(s, 1, Len(s) - 1)
  <1>1. s \in Seq(FrameSet) /\ Len(s) \in Nat
    BY DEF PyTyped
  <1>2. Popped(t) = [frames EXCEPT ![t] = p]
    BY DEF Popped
  <1> HIDE DEF s
  <1>3. CASE Len(s) = 0
    <2>1. p = <<>>
      BY <1>1, <1>3
    <2> QED
      BY <2>1, <1>1, <1>2, <1>3 DEF PyTyped, s
  <1>4. CASE Len(s) > 0
    <2> DEFINE n == Len(s) - 1
    <2>1. n \in Int /\ n \in Nat /\ \A i \in 1 .. n : s[i] \in FrameSet
      BY <1>1, <1>4
    <2> HIDE DEF n
    <2>2. SubSeq(s, 1, n) \in Seq(FrameSet) /\ Len(SubSeq(s, 1, n)) = n
      BY <2>1, SubSeqProperties
    <2>0. p \in Seq(FrameSet) /\ Len(p) = Len(s) - 1
      BY <2>2 DEF n
    <2>3. \A i \in 1 .. Len(p) : p[i] = s[i] /\ i \in 1 .. Len(s)
      BY <1>1, <1>4, <2>0
    <2>4. Len(s) <= 1 => p = <<>>
      BY <1>1, <1>4, <2>0
    <2> HIDE DEF p
    <2>5. Popped(t)[t] = p /\ \A u \in PyThreads \ {t} : Popped(t)[u] = frames[u]
      BY <1>2 DEF PyTyped
    <2>6. Popped(t) \in [PyThreads -> Seq(FrameSet)]
      BY <1>2, <2>0 DEF PyTyped
    <2> QED
      BY <2>0, <2>3, <2>4, <2>5, <2>6, <1>4 DEF s
  <1> QED
    BY <1>1, <1>3, <1>4

\* The service's thread is a thread, and nobody is not.
LEMMA ServerThread == Server \in PyThreads /\ Server # Nobody /\ Nobody \notin PyThreads
  BY PythonAssumption DEF PyThreads

\* The program starts without a service, each dictionary with its own reference.
LEMMA InitInv == PyInit => PyInv
  <1> SUFFICES ASSUME PyInit PROVE PyInv
    OBVIOUS
  <1> USE ServerThread DEF PyInit
  <1>1. PyTyped
    BY DEF PyTyped, PyPlaces
  <1>2. GilInv
    BY DEF GilInv
  <1>3. ServerInv
    BY DEF ServerInv, Serving
  <1>4. ContextInv
    BY DEF ContextInv
  <1>5. RefsInv
    BY DEF RefsInv, One, Executing
  <1> QED
    BY <1>1, <1>2, <1>3, <1>4, <1>5 DEF PyInv

\* Where a thread calls the library, the callback the service is in stays the
\* first of its frames.
LEMMA CallFrames ==
    ASSUME PyTyped, ServerInv, NEW t \in PyThreads, NEW f \in FrameSet, NEW p \in {"outside", "held"},
           f.fn # "callback", Runs(t), functions' = functions,
           frames' = Pushed(t, f), at' = [at EXCEPT ![t] = p]
    PROVE  /\ at' \in [PyThreads -> PyPlaces]
           /\ frames' \in [PyThreads -> Seq(FrameSet)]
           /\ frames'[t] # <<>> /\ Top(t)' = f
           /\ at'[t] = p /\ \A u \in PyThreads \ {t} : frames'[u] = frames[u] /\ at'[u] = at[u]
           /\ ServerInv'
           /\ \A r \in Regs : Executing(r)' <=> Executing(r)
           /\ \A u \in PyThreads : \A i \in DOMAIN frames'[u] :
                 frames'[u][i] = f \/ (i \in DOMAIN frames[u] /\ frames'[u][i] = frames[u][i])
  <1>1. at' \in [PyThreads -> PyPlaces] /\ at'[t] = p /\ at[t] = "python"
    BY DEF PyTyped, PyPlaces, Runs
  <1>2. /\ frames' \in [PyThreads -> Seq(FrameSet)]
        /\ frames'[t] # <<>> /\ Len(frames'[t]) = Len(frames[t]) + 1 /\ frames'[t][Len(frames[t]) + 1] = f
        /\ \A i \in 1 .. Len(frames[t]) : frames'[t][i] = frames[t][i]
    BY PushedFrames
  <1>3. \A u \in PyThreads \ {t} : frames'[u] = frames[u] /\ at'[u] = at[u]
    BY PushedFrames DEF PyTyped
  <1>4. Top(t)' = f
    BY <1>2 DEF Top
  <1>5. frames[t] \in Seq(FrameSet) /\ Len(frames[t]) \in Nat
    BY DEF PyTyped
  <1>6. DOMAIN frames[t] = 1 .. Len(frames[t]) /\ DOMAIN frames'[t] = 1 .. Len(frames[t]) + 1
    BY <1>2, <1>5
  <1>7. \A u \in PyThreads : \A i \in DOMAIN frames'[u] :
             frames'[u][i] = f \/ (i \in DOMAIN frames[u] /\ frames'[u][i] = frames[u][i])
    BY <1>2, <1>3, <1>5, <1>6
  <1>8. CASE t = Server
    <2>1. /\ Len(frames[t]) > 0
          /\ frames[t][1].fn = "callback" /\ frames[t][1].reg \in functions
          /\ \A i \in DOMAIN frames[t] : i # 1 => frames[t][i].fn # "callback"
      BY <1>1, <1>5, <1>8 DEF ServerInv, Serving
    <2>2. frames'[t][1] = frames[t][1] /\ Len(frames'[t]) > 1
      BY <1>2, <1>5, <2>1
    <2>3. \A i \in DOMAIN frames'[t] : i # 1 => frames'[t][i].fn # "callback"
      BY <1>2, <1>5, <1>6, <2>1
    <2>4. ServerInv'
      BY <1>1, <1>2, <1>8, <2>1, <2>2, <2>3 DEF ServerInv, Serving
    <2> QED
      BY <1>1, <1>2, <1>3, <1>4, <1>7, <1>8, <2>2, <2>4 DEF Executing
  <1>9. CASE t # Server
    <2>1. frames'[Server] = frames[Server] /\ at'[Server] = at[Server]
      BY <1>3, <1>9, ServerThread
    <2> QED
      BY <1>1, <1>2, <1>3, <1>4, <1>7, <2>1 DEF ServerInv, Serving, Executing
  <1> QED
    BY <1>8, <1>9

\* The same where a call is over.
LEMMA ReturnFrames ==
    ASSUME PyTyped, ServerInv, NEW t \in PyThreads, at[t] \in {"back", "held"}, functions' = functions,
           frames' = Popped(t), at' = [at EXCEPT ![t] = "python"]
    PROVE  /\ at' \in [PyThreads -> PyPlaces]
           /\ frames' \in [PyThreads -> Seq(FrameSet)]
           /\ at'[t] = "python" /\ \A u \in PyThreads \ {t} : frames'[u] = frames[u] /\ at'[u] = at[u]
           /\ ServerInv'
           /\ \A r \in Regs : Executing(r)' <=> Executing(r)
           /\ \A u \in PyThreads : \A i \in DOMAIN frames'[u] :
                 i \in DOMAIN frames[u] /\ frames'[u][i] = frames[u][i]
  <1>1. at' \in [PyThreads -> PyPlaces] /\ at'[t] = "python"
    BY DEF PyTyped, PyPlaces
  <1>2. /\ frames' \in [PyThreads -> Seq(FrameSet)]
        /\ Len(frames[t]) > 0 => Len(frames'[t]) = Len(frames[t]) - 1
        /\ \A i \in 1 .. Len(frames'[t]) : i \in 1 .. Len(frames[t]) /\ frames'[t][i] = frames[t][i]
    BY PoppedFrames
  <1>3. \A u \in PyThreads \ {t} : frames'[u] = frames[u] /\ at'[u] = at[u]
    BY PoppedFrames DEF PyTyped
  <1>5. frames[t] \in Seq(FrameSet) /\ Len(frames[t]) \in Nat
    BY DEF PyTyped
  <1>6. DOMAIN frames[t] = 1 .. Len(frames[t]) /\ DOMAIN frames'[t] = 1 .. Len(frames'[t])
    BY <1>2, <1>5
  <1>7. \A u \in PyThreads : \A i \in DOMAIN frames'[u] :
             i \in DOMAIN frames[u] /\ frames'[u][i] = frames[u][i]
    BY <1>2, <1>3, <1>6
  <1>8. CASE t = Server
    <2>1. /\ Len(frames[t]) > 1
          /\ frames[t][1].fn = "callback" /\ frames[t][1].reg \in functions
          /\ \A i \in DOMAIN frames[t] : i # 1 => frames[t][i].fn # "callback"
      BY <1>1, <1>5, <1>8 DEF ServerInv, Serving
    <2>2. Len(frames'[t]) > 0 /\ frames'[t] # <<>> /\ frames'[t][1] = frames[t][1]
      BY <1>2, <1>5, <2>1
    <2>3. \A i \in DOMAIN frames'[t] : i # 1 => frames'[t][i].fn # "callback"
      BY <1>7, <2>1
    <2>4. ServerInv'
      BY <1>1, <1>8, <2>1, <2>2, <2>3 DEF ServerInv, Serving
    <2> QED
      BY <1>1, <1>2, <1>3, <1>7, <1>8, <2>2, <2>4 DEF Executing
  <1>9. CASE t # Server
    <2>1. frames'[Server] = frames[Server] /\ at'[Server] = at[Server]
      BY <1>3, <1>9, ServerThread
    <2> QED
      BY <1>1, <1>2, <1>3, <1>7, <2>1 DEF ServerInv, Serving, Executing
  <1> QED
    BY <1>8, <1>9

\* A callback that is over leaves the service idle.
LEMMA AnswerFrames ==
    ASSUME PyTyped, ServerInv, functions' = functions, frames' = Popped(Server), at' = Answer,
           at[Server] = "enter" \/ (at[Server] = "python" /\ In(Server, "callback"))
    PROVE  /\ at' \in [PyThreads -> PyPlaces]
           /\ frames' \in [PyThreads -> Seq(FrameSet)]
           /\ at'[Server] = "idle" /\ frames'[Server] = <<>>
           /\ \A u \in PyThreads \ {Server} : frames'[u] = frames[u] /\ at'[u] \in {at[u], "back"}
           /\ Top(Server).reg = frames[Server][1].reg /\ frames[Server][1].reg \in functions
           /\ ServerInv'
  <1>1. at' \in [PyThreads -> PyPlaces] /\ at'[Server] = "idle"
        /\ \A u \in PyThreads \ {Server} : at'[u] \in {at[u], "back"}
    BY ServerThread DEF Answer, PyTyped, PyPlaces
  <1>2. frames[Server] \in Seq(FrameSet) /\ Len(frames[Server]) \in Nat
    BY ServerThread DEF PyTyped
  <1>3. Len(frames[Server]) = 1 /\ frames[Server][1].reg \in functions
    <2>1. frames[Server] # <<>> /\ frames[Server][1].reg \in functions
      BY DEF ServerInv, Serving
    <2>2. Len(frames[Server]) \in DOMAIN frames[Server]
      BY <1>2, <2>1
    <2>3. at[Server] = "python" => Top(Server).fn = "callback"
      BY DEF In
    <2> QED
      BY <2>1, <2>2, <2>3 DEF ServerInv, Top
  <1>4. frames'[Server] = <<>> /\ frames' \in [PyThreads -> Seq(FrameSet)]
        /\ \A u \in PyThreads \ {Server} : frames'[u] = frames[u]
    <2>1. Len(frames[Server]) <= 1
      BY <1>3
    <2> QED
      BY <2>1, PoppedFrames, ServerThread, Zenon
  <1>5. Top(Server) = frames[Server][1]
    BY <1>3 DEF Top
  <1>6. ServerInv'
    BY <1>1, <1>4 DEF ServerInv, Serving
  <1> QED
    BY <1>1, <1>3, <1>4, <1>5, <1>6
\* What is registered, and what a call of obj_register is about, does not
\* depend on other calls.
LEMMA SameContext ==
    ASSUME ContextInv, functions' = functions, context' = context,
           \A u \in PyThreads : \A i \in DOMAIN frames'[u] :
              \/ frames'[u][i].fn # "obj_register"
              \/ i \in DOMAIN frames[u] /\ frames'[u][i] = frames[u][i]
    PROVE  ContextInv'
  BY DEF ContextInv

\* References that no step changes are counted as before.
LEMMA SameRefs ==
    ASSUME RefsInv, UNCHANGED <<context, refs, kept, leaked>>,
           \A r \in Regs : Executing(r)' <=> Executing(r)
    PROVE  RefsInv'
  BY DEF RefsInv, One

\* Calls that have nothing to do with registrations.
Plain == {"obj_init", "own", "other", "stats", "sync"}
\* A call that releases the GIL, or keeps it.
OtherCall(t, fn) ==
    /\ Runs(t)
    /\ UNCHANGED <<functions, context, refs, kept, leaked>>
    /\ \/ ReleasesGil(t, Frame(fn, Nobody, Nobody))
       \/ fn \in {"other", "stats", "sync"} /\ KeepsGil(t, Frame(fn, Nobody, Nobody))

\* Such a call keeps the invariant: it takes the GIL away from its thread, or
\* into a function that waits for nobody but, in obj_stats, the service.
LEMMA OtherCallKeeps ==
    ASSUME PyInv, NEW t \in PyThreads, NEW fn \in Plain, OtherCall(t, fn)
    PROVE  PyInv'
  <1> DEFINE f == Frame(fn, Nobody, Nobody)
  <1>1. f \in FrameSet /\ f.fn = fn /\ fn \notin {"callback", "obj_register"}
    BY DEF FrameSet, Frame, ExtensionFns, Plain
  <1>2. PICK p \in {"outside", "held"} :
            /\ frames' = Pushed(t, f) /\ at' = [at EXCEPT ![t] = p]
            /\ p = "outside" => gil' = Nobody
            /\ p = "held" => gil' = gil /\ fn \in {"other", "stats", "sync"}
    BY DEF OtherCall, ReleasesGil, KeepsGil
  <1> HIDE DEF f
  <1>3. Runs(t) /\ UNCHANGED <<functions, context, refs, kept, leaked>>
    BY DEF OtherCall
  <1>4. /\ at' \in [PyThreads -> PyPlaces]
        /\ frames' \in [PyThreads -> Seq(FrameSet)]
        /\ frames'[t] # <<>> /\ Top(t)' = f
        /\ at'[t] = p /\ \A u \in PyThreads \ {t} : frames'[u] = frames[u] /\ at'[u] = at[u]
        /\ ServerInv'
        /\ \A r \in Regs : Executing(r)' <=> Executing(r)
        /\ \A u \in PyThreads : \A i \in DOMAIN frames'[u] :
              frames'[u][i] = f \/ (i \in DOMAIN frames[u] /\ frames'[u][i] = frames[u][i])
    BY <1>1, <1>2, <1>3, CallFrames DEF PyInv
  <1>5. PyTyped'
    BY <1>2, <1>4 DEF PyInv, PyTyped
  <1>6. GilInv'
    <2>1. gil = t
      BY <1>3 DEF Runs
    <2>2. \A u \in PyThreads \ {t} : at'[u] # "held"
      BY <1>4, <2>1 DEF PyInv, GilInv
    <2> QED
      BY <1>1, <1>2, <1>4, <2>1, <2>2, ServerThread DEF GilInv
  <1>7. ContextInv'
    BY <1>1, <1>3, <1>4, SameContext DEF PyInv
  <1>8. RefsInv'
    BY <1>3, <1>4, SameRefs DEF PyInv
  <1> QED
    BY <1>4, <1>5, <1>6, <1>7, <1>8 DEF PyInv

\* So does the return of a call, which leaves its thread with the GIL.
LEMMA ReturnKeeps ==
    ASSUME PyInv, NEW t \in PyThreads, at[t] \in {"back", "held"},
           frames' = Popped(t), at' = [at EXCEPT ![t] = "python"],
           gil' = t, gil \in {t, Nobody},
           UNCHANGED <<functions, context, refs, kept, leaked>>
    PROVE  PyInv'
  <1>1. /\ at' \in [PyThreads -> PyPlaces]
        /\ frames' \in [PyThreads -> Seq(FrameSet)]
        /\ at'[t] = "python" /\ \A u \in PyThreads \ {t} : frames'[u] = frames[u] /\ at'[u] = at[u]
        /\ ServerInv'
        /\ \A r \in Regs : Executing(r)' <=> Executing(r)
        /\ \A u \in PyThreads : \A i \in DOMAIN frames'[u] :
              i \in DOMAIN frames[u] /\ frames'[u][i] = frames[u][i]
    BY ReturnFrames DEF PyInv
  <1>2. PyTyped'
    BY <1>1 DEF PyTyped
  <1>3. GilInv'
    <2>1. \A u \in PyThreads \ {t} : at'[u] # "held"
      BY <1>1, ServerThread DEF PyInv, GilInv
    <2> QED
      BY <1>1, <2>1 DEF GilInv
  <1>4. ContextInv'
    BY <1>1, SameContext DEF PyInv
  <1>5. RefsInv'
    BY <1>1, SameRefs DEF PyInv
  <1> QED
    BY <1>1, <1>2, <1>3, <1>4, <1>5 DEF PyInv
\* obj_init, get, transaction, the event calls, the database calls, obj_stats
\* and sync.
LEMMA CallsKeep ==
    ASSUME PyInv, NEW t \in PyThreads,
           \/ ObjInit(t)
           \/ \E own \in BOOLEAN : Get(t, own) \/ Trans(t, own)
           \/ TransRefused(t) \/ EventCall(t) \/ DbCall(t) \/ Stats(t) \/ Sync(t)
    PROVE  PyInv'
  <1>1. CASE ObjInit(t)
    <2>1. OtherCall(t, "obj_init")
      BY <1>1 DEF ObjInit, Called, OtherCall
    <2> QED
      BY <2>1, OtherCallKeeps DEF Plain
  <1>2. ASSUME NEW own \in BOOLEAN, Get(t, own) PROVE PyInv'
    <2>1. \E fn \in {"own", "other"} : OtherCall(t, fn)
      BY <1>2 DEF Get, Called, OtherCall
    <2> QED
      BY <2>1, OtherCallKeeps DEF Plain
  <1>3. ASSUME NEW own \in BOOLEAN, Trans(t, own) PROVE PyInv'
    <2>1. \E fn \in {"own", "other"} : OtherCall(t, fn)
      BY <1>3 DEF Trans, Called, OtherCall
    <2> QED
      BY <2>1, OtherCallKeeps DEF Plain
  <1>7. CASE TransRefused(t)
    BY <1>7 DEF TransRefused, PyInv, PyTyped, GilInv, ServerInv, ContextInv, RefsInv, One, Executing,
                Serving, Top
  <1>4. CASE EventCall(t) \/ DbCall(t)
    <2>1. OtherCall(t, "other")
      BY <1>4 DEF EventCall, DbCall, Called, OtherCall
    <2> QED
      BY <2>1, OtherCallKeeps DEF Plain
  <1>5. CASE Stats(t)
    <2>1. OtherCall(t, "stats")
      BY <1>5 DEF Stats, Called, OtherCall
    <2> QED
      BY <2>1, OtherCallKeeps DEF Plain
  <1>6. CASE Sync(t)
    <2>1. OtherCall(t, "sync")
      BY <1>6 DEF Sync, Called, OtherCall
    <2> QED
      BY <2>1, OtherCallKeeps DEF Plain
  <1> QED
    BY <1>1, <1>2, <1>3, <1>4, <1>5, <1>6, <1>7

\* Steps of a thread that leave the frames alone.
LEMMA MoveKeeps ==
    ASSUME PyInv, NEW t \in PyThreads, NEW p \in {"python", "back", "held"},
           at[t] \in {"outside", "held", "python"},
           at[t] = "outside" => p = "back",
           at[t] # "outside" => gil = t /\ In(t, "sync") /\ p \in {"python", "held"},
           UNCHANGED <<gil, frames, functions, context, refs, kept, leaked>>,
           at' = [at EXCEPT ![t] = p]
    PROVE  PyInv'
  <1>1. at' \in [PyThreads -> PyPlaces] /\ at'[t] = p /\ \A u \in PyThreads \ {t} : at'[u] = at[u]
    BY DEF PyInv, PyTyped, PyPlaces
  <1>2. PyTyped'
    BY <1>1 DEF PyInv, PyTyped
  <1>3. GilInv'
    BY <1>1 DEF PyInv, GilInv, In, Top
  <1>4. t = Server => Len(frames[Server]) > 1
    <2>1. t = Server => frames[t] \in Seq(FrameSet) /\ Len(frames[t]) \in Nat /\ Serving
      BY DEF PyInv, PyTyped, Serving
    <2> QED
      BY <2>1 DEF PyInv, ServerInv, In, Top
  <1>5. ServerInv' /\ \A r \in Regs : Executing(r)' <=> Executing(r)
    BY <1>1, <1>4, ServerThread DEF PyInv, ServerInv, Serving, Executing
  <1>6. ContextInv' /\ RefsInv'
    BY <1>5, SameContext, SameRefs DEF PyInv
  <1> QED
    BY <1>2, <1>3, <1>5, <1>6 DEF PyInv
\* The interpreter's own steps: a reference is dropped while the GIL is held.
LEMMA InterpreterKeeps ==
    ASSUME PyInv, NEW t \in PyThreads,
           Resume(t) \/ Interrupt(t) \/ \E r \in Regs : Forget(t, r)
    PROVE  PyInv'
  <1>1. CASE Resume(t) \/ Interrupt(t)
    <2>1. PyTyped' /\ GilInv'
      BY <1>1, ServerThread DEF Resume, Interrupt, TakeGil, Runs, PyInv, PyTyped, GilInv, Top
    <2>2. ServerInv' /\ ContextInv' /\ RefsInv'
      BY <1>1 DEF Resume, Interrupt, PyInv, ServerInv, ContextInv, RefsInv, Serving, Executing, One
    <2> QED
      BY <2>1, <2>2 DEF PyInv
  <1>2. ASSUME NEW r \in Regs, Forget(t, r) PROVE PyInv'
    <2>1. PyTyped' /\ GilInv' /\ ServerInv' /\ ContextInv'
      BY <1>2 DEF Forget, PyInv, PyTyped, GilInv, ServerInv, ContextInv, Serving, Top
    <2>2. /\ r \in kept /\ kept' = kept \ {r} /\ refs' = [refs EXCEPT ![r] = @ - 1]
          /\ UNCHANGED <<at, frames, context, leaked>>
      BY <1>2 DEF Forget
    <2>3. RefsInv'
      BY <2>2 DEF PyInv, RefsInv, One, Executing
    <2> QED
      BY <2>1, <2>3 DEF PyInv
  <1> QED
    BY <1>1, <1>2

\* obj_register: the reference of its arguments becomes that of the context.
LEMMA RegistrationKeeps ==
    ASSUME PyInv, NEW t \in PyThreads,
           \/ \E r \in Regs : ObjReg(t, r) \/ ObjRegRefused(t, r)
           \/ Register(t) \/ ObjRegReturns(t)
    PROVE  PyInv'
  <1>1. ASSUME NEW r \in Regs, ObjReg(t, r) PROVE PyInv'
    <2> DEFINE f == Frame("obj_register", r, Nobody)
    <2>1. f \in FrameSet /\ f.fn = "obj_register" /\ f.reg = r
      BY DEF FrameSet, Frame, ExtensionFns
    <2>2. /\ Runs(t) /\ frames' = Pushed(t, f) /\ at' = [at EXCEPT ![t] = "outside"] /\ gil' = Nobody
          /\ context[r] = "none" /\ context' = [context EXCEPT ![r] = "live"]
          /\ refs' = [refs EXCEPT ![r] = @ + 1]
          /\ UNCHANGED <<functions, kept, leaked>>
      BY <1>1 DEF ObjReg, Called, ReleasesGil, Args
    <2> HIDE DEF f
    <2>3. /\ at' \in [PyThreads -> PyPlaces]
          /\ frames' \in [PyThreads -> Seq(FrameSet)]
          /\ at'[t] = "outside" /\ \A u \in PyThreads \ {t} : frames'[u] = frames[u] /\ at'[u] = at[u]
          /\ ServerInv'
          /\ \A q \in Regs : Executing(q)' <=> Executing(q)
          /\ \A u \in PyThreads : \A i \in DOMAIN frames'[u] :
                frames'[u][i] = f \/ (i \in DOMAIN frames[u] /\ frames'[u][i] = frames[u][i])
      BY <2>1, <2>2, CallFrames DEF PyInv
    <2>4. PyTyped'
      BY <2>2, <2>3 DEF PyTyped
    <2>5. GilInv'
      BY <2>2, <2>3, ServerThread DEF PyInv, GilInv, Runs
    <2>6. ContextInv'
      <3>1. /\ context' \in [Regs -> {"none", "live", "freed"}] /\ context'[r] = "live"
            /\ \A q \in Regs : context[q] = "live" => context'[q] = "live"
        BY <2>2 DEF PyInv, ContextInv
      <3>2. functions' \subseteq {q \in Regs : context'[q] = "live"}
        BY <2>2, <3>1 DEF PyInv, ContextInv
      <3>3. \A u \in PyThreads : \A i \in DOMAIN frames'[u] :
               frames'[u][i].fn = "obj_register" =>
                  frames'[u][i].reg \in Regs /\ context'[frames'[u][i].reg] = "live"
        BY <2>1, <2>3, <3>1 DEF PyInv, ContextInv
      <3> QED
        BY <3>1, <3>2, <3>3 DEF ContextInv
    <2>7. RefsInv'
      <3>1. refs \in [Regs -> Nat] /\ leaked \in [Regs -> Nat] /\ context \in [Regs -> {"none", "live", "freed"}]
        BY DEF PyInv, ContextInv, RefsInv
      <3>2. /\ refs' \in [Regs -> Nat] /\ refs'[r] = refs[r] + 1 /\ \A q \in Regs \ {r} : refs'[q] = refs[q]
            /\ context'[r] = "live" /\ \A q \in Regs \ {r} : context'[q] = context[q]
        BY <2>2, <3>1
      <3>3. \A q \in Regs : One(Executing(q))' = One(Executing(q))
        BY <2>3 DEF One
      <3>4. \A q \in Regs : refs'[q] = One(q \in kept) + One(context'[q] = "live") + One(Executing(q)) + leaked[q]
        BY <2>2, <3>1, <3>2 DEF PyInv, RefsInv, One
      <3> QED
        BY <2>2, <3>1, <3>2, <3>3, <3>4 DEF RefsInv, One
    <2> QED
      BY <2>3, <2>4, <2>5, <2>6, <2>7 DEF PyInv
  <1>2. ASSUME NEW r \in Regs, ObjRegRefused(t, r) PROVE PyInv'
    <2>1. /\ UNCHANGED <<gil, at, frames, functions, refs, kept, leaked>>
          /\ context[r] = "none" /\ context' = [context EXCEPT ![r] = "freed"]
      BY <1>2 DEF ObjRegRefused
    <2>2. PyTyped' /\ GilInv' /\ ServerInv'
      BY <2>1 DEF PyInv, PyTyped, GilInv, ServerInv, Serving, Top
    <2>3. ContextInv'
      BY <2>1 DEF PyInv, ContextInv
    <2>4. RefsInv'
      BY <2>1 DEF PyInv, ContextInv, RefsInv, One, Executing
    <2> QED
      BY <2>2, <2>3, <2>4 DEF PyInv
  <1>3. CASE Register(t)
    <2>1. /\ at[t] = "outside" /\ In(t, "obj_register") /\ ~Serving
          /\ functions' = functions \cup {Top(t).reg} /\ at' = [at EXCEPT ![t] = "back"]
          /\ UNCHANGED <<gil, frames, context, refs, kept, leaked>>
      BY <1>3 DEF Register
    <2>2. at' \in [PyThreads -> PyPlaces] /\ at'[t] = "back" /\ \A u \in PyThreads \ {t} : at'[u] = at[u]
      BY <2>1 DEF PyInv, PyTyped, PyPlaces
    <2>3. PyTyped' /\ GilInv'
      BY <2>1, <2>2 DEF PyInv, PyTyped, GilInv, Top
    <2>4. t # Server /\ at'[Server] = at[Server]
      BY <2>1, <2>2, ServerThread DEF Serving
    <2>5. ServerInv'
      BY <2>1, <2>4 DEF PyInv, ServerInv, Serving
    <2>6. Top(t).reg \in Regs /\ context[Top(t).reg] = "live"
      <3>1. frames[t] \in Seq(FrameSet) /\ frames[t] # <<>> /\ Top(t).fn = "obj_register"
        BY <2>1 DEF PyInv, PyTyped, In
      <3>2. Len(frames[t]) \in DOMAIN frames[t]
        BY <3>1
      <3> QED
        BY <3>1, <3>2 DEF PyInv, ContextInv, Top
    <2>7. ContextInv'
      BY <2>1, <2>6 DEF PyInv, ContextInv
    <2>8. RefsInv'
      BY <2>1, <2>4, SameRefs DEF PyInv, Executing
    <2> QED
      BY <2>3, <2>5, <2>7, <2>8 DEF PyInv
  <1>4. CASE ObjRegReturns(t)
    <2>1. Top(t).reg \in Regs
      <3>1. frames[t] \in Seq(FrameSet) /\ frames[t] # <<>> /\ Top(t).fn = "obj_register"
        BY <1>4 DEF PyInv, PyTyped, In, ObjRegReturns
      <3>2. Len(frames[t]) \in DOMAIN frames[t]
        BY <3>1
      <3> QED
        BY <3>1, <3>2 DEF PyInv, ContextInv, Top
    <2>2. refs' = refs
      BY <1>4, <2>1 DEF PyInv, RefsInv, ObjRegReturns, Referenced
    <2> QED
      BY <1>4, <2>2, ReturnKeeps DEF ObjRegReturns, TakeGil
  <1> QED
    BY <1>1, <1>2, <1>3, <1>4

\* The library finishes a call, or calls back from it.
LEMMA LibraryKeeps ==
    ASSUME PyInv, NEW t \in PyThreads,
           \/ Finish(t) \/ Return(t) \/ SyncFunction(t) \/ SyncFunctionReturns(t)
           \/ ReturnHeld(t) \/ ServeWithoutCallback(t)
    PROVE  PyInv'
  <1>1. CASE Finish(t)
    <2>1. PICK service \in Started(t) : at' = [at EXCEPT ![Server] = service, ![t] = "back"]
      BY <1>1 DEF Finish
    <2>2. at[t] = "outside" /\ UNCHANGED <<gil, frames, functions, context, refs, kept, leaked>>
      BY <1>1 DEF Finish
    <2>3. CASE service = at[Server]
      <3>1. at' = [at EXCEPT ![t] = "back"]
        BY <2>1, <2>3 DEF PyInv, PyTyped
      <3> QED
        BY <2>2, <3>1, MoveKeeps
    <2>4. CASE service # at[Server]
      <3>1. at[Server] = "off" /\ service = "idle" /\ t # Server
        BY <2>1, <2>2, <2>4 DEF Started
      <3>2. /\ at' \in [PyThreads -> PyPlaces] /\ at'[t] = "back" /\ at'[Server] = "idle"
            /\ \A u \in PyThreads \ {t, Server} : at'[u] = at[u]
        BY <2>1, <3>1, ServerThread DEF PyInv, PyTyped, PyPlaces
      <3>3. PyTyped' /\ GilInv'
        BY <2>2, <3>1, <3>2 DEF PyInv, PyTyped, GilInv, Top
      <3>4. ServerInv' /\ \A r \in Regs : Executing(r)' <=> Executing(r)
        BY <2>2, <3>1, <3>2 DEF PyInv, ServerInv, Serving, Executing
      <3>5. ContextInv' /\ RefsInv'
        BY <2>2, <3>4, SameContext, SameRefs DEF PyInv
      <3> QED
        BY <3>3, <3>4, <3>5 DEF PyInv
    <2> QED
      BY <2>3, <2>4
  <1>2. CASE Return(t)
    BY <1>2, ReturnKeeps DEF Return, TakeGil
  <1>3. CASE SyncFunction(t)
    <2>1. gil = t
      BY <1>3 DEF PyInv, GilInv, SyncFunction
    <2> QED
      BY <1>3, <2>1, MoveKeeps DEF SyncFunction
  <1>4. CASE SyncFunctionReturns(t)
    BY <1>4, MoveKeeps DEF SyncFunctionReturns, Runs
  <1>5. CASE ReturnHeld(t)
    <2>1. gil = t
      BY <1>5 DEF PyInv, GilInv, ReturnHeld
    <2> QED
      BY <1>5, <2>1, ReturnKeeps DEF ReturnHeld
  <1>6. CASE ServeWithoutCallback(t)
    <2>1. UNCHANGED <<gil, functions, context, refs, kept, leaked>>
      BY <1>6 DEF ServeWithoutCallback
    <2>2. CASE at[t] = "held"
      <3>1. frames' = Popped(t) /\ at' = [at EXCEPT ![t] = "python"]
        BY <1>6, <2>2 DEF ServeWithoutCallback, PyInv, PyTyped
      <3>2. gil = t
        BY <2>2 DEF PyInv, GilInv
      <3> QED
        BY <2>1, <2>2, <3>1, <3>2, ReturnKeeps
    <2>3. CASE at[t] # "held"
      <3>1. at[t] = "outside" /\ frames' = frames /\ at' = [at EXCEPT ![t] = "back"]
        BY <1>6, <2>3 DEF ServeWithoutCallback, PyInv, PyTyped
      <3> QED
        BY <2>1, <3>1, MoveKeeps
    <2> QED
      BY <2>2, <2>3
  <1> QED
    BY <1>1, <1>2, <1>3, <1>4, <1>5, <1>6
\* The operation service takes a request, runs the callback and answers.
LEMMA ServiceKeeps ==
    ASSUME PyInv,
           \/ \E r \in Regs, c \in PyThreads \cup {Nobody} : Serve(r, c)
           \/ Execute \/ NoMethod \/ Rollback \/ CallbackReturns
    PROVE  PyInv'
  <1> USE ServerThread
  <1>1. ASSUME NEW r \in Regs, NEW c \in PyThreads \cup {Nobody}, Serve(r, c) PROVE PyInv'
    <2>0. Frame("callback", r, c) \in FrameSet
      BY DEF FrameSet, Frame, ExtensionFns
    <2>1. PICK f \in FrameSet : f = Frame("callback", r, c) /\ f.fn = "callback" /\ f.reg = r
      BY <2>0 DEF Frame
    <2>2. /\ at[Server] = "idle" /\ r \in functions
          /\ frames' = Pushed(Server, f) /\ at' = [at EXCEPT ![Server] = "enter"]
          /\ UNCHANGED <<gil, functions, context, refs, kept, leaked>>
      BY <1>1, <2>1 DEF Serve
    <2>3. /\ at' \in [PyThreads -> PyPlaces] /\ at'[Server] = "enter"
          /\ \A u \in PyThreads \ {Server} : at'[u] = at[u]
      BY <2>2 DEF PyInv, PyTyped, PyPlaces
    <2>4. frames[Server] = <<>>
      BY <2>2 DEF PyInv, ServerInv
    <2>5. /\ frames' \in [PyThreads -> Seq(FrameSet)] /\ frames'[Server] # <<>>
          /\ Len(frames'[Server]) = 1 /\ frames'[Server][1] = f
          /\ \A u \in PyThreads \ {Server} : frames'[u] = frames[u]
      <3>1. Len(frames[Server]) = 0 /\ PyTyped /\ frames' = Pushed(Server, f)
        BY <2>2, <2>4 DEF PyInv
      <3>2. frames' \in [PyThreads -> Seq(FrameSet)] /\ frames'[Server] # <<>>
        BY <3>1, PushedFrames
      <3>3. Len(frames'[Server]) = Len(frames[Server]) + 1
        BY <3>1, PushedFrames
      <3>4. frames'[Server][Len(frames[Server]) + 1] = f
        BY <3>1, PushedFrames
      <3>5. \A u \in PyThreads \ {Server} : frames'[u] = frames[u]
        BY <3>1, PushedFrames
      <3> QED
        BY <3>1, <3>2, <3>3, <3>4, <3>5
    <2>6. DOMAIN frames'[Server] = {1}
      BY <2>5
    <2>7. PyTyped' /\ GilInv'
      BY <2>2, <2>3, <2>5 DEF PyInv, PyTyped, GilInv, Top
    <2>8. ServerInv'
      BY <2>1, <2>2, <2>3, <2>5, <2>6 DEF ServerInv, Serving
    <2>9. ContextInv'
      BY <2>1, <2>2, <2>5, <2>6, SameContext DEF PyInv
    <2>10. RefsInv'
      BY <2>2, <2>3, SameRefs DEF PyInv, Executing
    <2> QED
      BY <2>7, <2>8, <2>9, <2>10 DEF PyInv
  <1>2. CASE Execute
    <2> DEFINE q == frames[Server][1].reg
    <2>1. /\ at[Server] = "enter" /\ gil = Nobody /\ gil' = Server
          /\ refs' = [refs EXCEPT ![Top(Server).reg] = @ + 1]
          /\ at' = [at EXCEPT ![Server] = "python"]
          /\ UNCHANGED <<frames, functions, context, kept, leaked>>
      BY <1>2 DEF Execute, TakeGil, Args
    <2>2. /\ at' \in [PyThreads -> PyPlaces] /\ at'[Server] = "python"
          /\ \A u \in PyThreads \ {Server} : at'[u] = at[u]
      BY <2>1 DEF PyInv, PyTyped, PyPlaces
    <2>3. PyTyped' /\ GilInv'
      BY <2>1, <2>2 DEF PyInv, PyTyped, GilInv, Top
    <2>4. ServerInv' /\ Len(frames[Server]) = 1 /\ q \in functions
      BY <2>1, <2>2 DEF PyInv, ServerInv, Serving
    <2>5. ContextInv' /\ q \in Regs
      BY <2>1, <2>4 DEF PyInv, ContextInv
    <2>6. Top(Server).reg = q
      BY <2>4 DEF Top
    <2>7. \A r \in Regs : ~Executing(r) /\ (Executing(r)' <=> r = q)
      BY <2>1, <2>2 DEF Executing
    <2> HIDE DEF q
    <2>8. RefsInv'
      BY <2>1, <2>5, <2>6, <2>7 DEF PyInv, RefsInv, One
    <2> QED
      BY <2>3, <2>4, <2>5, <2>8 DEF PyInv
  <1>3. CASE NoMethod \/ Rollback \/ CallbackReturns
    <2> DEFINE q == frames[Server][1].reg
    <2>1. /\ frames' = Popped(Server) /\ at' = Answer /\ UNCHANGED <<functions, context, kept>>
          /\ gil' = Nobody /\ gil \in {Server, Nobody}
          /\ at[Server] = "enter" \/ (at[Server] = "python" /\ In(Server, "callback"))
      BY <1>3 DEF NoMethod, Rollback, CallbackReturns, Runs
    <2>2. /\ at' \in [PyThreads -> PyPlaces]
          /\ frames' \in [PyThreads -> Seq(FrameSet)]
          /\ at'[Server] = "idle" /\ frames'[Server] = <<>>
          /\ \A u \in PyThreads \ {Server} : frames'[u] = frames[u] /\ at'[u] \in {at[u], "back"}
          /\ Top(Server).reg = q /\ q \in functions
          /\ ServerInv'
      BY <2>1, AnswerFrames DEF PyInv
    <2>3. PyTyped'
      BY <2>1, <2>2 DEF PyTyped
    <2>4. GilInv'
      BY <2>1, <2>2 DEF PyInv, GilInv
    <2>5. ContextInv' /\ q \in Regs
      <3>1. \A u \in PyThreads : \A i \in DOMAIN frames'[u] :
                i \in DOMAIN frames[u] /\ frames'[u][i] = frames[u][i]
        BY <2>2
      <3>2. ContextInv'
        BY <2>1, <3>1, SameContext DEF PyInv
      <3> QED
        BY <2>2, <3>2 DEF PyInv, ContextInv
    <2>6. \A r \in Regs : ~Executing(r)' /\ (Executing(r) <=> at[Server] = "python" /\ r = q)
      BY <2>1, <2>2 DEF Executing
    <2> HIDE DEF q
    <2>7. CASE NoMethod
      <3>1. /\ at[Server] = "enter"
            /\ refs' = [refs EXCEPT ![q] = @ + 1] /\ leaked' = [leaked EXCEPT ![q] = @ + 1]
        BY <2>2, <2>7 DEF NoMethod, Args
      <3> QED
        <4>1. RefsInv'
          BY <2>1, <2>5, <2>6, <3>1 DEF PyInv, RefsInv, One
        <4> QED
          BY <2>2, <2>3, <2>4, <2>5, <4>1 DEF PyInv
    <2>8. CASE Rollback
      <3>1. at[Server] = "enter" /\ UNCHANGED <<refs, leaked>>
        BY <2>8 DEF Rollback
      <3>2. RefsInv'
        BY <2>1, <2>6, <3>1 DEF PyInv, RefsInv, One
      <3> QED
        BY <2>2, <2>3, <2>4, <2>5, <3>2 DEF PyInv
    <2>9. CASE CallbackReturns
      <3>1. /\ at[Server] = "python" /\ UNCHANGED leaked
            /\ refs' = [refs EXCEPT ![q] = @ - 1]
        BY <2>2, <2>9 DEF CallbackReturns, Runs
      <3>2. RefsInv'
        BY <2>1, <2>5, <2>6, <3>1 DEF PyInv, RefsInv, One
      <3> QED
        BY <2>2, <2>3, <2>4, <2>5, <3>2 DEF PyInv
    <2> QED
      BY <1>3, <2>7, <2>8, <2>9
  <1> QED
    BY <1>1, <1>2, <1>3

\* Every step keeps the invariant.
LEMMA NextInv == PyInv /\ [PyNext]_pyVars => PyInv'
  <1> SUFFICES ASSUME PyInv, [PyNext]_pyVars PROVE PyInv'
    OBVIOUS
  <1>1. ASSUME NEW t \in PyThreads, Resume(t) \/ Interrupt(t) \/ \E r \in Regs : Forget(t, r)
        PROVE  PyInv'
    BY <1>1, InterpreterKeeps
  <1>2. ASSUME NEW t \in PyThreads,
               \/ \E r \in Regs : ObjReg(t, r) \/ ObjRegRefused(t, r)
               \/ Register(t) \/ ObjRegReturns(t)
        PROVE  PyInv'
    BY <1>2, RegistrationKeeps
  <1>3. ASSUME NEW t \in PyThreads,
               \/ ObjInit(t)
               \/ \E own \in BOOLEAN : Get(t, own) \/ Trans(t, own)
               \/ TransRefused(t) \/ EventCall(t) \/ DbCall(t) \/ Stats(t) \/ Sync(t)
        PROVE  PyInv'
    BY <1>3, CallsKeep
  <1>4. ASSUME NEW t \in PyThreads,
               \/ Finish(t) \/ Return(t) \/ SyncFunction(t) \/ SyncFunctionReturns(t)
               \/ ReturnHeld(t) \/ ServeWithoutCallback(t)
        PROVE  PyInv'
    BY <1>4, LibraryKeeps
  <1>5. CASE \/ \E r \in Regs, c \in PyThreads \cup {Nobody} : Serve(r, c)
             \/ Execute \/ NoMethod \/ Rollback \/ CallbackReturns
    BY <1>5, ServiceKeeps
  <1>6. CASE UNCHANGED pyVars
    BY <1>6 DEF pyVars, PyInv, PyTyped, GilInv, ServerInv, ContextInv, RefsInv, One, Executing, Serving, Top
  <1> QED
    BY <1>1, <1>2, <1>3, <1>4, <1>5, <1>6 DEF PyNext

\* A callback's registration is in db_functions, so its context has a reference.
LEMMA AliveFromInv == PyInv => CallbacksAlive
  <1> SUFFICES ASSUME PyInv, NEW i \in DOMAIN frames[Server], frames[Server][i].fn = "callback"
               PROVE  /\ context[frames[Server][i].reg] = "live"
                      /\ refs[frames[Server][i].reg] > 0
    BY DEF CallbacksAlive
  <1>1. i = 1 /\ Serving
    BY DEF PyInv, ServerInv, Serving
  <1>2. frames[Server][i].reg \in Regs /\ context[frames[Server][i].reg] = "live"
    BY <1>1 DEF PyInv, ServerInv, ContextInv
  <1> QED
    BY <1>2 DEF PyInv, RefsInv, One

\* The thread with the GIL waits only in obj_stats; without it in the circle,
\* everyone waits for the service, the service too.
LEMMA NoCycleFromInv == PyInv => NoWaitCycle
  <1> SUFFICES ASSUME PyInv, NEW S \in SUBSET PyThreads, S # {},
                      \A t \in S : \E u \in S : WaitsFor(t, u)
               PROVE  \E t \in S : Misused(t)
    BY DEF NoWaitCycle
  <1>1. CASE gil \in S
    <2>1. at[gil] \in {"python", "held"} /\ gil \in PyThreads
      BY <1>1 DEF PyInv, GilInv
    <2>2. ~WantsGil(gil)
      BY <2>1 DEF WantsGil
    <2>3. NeedsServer(gil)
      BY <1>1, <2>2 DEF WaitsFor
    <2>4. at[gil] = "held"
      BY <2>1, <2>3 DEF NeedsServer, InLibrary
    <2>5. Top(gil).fn \in {"other", "stats", "sync"}
      BY <2>1, <2>4 DEF PyInv, GilInv
    <2> QED
      BY <1>1, <2>3, <2>5 DEF NeedsServer, In, Misused
  <1>2. CASE gil \notin S
    <2>1. \A t \in S : NeedsServer(t) /\ Server \in S
      BY <1>2 DEF WaitsFor
    <2> QED
      BY <2>1 DEF Misused
  <1> QED
    BY <1>1, <1>2

\* For every number of threads and registrations, the context and the
\* dictionary of methods that a callback of the operation service uses are
\* alive (py_cps_obj_reg, _read_function, _write_function).
THEOREM CallbacksStayAlive == PythonSpec => []CallbacksAlive
  <1>1. PythonSpec => []PyInv
    BY InitInv, NextInv, PTL DEF PythonSpec
  <1> QED
    BY <1>1, AliveFromInv, PTL

\* For every number of threads and registrations, threads wait for the GIL and
\* for the operation service in a circle only where a callback calls its own
\* process or obj_stats asks for an own object.
THEOREM NeverWaitInCircle == PythonSpec => []NoWaitCycle
  <1>1. PythonSpec => []PyInv
    BY InitInv, NextInv, PTL DEF PythonSpec
  <1> QED
    BY <1>1, NoCycleFromInv, PTL

-----------------------------------------------------------------------------
(* The subscription: types *)

AllKeys == Keys \cup {GroupKey}
Event == [key : AllKeys, id : Nat]
StateEvent == [node : Nodes, state : BOOLEAN]
GroupSeen == GroupObject \cup {None}

SubscriptionTyped ==
    /\ config \in [Groups -> GroupSeen]
    /\ groups \in [Groups -> GroupSeen]
    /\ groupKeys \in [Groups -> SUBSET AllKeys]
    /\ connections \in SUBSET Nodes
    /\ leftover \in SUBSET Nodes
    /\ groupReg \in [Nodes -> [Groups -> {"none", "due", "done"}]]
    /\ keys \in [Nodes -> SUBSET AllKeys]
    /\ subs \in [Nodes -> SUBSET AllKeys]
    /\ pending \in Seq(StateEvent)
    /\ wire \in [Nodes -> Seq(Event)]
    /\ stash \in [Nodes -> Seq(Event)]
    /\ unread \in [Nodes -> Seq(Event)]
    /\ changes \in Nat

\* The events a round of the maintenance queues for a set of nodes name each
\* of them, in some order, and no other.
LEMMA SetSequence ==
    ASSUME NEW S, IsFiniteSet(S)
    PROVE  /\ SetToSeq(S) \in Seq(S)
           /\ \A x \in S : \E i \in DOMAIN SetToSeq(S) : SetToSeq(S)[i] = x
  <1> DEFINE n == Cardinality(S)
             s == SetToSeq(S)
  <1>1. n \in Nat /\ ExistsBijection(1..n, S)
    BY FS_CardinalityType
  <1>2. PICK f \in Bijection(1..n, S) : TRUE
    BY <1>1 DEF ExistsBijection
  <1>3. f \in [1..n -> S] /\ IsInjective(f)
    BY <1>2 DEF Bijection, Injection
  <1>4. s \in [1..n -> S] /\ IsInjective(s)
    <2> HIDE DEF n
    <2>1. s = CHOOSE g \in [1..n -> S] : IsInjective(g)
      BY DEF SetToSeq, n
    <2> QED
      BY <1>3, <2>1
  <1> HIDE DEF s
  <1>5. s \in Injection(1..n, S)
    BY <1>4 DEF Injection
  <1>6. IsFiniteSet(1..n) /\ Cardinality(1..n) = n
    BY <1>1, FS_Interval
  <1>7. s \in Surjection(1..n, S)
    BY <1>5, <1>6, FS_Injection
  <1> HIDE DEF n
  <1>8. s \in Seq(S) /\ DOMAIN s = 1..n
    BY <1>1, <1>4
  <1>9. \A x \in S : \E i \in 1..n : s[i] = x
    BY <1>7 DEF Surjection
  <1> QED
    BY <1>8, <1>9 DEF s

LEMMA StateEventsOf ==
    ASSUME NEW ns \in SUBSET Nodes, NEW state \in BOOLEAN
    PROVE  /\ StateEvents(ns, state) \in Seq(StateEvent)
           /\ \A i \in DOMAIN StateEvents(ns, state) :
                  StateEvents(ns, state)[i].node \in ns /\ StateEvents(ns, state)[i].state = state
           /\ \A n \in ns : \E i \in DOMAIN StateEvents(ns, state) : StateEvents(ns, state)[i].node = n
  <1> DEFINE T == {[node |-> n, state |-> state] : n \in ns}
             f == [n \in ns |-> [node |-> n, state |-> state]]
  <1>1. IsFiniteSet(ns)
    BY SubscriptionAssumption, FS_Subset
  <1>2. f \in Surjection(ns, T)
    BY DEF Surjection
  <1>3. IsFiniteSet(T)
    <2> HIDE DEF f, T
    <2> QED
      BY <1>1, <1>2, FS_Surjection
  <1> DEFINE s == SetToSeq(T)
  <1>4. s \in Seq(T) /\ \A x \in T : \E i \in DOMAIN s : s[i] = x
    <2> HIDE DEF T
    <2> QED
      BY <1>3, SetSequence
  <1>5. StateEvents(ns, state) = s
    BY DEF StateEvents
  <1> HIDE DEF s
  <1>6. T \subseteq StateEvent
    BY DEF StateEvent
  <1>7. s \in Seq(StateEvent)
    <2> HIDE DEF T
    <2> QED
      BY <1>4, <1>6
  <1>8. \A i \in DOMAIN s : s[i] \in T
    <2> HIDE DEF T
    <2> QED
      BY <1>4
  <1>9. \A n \in ns : \E i \in DOMAIN s : s[i].node = n
    <2> SUFFICES ASSUME NEW n \in ns PROVE \E i \in DOMAIN s : s[i].node = n
      OBVIOUS
    <2>1. [node |-> n, state |-> state] \in T
      OBVIOUS
    <2>2. PICK i \in DOMAIN s : s[i] = [node |-> n, state |-> state]
      <3> HIDE DEF T
      <3> QED
        BY <1>4, <2>1
    <2> QED
      BY <2>2
  <1> QED
    BY <1>5, <1>7, <1>8, <1>9

LEMMA MembersNodes ==
    ASSUME SubscriptionTyped, NEW g \in Groups
    PROVE  Members(g) \in SUBSET Nodes
  <1>1. groups[g] \in GroupSeen
    BY DEF SubscriptionTyped
  <1>2. CASE groups[g] = None
    BY <1>2, NodeSetAssumption DEF Members, NodesOf
  <1>3. CASE groups[g] # None
    <2>1. groups[g].nodes \in SUBSET Nodes
      BY <1>1, <1>3 DEF GroupSeen, GroupObject
    <2> QED
      BY <1>1, <1>3, <2>1, NodeSetAssumption DEF Members, NodesOf
  <1> QED
    BY <1>2, <1>3

-----------------------------------------------------------------------------
(* What the connection events tell *)

\* The last event about a node counts.
LEMMA ToldAppended ==
    ASSUME NEW seen, NEW p \in Seq(StateEvent), NEW ns \in SUBSET Nodes, NEW state \in BOOLEAN, NEW n \in Nodes
    PROVE  Told(seen, p \o StateEvents(ns, state), n) <=> IF n \in ns THEN state ELSE Told(seen, p, n)
  <1> DEFINE q == StateEvents(ns, state)
             r == p \o q
  <1>1. /\ q \in Seq(StateEvent)
        /\ \A i \in DOMAIN q : q[i].node \in ns /\ q[i].state = state
        /\ \A m \in ns : \E i \in DOMAIN q : q[i].node = m
    BY StateEventsOf
  <1> HIDE DEF q
  <1>2. /\ r \in Seq(StateEvent) /\ Len(r) = Len(p) + Len(q) /\ Len(p) \in Nat /\ Len(q) \in Nat
        /\ \A i \in 1..Len(p) : r[i] = p[i]
        /\ \A i \in 1..Len(q) : r[Len(p) + i] = q[i]
        /\ DOMAIN r = 1..(Len(p) + Len(q)) /\ DOMAIN p = 1..Len(p) /\ DOMAIN q = 1..Len(q)
    BY <1>1
  <1>3. \A i \in DOMAIN r : \/ i \in DOMAIN p /\ r[i] = p[i]
                            \/ i > Len(p) /\ i - Len(p) \in DOMAIN q /\ r[i] = q[i - Len(p)]
    <2> SUFFICES ASSUME NEW i \in DOMAIN r, ~(i \in DOMAIN p)
                 PROVE  i > Len(p) /\ i - Len(p) \in DOMAIN q /\ r[i] = q[i - Len(p)]
      BY <1>2
    <2>1. i > Len(p) /\ i - Len(p) \in 1..Len(q) /\ Len(p) + (i - Len(p)) = i
      BY <1>2
    <2> QED
      BY <1>2, <2>1
  <1>4. \A i \in DOMAIN p : i \in DOMAIN r /\ r[i] = p[i] /\ i <= Len(p)
    BY <1>2
  <1>5. \A i \in DOMAIN q : Len(p) + i \in DOMAIN r /\ r[Len(p) + i] = q[i] /\ Len(p) + i > Len(p)
    BY <1>2
  <1> HIDE DEF r
  <1>6. CASE n \notin ns
    <2>1. \A i \in DOMAIN r : r[i].node = n => i \in DOMAIN p /\ r[i] = p[i]
      BY <1>1, <1>3, <1>6
    <2>2. \A i \in DOMAIN r : r[i].node = n <=> i \in DOMAIN p /\ p[i].node = n
      BY <1>4, <2>1
    <2>3. \A i \in DOMAIN p : p[i].node = n <=> r[i].node = n
      BY <1>4
    <2>4. Told(seen, r, n) <=> Told(seen, p, n)
      BY <1>4, <2>1, <2>3 DEF Told
    <2> QED
      BY <1>6, <2>4 DEF r, q
  <1>7. CASE n \in ns
    <2>1. PICK k \in DOMAIN q : q[k].node = n
      BY <1>1, <1>7
    <2>2. Len(p) + k \in DOMAIN r /\ r[Len(p) + k].node = n /\ Len(p) + k > Len(p) /\ Len(p) + k \in Nat
      BY <1>2, <1>5, <2>1
    <2>3. Told(seen, r, n) => state
      <3> SUFFICES ASSUME NEW i \in DOMAIN r, r[i].node = n, r[i].state,
                          \A j \in DOMAIN r : r[j].node = n => j <= i
                   PROVE  state
        BY <2>2 DEF Told
      <3>1. Len(p) + k <= i
        BY <2>2
      <3>2. i \notin DOMAIN p
        BY <1>2, <2>2, <3>1
      <3>3. i - Len(p) \in DOMAIN q /\ r[i] = q[i - Len(p)]
        BY <1>3, <3>2
      <3> QED
        BY <1>1, <3>3
    <2>4. state => Told(seen, r, n)
      <3> SUFFICES ASSUME state PROVE Told(seen, r, n)
        OBVIOUS
      <3> DEFINE B == {Len(r) - i : i \in {m \in DOMAIN r : r[m].node = n}}
      <3>1. \E i \in DOMAIN r : r[i].node = n /\ \A j \in DOMAIN r : r[j].node = n => j <= i
        <4>1. B \in SUBSET Nat /\ Len(r) - (Len(p) + k) \in B
          BY <1>2, <2>2
        <4>2. PICK b \in B : \A d \in B : b <= d
          <5> HIDE DEF B
          <5> QED
            BY <4>1, LeastNumber
        <4>3. PICK i \in DOMAIN r : r[i].node = n /\ b = Len(r) - i
          BY <4>2
        <4>4. ASSUME NEW j \in DOMAIN r, r[j].node = n PROVE j <= i
          <5>1. Len(r) - j \in B
            BY <4>4
          <5>2. b <= Len(r) - j
            BY <4>2, <5>1
          <5>3. i \in Nat /\ j \in Nat /\ Len(r) \in Nat
            BY <1>2
          <5> QED
            BY <4>3, <5>2, <5>3
        <4> QED
          BY <4>3, <4>4
      <3>2. PICK i \in DOMAIN r : r[i].node = n /\ \A j \in DOMAIN r : r[j].node = n => j <= i
        BY <3>1
      <3>3. Len(p) + k <= i
        BY <2>2, <3>2
      <3>4. i \notin DOMAIN p
        BY <1>2, <2>2, <3>3
      <3>5. i - Len(p) \in DOMAIN q /\ r[i] = q[i - Len(p)]
        BY <1>3, <3>4
      <3>6. r[i].state
        BY <1>1, <3>5
      <3> QED
        BY <3>2, <3>6 DEF Told
    <2> QED
      BY <1>7, <2>3, <2>4 DEF r, q
  <1> QED
    BY <1>6, <1>7

\* Giving the first event to the application changes nothing about what it will know.
LEMMA ToldFirst ==
    ASSUME NEW seen, NEW p \in Seq(StateEvent), p # <<>>, NEW n \in Nodes,
           NEW now, now = IF Head(p).state THEN seen \cup {Head(p).node} ELSE seen \ {Head(p).node}
    PROVE  Told(now, Tail(p), n) <=> Told(seen, p, n)
  <1> DEFINE t == Tail(p)
  <1>1. /\ t \in Seq(StateEvent) /\ Len(t) = Len(p) - 1 /\ Len(p) \in Nat /\ Len(p) >= 1 /\ Head(p) = p[1]
        /\ \A i \in 1..Len(t) : t[i] = p[i + 1]
        /\ DOMAIN t = 1..Len(t) /\ DOMAIN p = 1..Len(p)
    OBVIOUS
  <1> HIDE DEF t
  <1>2. \A i \in DOMAIN t : i + 1 \in DOMAIN p /\ t[i] = p[i + 1]
    BY <1>1
  <1>3. \A i \in DOMAIN p : i = 1 \/ (i - 1 \in DOMAIN t /\ p[i] = t[i - 1])
    <2> SUFFICES ASSUME NEW i \in DOMAIN p, i # 1 PROVE i - 1 \in DOMAIN t /\ p[i] = t[i - 1]
      OBVIOUS
    <2>1. i - 1 \in 1..Len(t) /\ (i - 1) + 1 = i
      BY <1>1
    <2> QED
      BY <1>1, <2>1
  <1>4. 1 \in DOMAIN p /\ p[1].state \in BOOLEAN
    <2>1. p[1] \in StateEvent /\ 1 \in DOMAIN p
      BY <1>1
    <2> QED
      BY <2>1 DEF StateEvent
  <1>5. CASE \E i \in DOMAIN t : t[i].node = n
    <2>1. \E i \in DOMAIN p : p[i].node = n
      BY <1>2, <1>5
    <2>2. Told(now, t, n) => Told(seen, p, n)
      <3> SUFFICES ASSUME NEW i \in DOMAIN t, t[i].node = n, t[i].state, \A j \in DOMAIN t : t[j].node = n => j <= i
                   PROVE  Told(seen, p, n)
        BY <1>5 DEF Told
      <3>1. i + 1 \in DOMAIN p /\ p[i + 1].node = n /\ p[i + 1].state
        BY <1>2
      <3>2. ASSUME NEW j \in DOMAIN p, p[j].node = n PROVE j <= i + 1
        <4>1. CASE j = 1
          BY <1>1, <4>1
        <4>2. CASE j # 1
          <5>1. j - 1 \in DOMAIN t /\ t[j - 1].node = n
            BY <1>3, <3>2, <4>2
          <5>2. j - 1 <= i
            BY <5>1
          <5> QED
            BY <1>1, <5>2
        <4> QED
          BY <4>1, <4>2
      <3> QED
        BY <2>1, <3>1, <3>2 DEF Told
    <2>3. Told(seen, p, n) => Told(now, t, n)
      <3> SUFFICES ASSUME NEW i \in DOMAIN p, p[i].node = n, p[i].state, \A j \in DOMAIN p : p[j].node = n => j <= i
                   PROVE  Told(now, t, n)
        BY <2>1 DEF Told
      <3>1. PICK k \in DOMAIN t : t[k].node = n
        BY <1>5
      <3>2. k + 1 \in DOMAIN p /\ p[k + 1].node = n
        BY <1>2, <3>1
      <3>3. k + 1 <= i
        BY <3>2
      <3>4. i # 1
        BY <1>1, <3>3
      <3>5. i - 1 \in DOMAIN t /\ p[i] = t[i - 1]
        BY <1>3, <3>4
      <3>6. ASSUME NEW j \in DOMAIN t, t[j].node = n PROVE j <= i - 1
        <4>1. j + 1 \in DOMAIN p /\ p[j + 1].node = n
          BY <1>2, <3>6
        <4>2. j + 1 <= i
          BY <4>1
        <4> QED
          BY <1>1, <4>2
      <3> QED
        BY <1>5, <3>5, <3>6 DEF Told
    <2> QED
      BY <2>2, <2>3 DEF t
  <1>6. CASE ~ \E i \in DOMAIN t : t[i].node = n
    <2>1. \A i \in DOMAIN p : p[i].node = n => i = 1
      BY <1>3, <1>6
    <2>2. Told(now, t, n) <=> n \in now
      BY <1>6 DEF Told
    <2>3. CASE p[1].node = n
      <3>1. Told(seen, p, n) <=> p[1].state
        BY <1>4, <2>1, <2>3 DEF Told
      <3>2. n \in now <=> p[1].state
        BY <1>1, <1>4, <2>3
      <3> QED
        BY <2>2, <3>1, <3>2 DEF t
    <2>4. CASE p[1].node # n
      <3>1. Told(seen, p, n) <=> n \in seen
        BY <2>1, <2>4 DEF Told
      <3>2. n \in now <=> n \in seen
        BY <1>1, <1>4, <2>4
      <3> QED
        BY <2>2, <3>1, <3>2 DEF t
    <2> QED
      BY <2>3, <2>4
  <1> QED
    BY <1>5, <1>6

-----------------------------------------------------------------------------
(* The inductive invariant *)

\* What counts as subscribed on a connection, the node has subscribed.
KeysSubscribed == \A n \in connections : keys[n] \subseteq subs[n]

SubscriptionInv ==
    /\ SubscriptionTyped
    /\ StateEventsTrue
    /\ EventsKeptInOrder
    /\ KeysSubscribed
    /\ KeysMissedOnlyByRejoin

LEMMA InitSubscription == Init => SubscriptionInv
  <1> SUFFICES ASSUME Init PROVE SubscriptionInv
    OBVIOUS
  <1>1. config \in [Groups -> GroupSeen] /\ groups \in [Groups -> GroupSeen] 
    BY DEF Init, NodeSetInit, GroupSeen, GroupObject, GroupTypes, NoGroups
  <1>2. /\ groupKeys \in [Groups -> SUBSET AllKeys]
        /\ keys \in [Nodes -> SUBSET AllKeys] /\ subs \in [Nodes -> SUBSET AllKeys]
        /\ groupReg \in [Nodes -> [Groups -> {"none", "due", "done"}]]
    BY DEF Init, AllKeys
  <1>3. /\ connections = {} /\ leftover = {} /\ pending = <<>> /\ view = {}
        /\ changes = 0
        /\ wire = [n \in Nodes |-> <<>>] /\ stash = [n \in Nodes |-> <<>>] /\ unread = [n \in Nodes |-> <<>>]
    BY DEF Init
  <1>4. <<>> \in Seq(Event) /\ <<>> \in Seq(StateEvent)
    OBVIOUS
  <1>5. SubscriptionTyped
    BY <1>1, <1>2, <1>3, <1>4 DEF SubscriptionTyped
  <1>6. StateEventsTrue
    BY <1>3 DEF StateEventsTrue, Told
  <1> QED
    BY <1>3, <1>5, <1>6
       DEF SubscriptionInv, EventsKeptInOrder, KeysSubscribed, KeysMissedOnlyByRejoin

\* What stays when a step leaves everything alone that the invariant is about.
known == <<config, groups, groupKeys, connections, groupReg, keys, pending,
           broken, subs, wire, stash, unread, view, missed, changes>>

LEMMA KnownKept ==
    ASSUME SubscriptionInv, known' = known, leftover' \in SUBSET Nodes
    PROVE  SubscriptionInv'
  BY DEF SubscriptionInv, SubscriptionTyped, StateEventsTrue, EventsKeptInOrder, KeysSubscribed,
         KeysMissedOnlyByRejoin, known

LEMMA ConcatInSeq == \A S : \A s, t \in Seq(S) : s \o t \in Seq(S)
  OBVIOUS

\* Connections are dropped or made, and what belonged to them is forgotten.
LEMMA Forgetting ==
    ASSUME SubscriptionTyped, NEW ns, NEW asked, ForgetNodes(ns, asked)
    PROVE  /\ keys' \in [Nodes -> SUBSET AllKeys] /\ subs' \in [Nodes -> SUBSET AllKeys]
           /\ wire' \in [Nodes -> Seq(Event)] /\ stash' \in [Nodes -> Seq(Event)] /\ unread' \in [Nodes -> Seq(Event)]
           /\ \A n \in Nodes :
                  IF n \in ns
                  THEN keys'[n] = {} /\ subs'[n] = {} /\ wire'[n] = <<>> /\ stash'[n] = <<>> /\ unread'[n] = <<>>
                  ELSE /\ keys'[n] = keys[n] /\ subs'[n] = subs[n] /\ unread'[n] = unread[n]
                       /\ wire'[n] = IF n \in asked THEN <<>> ELSE wire[n]
                       /\ stash'[n] = IF n \in asked THEN stash[n] \o wire[n] ELSE stash[n]
           /\ broken' = broken \ ns
           /\ missed' = {m \in missed : m[1] \notin ns}
  <1>1. <<>> \in Seq(Event) /\ {} \in SUBSET AllKeys
    OBVIOUS
  <1>2. /\ keys \in [Nodes -> SUBSET AllKeys] /\ subs \in [Nodes -> SUBSET AllKeys]
        /\ wire \in [Nodes -> Seq(Event)] /\ stash \in [Nodes -> Seq(Event)] /\ unread \in [Nodes -> Seq(Event)]
    BY DEF SubscriptionTyped
  <1>3. /\ keys' = Emptied(keys, ns, {}) /\ subs' = Emptied(subs, ns, {}) /\ wire' = Emptied(wire, ns \cup asked, <<>>)
        /\ stash' = Emptied(Interleaved(asked), ns, <<>>) /\ unread' = Emptied(unread, ns, <<>>)
        /\ broken' = broken \ ns /\ missed' = {m \in missed : m[1] \notin ns}
    BY DEF ForgetNodes, ForgetWith
  <1>4. keys' \in [Nodes -> SUBSET AllKeys] /\ \A n \in Nodes : keys'[n] = IF n \in ns THEN {} ELSE keys[n]
    BY <1>1, <1>2, <1>3 DEF Emptied
  <1>5. subs' \in [Nodes -> SUBSET AllKeys] /\ \A n \in Nodes : subs'[n] = IF n \in ns THEN {} ELSE subs[n]
    BY <1>1, <1>2, <1>3 DEF Emptied
  <1>6. /\ wire' \in [Nodes -> Seq(Event)]
        /\ \A n \in Nodes : wire'[n] = IF n \in ns \/ n \in asked THEN <<>> ELSE wire[n]
    BY <1>1, <1>2, <1>3 DEF Emptied
  <1>7. /\ stash' \in [Nodes -> Seq(Event)]
        /\ \A n \in Nodes :
               stash'[n] = IF n \in ns THEN <<>> ELSE IF n \in asked THEN stash[n] \o wire[n] ELSE stash[n]
    <2>1. \A n \in Nodes : stash[n] \o wire[n] \in Seq(Event)
      BY <1>2, ConcatInSeq
    <2>2. stash' = [n \in Nodes |-> IF n \in ns THEN <<>>
                                    ELSE IF n \in asked THEN stash[n] \o wire[n] ELSE stash[n]]
      BY <1>3 DEF Emptied, Interleaved
    <2> QED
      BY <1>1, <1>2, <2>1, <2>2
  <1>8. unread' \in [Nodes -> Seq(Event)] /\ \A n \in Nodes : unread'[n] = IF n \in ns THEN <<>> ELSE unread[n]
    BY <1>1, <1>2, <1>3 DEF Emptied
  <1> QED
    BY <1>3, <1>4, <1>5, <1>6, <1>7, <1>8

LEMMA ForgettingInv ==
    ASSUME SubscriptionInv, NEW ns, NEW asked, ForgetNodes(ns, asked), connections' \in SUBSET Nodes,
           \A n \in connections' : n \in connections \/ n \in ns,
           UNCHANGED groupKeys,
           \A n \in Nodes, g \in Groups : groupReg'[n][g] = "done" => n \notin ns /\ groupReg[n][g] = "done"
    PROVE  (EventsKeptInOrder /\ KeysSubscribed /\ KeysMissedOnlyByRejoin)'
  <1>0. SubscriptionTyped /\ EventsKeptInOrder /\ KeysSubscribed /\ KeysMissedOnlyByRejoin
    BY DEF SubscriptionInv
  <1>1. /\ \A n \in Nodes :
               IF n \in ns
               THEN keys'[n] = {} /\ subs'[n] = {} /\ wire'[n] = <<>> /\ stash'[n] = <<>> /\ unread'[n] = <<>>
               ELSE /\ keys'[n] = keys[n] /\ subs'[n] = subs[n] /\ unread'[n] = unread[n]
                    /\ wire'[n] = IF n \in asked THEN <<>> ELSE wire[n]
                    /\ stash'[n] = IF n \in asked THEN stash[n] \o wire[n] ELSE stash[n]
        /\ broken' = broken \ ns
        /\ missed' = {m \in missed : m[1] \notin ns}
    BY <1>0, Forgetting
  <1>2. EventsKeptInOrder'
    <2> SUFFICES ASSUME NEW n \in connections' PROVE unread'[n] = stash'[n] \o wire'[n]
      BY DEF EventsKeptInOrder
    <2>1. CASE n \in ns
      <3>1. <<>> \o <<>> = <<>>
        OBVIOUS
      <3> QED
        BY <1>1, <2>1, <3>1
    <2>2. CASE n \notin ns
      <3>1. n \in Nodes /\ unread[n] = stash[n] \o wire[n] /\ unread'[n] = unread[n]
        BY <1>0, <1>1, <2>2 DEF EventsKeptInOrder
      <3>2. stash[n] \in Seq(Event) /\ wire[n] \in Seq(Event)
        BY <1>0, <3>1 DEF SubscriptionTyped
      <3>3. stash[n] \o wire[n] \in Seq(Event)
        BY <3>2, ConcatInSeq
      <3>4. (stash[n] \o wire[n]) \o <<>> = stash[n] \o wire[n]
        BY <3>3
      <3> QED
        BY <1>1, <2>2, <3>1, <3>4
    <2> QED
      BY <2>1, <2>2
  <1>3. KeysSubscribed'
    <2> SUFFICES ASSUME NEW n \in connections' PROVE keys'[n] \subseteq subs'[n]
      BY DEF KeysSubscribed
    <2>1. n \notin ns => keys[n] \subseteq subs[n]
      BY <1>0 DEF KeysSubscribed
    <2> QED
      BY <1>1, <2>1
  <1>4. KeysMissedOnlyByRejoin'
    <2> SUFFICES ASSUME NEW n \in connections', n \notin broken', NEW g \in Groups, groupReg'[n][g] = "done",
                        NEW k \in groupKeys[g]
                 PROVE  k \in subs'[n] \/ <<n, g, k>> \in missed'
      BY DEF KeysMissedOnlyByRejoin
    <2>1. n \notin ns /\ groupReg[n][g] = "done" /\ n \in connections /\ n \notin broken /\ subs'[n] = subs[n]
      BY <1>1
    <2>2. k \in subs[n] \/ <<n, g, k>> \in missed
      BY <1>0, <2>1 DEF KeysMissedOnlyByRejoin
    <2> QED
      BY <1>1, <2>1, <2>2
  <1> QED
    BY <1>2, <1>3, <1>4

-----------------------------------------------------------------------------
(* Maintaining the connections *)

LEMMA CheckGroupInv ==
    ASSUME SubscriptionInv, NEW g \in Groups, NEW idle, CheckGroup(g, idle)
    PROVE  SubscriptionInv'
  <1> DEFINE new == (Members(g) \cap reachable) \ connections
             pinged == (Members(g) \cap connections \cap idle) \ broken
             dead == Members(g) \cap connections \cap broken \cap idle
             stays == (Members(g) \cap (connections \cup new)) \ dead
  <1>0. SubscriptionTyped /\ StateEventsTrue
    BY DEF SubscriptionInv
  <1>1. Members(g) \in SUBSET Nodes
    BY <1>0, MembersNodes
  <1>2. /\ new \in SUBSET Nodes /\ dead \in SUBSET Nodes /\ new \cap connections = {} /\ dead \subseteq connections
    BY <1>1
  <1>3. /\ connections' = (connections \cup new) \ dead
        /\ pending' = pending \o StateEvents(new, TRUE) \o StateEvents(dead, FALSE)
        /\ ForgetNodes(new \cup dead, pinged)
        /\ groupReg' = [n \in Nodes |->
               LET r == IF n \in new \cup dead THEN NoRegs ELSE groupReg[n]
               IN IF n \in stays /\ r[g] = "none" THEN [r EXCEPT ![g] = "due"] ELSE r]
        /\ leftover' = leftover \ stays
        /\ UNCHANGED <<config, groups, groupKeys, view, changes>>
    BY DEF CheckGroup, LookUp, nodeSetVars, dbVars, processVars
  <1> HIDE DEF new, pinged, dead, stays
  <1>4. connections' \in SUBSET Nodes /\ \A n \in connections' : n \in connections \/ n \in new \cup dead
    BY <1>0, <1>2, <1>3 DEF SubscriptionTyped
  <1>5. /\ groupReg' \in [Nodes -> [Groups -> {"none", "due", "done"}]]
        /\ \A n \in Nodes, h \in Groups :
               groupReg'[n][h] = "done" => n \notin new \cup dead /\ groupReg[n][h] = "done"
    <2>1. groupReg \in [Nodes -> [Groups -> {"none", "due", "done"}]]
      BY <1>0 DEF SubscriptionTyped
    <2> DEFINE R(n) == IF n \in new \cup dead THEN NoRegs ELSE groupReg[n]
               S(n) == IF n \in stays /\ R(n)[g] = "none" THEN [R(n) EXCEPT ![g] = "due"] ELSE R(n)
    <2>2. \A n \in Nodes : /\ R(n) \in [Groups -> {"none", "due", "done"}]
                           /\ \A h \in Groups : R(n)[h] = "done" => n \notin new \cup dead /\ groupReg[n][h] = "done"
      BY <2>1 DEF NoRegs
    <2>3. groupReg' = [n \in Nodes |-> S(n)]
      BY <1>3
    <2> HIDE DEF R
    <2>4. \A n \in Nodes : /\ S(n) \in [Groups -> {"none", "due", "done"}]
                           /\ \A h \in Groups : S(n)[h] = "done" => R(n)[h] = "done"
      BY <2>2
    <2> HIDE DEF S
    <2> QED
      BY <2>2, <2>3, <2>4
  <1>6. (EventsKeptInOrder /\ KeysSubscribed /\ KeysMissedOnlyByRejoin)'
    BY <1>3, <1>4, <1>5, ForgettingInv
  <1>7. pending \in Seq(StateEvent) /\ StateEvents(new, TRUE) \in Seq(StateEvent) /\ StateEvents(dead, FALSE) \in Seq(StateEvent)
    BY <1>0, <1>2, StateEventsOf DEF SubscriptionTyped
  <1>8. pending \o StateEvents(new, TRUE) \in Seq(StateEvent) /\ pending' \in Seq(StateEvent)
    BY <1>3, <1>7, ConcatInSeq
  <1>9. SubscriptionTyped'
    BY <1>0, <1>3, <1>4, <1>5, <1>8, Forgetting DEF SubscriptionTyped
  <1>10. StateEventsTrue'
    <2> SUFFICES ASSUME NEW n \in Nodes PROVE Told(view, pending', n) <=> n \in connections'
      BY <1>3 DEF StateEventsTrue
    <2>1. Told(view, pending', n) <=> IF n \in dead THEN FALSE ELSE Told(view, pending \o StateEvents(new, TRUE), n)
      BY <1>2, <1>3, <1>8, ToldAppended
    <2>2. Told(view, pending \o StateEvents(new, TRUE), n) <=> IF n \in new THEN TRUE ELSE Told(view, pending, n)
      BY <1>2, <1>7, ToldAppended
    <2>3. Told(view, pending, n) <=> n \in connections
      BY <1>0 DEF StateEventsTrue
    <2> QED
      BY <1>2, <1>3, <2>1, <2>2, <2>3
  <1> QED
    BY <1>6, <1>9, <1>10 DEF SubscriptionInv

\* disconnect_node.
LEMMA DisconnectInv ==
    ASSUME SubscriptionInv, NEW ns \in SUBSET Nodes, disconnect_node(ns),
           groupReg' \in [Nodes -> [Groups -> {"none", "due", "done"}]],
           \A n \in Nodes, g \in Groups : groupReg'[n][g] = "done" => n \notin ns /\ groupReg[n][g] = "done",
           UNCHANGED <<config, groups, groupKeys, view, changes>>,
           leftover' \in SUBSET Nodes
    PROVE  SubscriptionInv'
  <1>0. SubscriptionTyped /\ StateEventsTrue
    BY DEF SubscriptionInv
  <1>1. connections' = connections \ ns /\ pending' = pending \o StateEvents(ns, FALSE) /\ ForgetNodes(ns, {})
    BY DEF disconnect_node
  <1>2. connections' \in SUBSET Nodes /\ \A n \in connections' : n \in connections \/ n \in ns
    BY <1>0, <1>1 DEF SubscriptionTyped
  <1>3. (EventsKeptInOrder /\ KeysSubscribed /\ KeysMissedOnlyByRejoin)'
    BY <1>1, <1>2, ForgettingInv
  <1>4. pending \in Seq(StateEvent) /\ StateEvents(ns, FALSE) \in Seq(StateEvent)
    BY <1>0, StateEventsOf DEF SubscriptionTyped
  <1>5. pending' \in Seq(StateEvent)
    BY <1>1, <1>4, ConcatInSeq
  <1>6. SubscriptionTyped'
    BY <1>0, <1>1, <1>2, <1>5, Forgetting DEF SubscriptionTyped
  <1>7. StateEventsTrue'
    <2> SUFFICES ASSUME NEW n \in Nodes PROVE Told(view, pending', n) <=> n \in connections'
      BY DEF StateEventsTrue
    <2>1. Told(view, pending', n) <=> IF n \in ns THEN FALSE ELSE Told(view, pending, n)
      BY <1>1, <1>4, ToldAppended
    <2>2. Told(view, pending, n) <=> n \in connections
      BY <1>0 DEF StateEventsTrue
    <2> QED
      BY <1>1, <2>1, <2>2
  <1> QED
    BY <1>3, <1>6, <1>7 DEF SubscriptionInv

LEMMA EndCheckInv == SubscriptionInv /\ EndCheck => SubscriptionInv'
  <1> SUFFICES ASSUME SubscriptionInv, EndCheck PROVE SubscriptionInv'
    OBVIOUS
  <1>1. leftover \in SUBSET Nodes /\ groupReg \in [Nodes -> [Groups -> {"none", "due", "done"}]]
    BY DEF SubscriptionInv, SubscriptionTyped
  <1>2. /\ disconnect_node(leftover) /\ groupReg' = Emptied(groupReg, leftover, NoRegs) /\ leftover' = {}
        /\ UNCHANGED <<config, groups, groupKeys, view, changes>>
    BY DEF EndCheck, nodeSetVars, dbVars, processVars
  <1>3. /\ groupReg' \in [Nodes -> [Groups -> {"none", "due", "done"}]]
        /\ \A n \in Nodes, g \in Groups : groupReg'[n][g] = "done" => n \notin leftover /\ groupReg[n][g] = "done"
    BY <1>1, <1>2 DEF Emptied, NoRegs
  <1> QED
    BY <1>1, <1>2, <1>3, DisconnectInv

LEMMA ReadErrorInv ==
    ASSUME SubscriptionInv, NEW n \in Nodes, ReadError(n)
    PROVE  SubscriptionInv'
  <1>1. leftover \in SUBSET Nodes /\ groupReg \in [Nodes -> [Groups -> {"none", "due", "done"}]]
    BY DEF SubscriptionInv, SubscriptionTyped
  <1>2. /\ disconnect_node({n}) /\ groupReg' = [groupReg EXCEPT ![n] = NoRegs] /\ leftover' = leftover
        /\ UNCHANGED <<config, groups, groupKeys, view, changes>>
    BY DEF ReadError, nodeSetVars, dbVars, processVars
  <1>3. /\ groupReg' \in [Nodes -> [Groups -> {"none", "due", "done"}]]
        /\ \A m \in Nodes, g \in Groups : groupReg'[m][g] = "done" => m \notin {n} /\ groupReg[m][g] = "done"
    BY <1>1, <1>2 DEF NoRegs
  <1> QED
    BY <1>1, <1>2, <1>3, DisconnectInv

LEMMA ResyncGroupInv ==
    ASSUME SubscriptionInv, NEW g \in Groups, ResyncGroup(g)
    PROVE  SubscriptionInv'
  <1> DEFINE due == {n \in Members(g) \cap connections : groupReg[n][g] # "done"}
             lost == {n \in due \cap broken : ~ groupKeys[g] \subseteq keys[n]}
             done == due \ lost
             asked == {n \in done : ~ groupKeys[g] \subseteq keys[n]}
  <1>0. /\ SubscriptionTyped /\ StateEventsTrue /\ EventsKeptInOrder /\ KeysSubscribed /\ KeysMissedOnlyByRejoin
    BY DEF SubscriptionInv
  <1>1. /\ connections' = connections \ lost
        /\ pending' = pending \o StateEvents(lost, FALSE)
        /\ keys' = [n \in Nodes |-> IF n \in lost THEN {} ELSE IF n \in done THEN keys[n] \cup groupKeys[g] ELSE keys[n]]
        /\ subs' = [n \in Nodes |-> IF n \in lost THEN {} ELSE IF n \in asked THEN subs[n] \cup groupKeys[g] ELSE subs[n]]
        /\ groupReg' = [n \in Nodes |-> IF n \in lost THEN NoRegs
                           ELSE IF n \in done THEN [groupReg[n] EXCEPT ![g] = "done"] ELSE groupReg[n]]
        /\ stash' = [n \in Nodes |-> IF n \in lost THEN <<>> ELSE Interleaved(asked)[n]]
        /\ wire' = Emptied(wire, lost \cup asked, <<>>)
        /\ unread' = Emptied(unread, lost, <<>>)
        /\ broken' = broken \ lost
        /\ missed' = {m \in missed : m[1] \notin lost}
    BY DEF ResyncGroup
  <1>2. UNCHANGED <<config, groups, groupKeys, leftover, view, changes>>
    BY DEF ResyncGroup, LookUp, nodeSetVars, dbVars, processVars
  <1>3. /\ connections \in SUBSET Nodes
        /\ groupReg \in [Nodes -> [Groups -> {"none", "due", "done"}]]
        /\ keys \in [Nodes -> SUBSET AllKeys] /\ subs \in [Nodes -> SUBSET AllKeys] /\ groupKeys[g] \in SUBSET AllKeys
        /\ pending \in Seq(StateEvent)
        /\ wire \in [Nodes -> Seq(Event)] /\ stash \in [Nodes -> Seq(Event)] /\ unread \in [Nodes -> Seq(Event)]
    BY <1>0 DEF SubscriptionTyped
  <1>4. /\ lost \subseteq connections /\ done \subseteq connections /\ asked \subseteq done /\ asked \cap lost = {}
        /\ lost \in SUBSET Nodes /\ done \cap lost = {}
        /\ \A n \in done : n \in asked \/ groupKeys[g] \subseteq keys[n]
    BY <1>3
  <1> HIDE DEF due, lost, done, asked
  <1>5. \A n \in Nodes :
          /\ keys'[n] = IF n \in lost THEN {} ELSE IF n \in done THEN keys[n] \cup groupKeys[g] ELSE keys[n]
          /\ subs'[n] = IF n \in lost THEN {} ELSE IF n \in asked THEN subs[n] \cup groupKeys[g] ELSE subs[n]
          /\ groupReg'[n] = IF n \in lost THEN NoRegs
                            ELSE IF n \in done THEN [groupReg[n] EXCEPT ![g] = "done"] ELSE groupReg[n]
    BY <1>1
  <1>6. \A n \in Nodes :
          /\ stash'[n] = IF n \in lost THEN <<>> ELSE IF n \in asked THEN stash[n] \o wire[n] ELSE stash[n]
          /\ wire'[n] = IF n \in lost \/ n \in asked THEN <<>> ELSE wire[n]
          /\ unread'[n] = IF n \in lost THEN <<>> ELSE unread[n]
    BY <1>1 DEF Interleaved, Emptied
  <1>7. pending' \in Seq(StateEvent)
    BY <1>1, <1>3, <1>4, StateEventsOf, ConcatInSeq
  <1>8. keys' \in [Nodes -> SUBSET AllKeys] /\ subs' \in [Nodes -> SUBSET AllKeys]
    BY <1>1, <1>3
  <1>9. groupReg' \in [Nodes -> [Groups -> {"none", "due", "done"}]]
    BY <1>1, <1>3 DEF NoRegs
  <1>10. wire' \in [Nodes -> Seq(Event)] /\ stash' \in [Nodes -> Seq(Event)] /\ unread' \in [Nodes -> Seq(Event)]
    <2>1. <<>> \in Seq(Event) /\ \A n \in Nodes : stash[n] \o wire[n] \in Seq(Event)
      BY <1>3, ConcatInSeq
    <2>2. wire' \in [Nodes -> Seq(Event)] /\ unread' \in [Nodes -> Seq(Event)]
      BY <1>1, <1>3, <2>1 DEF Emptied
    <2>3. stash' = [n \in Nodes |-> IF n \in lost THEN <<>> ELSE IF n \in asked THEN stash[n] \o wire[n] ELSE stash[n]]
      BY <1>1 DEF Interleaved
    <2>4. stash' \in [Nodes -> Seq(Event)]
      BY <1>3, <2>1, <2>3
    <2> QED
      BY <2>2, <2>4
  <1>11. SubscriptionTyped'
    BY <1>0, <1>1, <1>2, <1>3, <1>7, <1>8, <1>9, <1>10 DEF SubscriptionTyped
  <1>12. StateEventsTrue'
    <2> SUFFICES ASSUME NEW n \in Nodes PROVE Told(view, pending', n) <=> n \in connections'
      BY <1>2 DEF StateEventsTrue
    <2>1. Told(view, pending', n) <=> IF n \in lost THEN FALSE ELSE Told(view, pending, n)
      BY <1>1, <1>3, <1>4, ToldAppended
    <2>2. Told(view, pending, n) <=> n \in connections
      BY <1>0 DEF StateEventsTrue
    <2> QED
      BY <1>1, <2>1, <2>2
  <1>13. EventsKeptInOrder'
    <2> SUFFICES ASSUME NEW n \in connections' PROVE unread'[n] = stash'[n] \o wire'[n]
      BY DEF EventsKeptInOrder
    <2>1. n \in connections /\ n \in Nodes /\ n \notin lost /\ unread[n] = stash[n] \o wire[n]
      BY <1>0, <1>1, <1>3 DEF EventsKeptInOrder
    <2>2. CASE n \in asked
      <3>1. (stash[n] \o wire[n]) \o <<>> = stash[n] \o wire[n]
        <4>1. stash[n] \o wire[n] \in Seq(Event)
          BY <1>3, <2>1, ConcatInSeq
        <4> QED
          BY <4>1
      <3> QED
        BY <1>6, <2>1, <2>2, <3>1
    <2>3. CASE n \notin asked
      BY <1>6, <2>1, <2>3
    <2> QED
      BY <2>2, <2>3
  <1>14. KeysSubscribed'
    <2> SUFFICES ASSUME NEW n \in connections' PROVE keys'[n] \subseteq subs'[n]
      BY DEF KeysSubscribed
    <2>1. n \in connections /\ n \in Nodes /\ n \notin lost /\ keys[n] \subseteq subs[n]
      BY <1>0, <1>1, <1>3 DEF KeysSubscribed
    <2> QED
      BY <1>4, <1>5, <2>1
  <1>15. KeysMissedOnlyByRejoin'
    <2> SUFFICES ASSUME NEW n \in connections', n \notin broken', NEW h \in Groups, groupReg'[n][h] = "done",
                        NEW k \in groupKeys[h]
                 PROVE  k \in subs'[n] \/ <<n, h, k>> \in missed'
      BY <1>2 DEF KeysMissedOnlyByRejoin
    <2>1. n \in connections /\ n \in Nodes /\ n \notin lost /\ n \notin broken
          /\ subs[n] \subseteq subs'[n] /\ keys'[n] \subseteq subs'[n]
      BY <1>1, <1>3, <1>5, <1>14 DEF KeysSubscribed
    <2>2. CASE n \in done /\ h = g
      BY <1>5, <2>1, <2>2
    <2>3. CASE ~(n \in done /\ h = g)
      <3>1. groupReg[n][h] = "done"
        BY <1>3, <1>5, <2>1, <2>3
      <3>2. k \in subs[n] \/ <<n, h, k>> \in missed
        BY <1>0, <2>1, <3>1 DEF KeysMissedOnlyByRejoin
      <3> QED
        BY <1>1, <2>1, <3>2
    <2> QED
      BY <2>2, <2>3
  <1> QED
    BY <1>0, <1>2, <1>11, <1>12, <1>13, <1>14, <1>15 DEF SubscriptionInv

-----------------------------------------------------------------------------
(* Registering *)

LEMMA RegisterInv ==
    ASSUME SubscriptionInv, NEW g \in Groups, NEW k \in Keys, RegisterOneObject(g, k)
    PROVE  SubscriptionInv'
  <1>0. /\ SubscriptionTyped /\ StateEventsTrue /\ EventsKeptInOrder /\ KeysSubscribed /\ KeysMissedOnlyByRejoin
    BY DEF SubscriptionInv
  <1>1. /\ groupKeys' = [groupKeys EXCEPT ![g] = @ \cup {k}]
        /\ groupReg' = [n \in Nodes |-> IF n \in Members(g) THEN [groupReg[n] EXCEPT ![g] = "due"] ELSE groupReg[n]]
        /\ missed' = missed \cup {<<n, g, k>> : n \in {m \in connections \ Members(g) : groupReg[m][g] = "done"}}
        /\ UNCHANGED <<config, groups, connections, leftover, keys, pending, broken, subs, wire,
                       stash, unread, view, changes>>
    BY DEF RegisterOneObject, Marked, LookUp, nodeSetVars, dbVars, processVars, netVars
  <1>2. /\ groupKeys \in [Groups -> SUBSET AllKeys] /\ groupReg \in [Nodes -> [Groups -> {"none", "due", "done"}]]
        /\ connections \in SUBSET Nodes /\ k \in AllKeys
    BY <1>0 DEF SubscriptionTyped, AllKeys
  <1>3. groupKeys' \in [Groups -> SUBSET AllKeys] /\ groupReg' \in [Nodes -> [Groups -> {"none", "due", "done"}]]
    BY <1>1, <1>2
  <1>4. SubscriptionTyped'
    BY <1>0, <1>1, <1>2, <1>3 DEF SubscriptionTyped
  <1>5. KeysMissedOnlyByRejoin'
    <2> SUFFICES ASSUME NEW n \in connections, n \notin broken, NEW h \in Groups, groupReg'[n][h] = "done",
                        NEW l \in groupKeys'[h]
                 PROVE  l \in subs[n] \/ <<n, h, l>> \in missed'
      BY <1>1 DEF KeysMissedOnlyByRejoin
    <2>1. n \in Nodes /\ groupReg[n][h] = "done" /\ (h = g => n \notin Members(g))
      BY <1>1, <1>2
    <2>2. l \in groupKeys[h] \/ (h = g /\ l = k)
      BY <1>1, <1>2
    <2>3. CASE l \in groupKeys[h]
      BY <1>0, <1>1, <2>1, <2>3 DEF KeysMissedOnlyByRejoin
    <2>4. CASE h = g /\ l = k
      BY <1>1, <2>1, <2>4
    <2> QED
      BY <2>2, <2>3, <2>4
  <1>6. (StateEventsTrue /\ EventsKeptInOrder /\ KeysSubscribed)'
    BY <1>0, <1>1
       DEF StateEventsTrue, EventsKeptInOrder, KeysSubscribed
  <1> QED
    BY <1>4, <1>5, <1>6 DEF SubscriptionInv

-----------------------------------------------------------------------------
(* Waiting for events *)

LEMMA ReturnStateEventInv == SubscriptionInv /\ ReturnStateEvent => SubscriptionInv'
  <1> SUFFICES ASSUME SubscriptionInv, ReturnStateEvent PROVE SubscriptionInv'
    OBVIOUS
  <1>0. /\ SubscriptionTyped /\ StateEventsTrue /\ EventsKeptInOrder /\ KeysSubscribed /\ KeysMissedOnlyByRejoin
    BY DEF SubscriptionInv
  <1>1. /\ pending # <<>> /\ pending' = Tail(pending)
        /\ view' = IF Head(pending).state THEN view \cup {Head(pending).node} ELSE view \ {Head(pending).node}
        /\ UNCHANGED <<config, groups, groupKeys, groupReg, connections, leftover, keys,
                       broken, subs, wire, stash, unread, missed, changes>>
    BY DEF ReturnStateEvent, nodeSetVars, dbVars, processVars, threadVars, netVars
  <1>2. pending \in Seq(StateEvent)
    BY <1>0 DEF SubscriptionTyped
  <1>3. pending' \in Seq(StateEvent)
    BY <1>1, <1>2
  <1>4. SubscriptionTyped'
    BY <1>0, <1>1, <1>3 DEF SubscriptionTyped
  <1>5. StateEventsTrue'
    <2> SUFFICES ASSUME NEW n \in Nodes PROVE Told(view', pending', n) <=> n \in connections
      BY <1>1 DEF StateEventsTrue
    <2>1. Told(view', Tail(pending), n) <=> Told(view, pending, n)
      BY <1>1, <1>2, ToldFirst
    <2> QED
      BY <1>0, <1>1, <2>1 DEF StateEventsTrue
  <1>6. (EventsKeptInOrder /\ KeysSubscribed /\ KeysMissedOnlyByRejoin)'
    BY <1>0, <1>1
       DEF EventsKeptInOrder, KeysSubscribed, KeysMissedOnlyByRejoin
  <1> QED
    BY <1>4, <1>5, <1>6 DEF SubscriptionInv

LEMMA TailJoined ==
    ASSUME NEW s \in Seq(Event), NEW t \in Seq(Event), s # <<>>
    PROVE  Tail(s \o t) = Tail(s) \o t
  <1>1. /\ Len(Tail(s)) = Len(s) - 1 /\ Tail(s) \in Seq(Event) /\ Len(s) \in Nat /\ Len(s) >= 1 /\ Len(t) \in Nat
        /\ s \o t \in Seq(Event) /\ Len(s \o t) = Len(s) + Len(t) /\ s \o t # <<>>
    OBVIOUS
  <1>2. /\ Tail(s \o t) \in Seq(Event) /\ Len(Tail(s \o t)) = Len(s) + Len(t) - 1
        /\ Tail(s) \o t \in Seq(Event) /\ Len(Tail(s) \o t) = Len(s) + Len(t) - 1
    BY <1>1
  <1>3. ASSUME NEW i \in 1..(Len(s) + Len(t) - 1) PROVE Tail(s \o t)[i] = (Tail(s) \o t)[i]
    <2>1. Tail(s \o t)[i] = (s \o t)[i + 1] /\ i + 1 \in 1..(Len(s) + Len(t))
      BY <1>1
    <2>2. CASE i <= Len(s) - 1
      BY <1>1, <2>1, <2>2
    <2>3. CASE ~(i <= Len(s) - 1)
      BY <1>1, <2>1, <2>3
    <2> QED
      BY <2>2, <2>3
  <1> QED
    BY <1>2, <1>3

LEMMA AppendJoined ==
    ASSUME NEW s \in Seq(Event), NEW t \in Seq(Event), NEW e \in Event
    PROVE  Append(s \o t, e) = s \o Append(t, e)
  <1>1. /\ Len(s) \in Nat /\ Len(t) \in Nat /\ s \o t \in Seq(Event) /\ Len(s \o t) = Len(s) + Len(t)
        /\ Append(t, e) \in Seq(Event) /\ Len(Append(t, e)) = Len(t) + 1
    OBVIOUS
  <1>2. /\ Append(s \o t, e) \in Seq(Event) /\ Len(Append(s \o t, e)) = Len(s) + Len(t) + 1
        /\ s \o Append(t, e) \in Seq(Event) /\ Len(s \o Append(t, e)) = Len(s) + Len(t) + 1
    BY <1>1
  <1>3. ASSUME NEW i \in 1..(Len(s) + Len(t) + 1) PROVE Append(s \o t, e)[i] = (s \o Append(t, e))[i]
    <2>1. CASE i <= Len(s)
      BY <1>1, <2>1
    <2>2. CASE i > Len(s) /\ i <= Len(s) + Len(t)
      <3>1. Append(s \o t, e)[i] = (s \o t)[i]
        BY <1>1, <2>2
      <3>2. (s \o t)[i] = t[i - Len(s)] /\ i - Len(s) \in 1..Len(t)
        BY <1>1, <2>2
      <3>3. (s \o Append(t, e))[i] = Append(t, e)[i - Len(s)]
        BY <1>1, <2>2
      <3>4. Append(t, e)[i - Len(s)] = t[i - Len(s)]
        BY <1>1, <3>2
      <3> QED
        BY <3>1, <3>2, <3>3, <3>4
    <2>3. CASE i = Len(s) + Len(t) + 1
      <3>1. Append(s \o t, e)[i] = e
        BY <1>1, <2>3
      <3>2. (s \o Append(t, e))[i] = Append(t, e)[Len(t) + 1]
        BY <1>1, <2>3
      <3> QED
        BY <1>1, <3>1, <3>2
    <2> QED
      BY <1>1, <2>1, <2>2, <2>3
  <1> DEFINE u == Append(s \o t, e)
             v == s \o Append(t, e)
  <1>4. u \in Seq(Event) /\ v \in Seq(Event) /\ Len(u) = Len(v) /\ \A i \in 1..Len(u) : u[i] = v[i]
    BY <1>2, <1>3
  <1> HIDE DEF u, v
  <1>5. u = v
    BY <1>4, SeqEqual
  <1> QED
    BY <1>5 DEF u, v

LEMMA GetEventInv ==
    ASSUME SubscriptionInv, NEW n \in Nodes, GetEvent(n)
    PROVE  SubscriptionInv'
  <1> DEFINE all == IF stash[n] = <<>> THEN wire[n] ELSE stash[n]
             e == Head(all)
  <1>0. /\ SubscriptionTyped /\ StateEventsTrue /\ EventsKeptInOrder /\ KeysSubscribed /\ KeysMissedOnlyByRejoin
    BY DEF SubscriptionInv
  <1>1. /\ stash' = [stash EXCEPT ![n] = Tail(all)]
        /\ wire' = IF stash[n] = <<>> THEN [wire EXCEPT ![n] = <<>>] ELSE wire
        /\ unread' = [unread EXCEPT ![n] = Tail(unread[n])]
        /\ n \in connections /\ all # <<>>
    BY DEF GetEvent, Take, HasData
  <1>2. UNCHANGED <<config, groups, groupKeys, groupReg, connections, keys, pending,
                    broken, subs, view, missed, changes>>
    BY DEF GetEvent, nodeSetVars, dbVars, processVars, handleVars
  <1>4. /\ connections \in SUBSET Nodes /\ leftover \in SUBSET Nodes
        /\ wire \in [Nodes -> Seq(Event)] /\ stash \in [Nodes -> Seq(Event)] /\ unread \in [Nodes -> Seq(Event)]
    BY <1>0 DEF SubscriptionTyped
  <1>5. leftover' \in SUBSET Nodes
    BY <1>4 DEF GetEvent, Take, StartMaintaining
  <1>6. all \in Seq(Event) /\ wire[n] \in Seq(Event) /\ stash[n] \in Seq(Event) /\ unread[n] = stash[n] \o wire[n]
    BY <1>0, <1>1, <1>4 DEF EventsKeptInOrder
  <1>7. unread[n] # <<>> /\ unread[n] \in Seq(Event)
    <2>1. CASE stash[n] = <<>>
      BY <1>1, <1>6, <2>1
    <2>2. CASE stash[n] # <<>>
      BY <1>6, <2>2
    <2> QED
      BY <2>1, <2>2
  <1>8. Tail(unread[n]) = Tail(all) \o wire'[n]
    <2>1. CASE stash[n] = <<>>
      <3>1. unread[n] = all /\ wire'[n] = <<>>
        BY <1>1, <1>4, <1>6, <2>1
      <3>2. Tail(all) \o <<>> = Tail(all)
        BY <1>1, <1>6
      <3> QED
        BY <3>1, <3>2
    <2>2. CASE stash[n] # <<>>
      <3>1. Tail(stash[n] \o wire[n]) = Tail(stash[n]) \o wire[n]
        BY <1>6, <2>2, TailJoined
      <3> QED
        BY <1>1, <1>6, <2>2, <3>1
    <2> QED
      BY <2>1, <2>2
  <1> HIDE DEF all
  <1>10. Tail(all) \in Seq(Event) /\ Tail(unread[n]) \in Seq(Event) /\ e = all[1] /\ 1 \in DOMAIN all
    BY <1>1, <1>6, <1>7
  <1>11. stash' \in [Nodes -> Seq(Event)] /\ wire' \in [Nodes -> Seq(Event)] /\ unread' \in [Nodes -> Seq(Event)]
    <2>1. stash' \in [Nodes -> Seq(Event)]
      BY <1>1, <1>4, <1>10
    <2>2. unread' \in [Nodes -> Seq(Event)]
      BY <1>1, <1>4, <1>10
    <2>3. <<>> \in Seq(Event)
      OBVIOUS
    <2>4. wire' \in [Nodes -> Seq(Event)]
      BY <1>1, <1>4, <2>3
    <2> QED
      BY <2>1, <2>2, <2>4
  <1>12. SubscriptionTyped'
    BY <1>0, <1>2, <1>5, <1>11 DEF SubscriptionTyped
  <1>13. EventsKeptInOrder'
    <2> SUFFICES ASSUME NEW m \in connections PROVE unread'[m] = stash'[m] \o wire'[m]
      BY <1>2 DEF EventsKeptInOrder
    <2>1. m \in Nodes /\ unread[m] = stash[m] \o wire[m]
      BY <1>0, <1>4 DEF EventsKeptInOrder
    <2>2. CASE m = n
      <3>1. unread'[n] = Tail(unread[n]) /\ stash'[n] = Tail(all)
        BY <1>1, <1>4
      <3> QED
        BY <1>8, <2>2, <3>1
    <2>3. CASE m # n
      <3>1. unread'[m] = unread[m] /\ stash'[m] = stash[m]
        BY <1>1, <1>4, <2>1, <2>3
      <3>2. wire'[m] = wire[m]
        BY <1>1, <1>4, <2>1, <2>3
      <3> QED
        BY <2>1, <3>1, <3>2
    <2> QED
      BY <2>2, <2>3
  <1>16. (StateEventsTrue /\ KeysSubscribed /\ KeysMissedOnlyByRejoin)'
    BY <1>0, <1>2 DEF StateEventsTrue, KeysSubscribed, KeysMissedOnlyByRejoin
  <1> QED
    BY <1>12, <1>13, <1>16 DEF SubscriptionInv

-----------------------------------------------------------------------------
(* The nodes and the agent *)

\* A node sends an event.
LEMMA SendInv ==
    ASSUME SubscriptionInv, NEW n \in Nodes, NEW e \in Event, Send(n, e),
           config' \in [Groups -> GroupSeen], changes' \in Nat,
           UNCHANGED <<groups, groupKeys, groupReg, connections, leftover, keys, pending,
                       broken, subs, stash, view, missed>>
    PROVE  SubscriptionInv'
  <1>0. /\ SubscriptionTyped /\ StateEventsTrue /\ EventsKeptInOrder /\ KeysSubscribed /\ KeysMissedOnlyByRejoin
    BY DEF SubscriptionInv
  <1>1. (StateEventsTrue /\ KeysSubscribed /\ KeysMissedOnlyByRejoin)'
    BY <1>0 DEF StateEventsTrue, KeysSubscribed, KeysMissedOnlyByRejoin
  <1>2. CASE UNCHANGED <<wire, unread>>
    BY <1>0, <1>1, <1>2 DEF SubscriptionInv, SubscriptionTyped, EventsKeptInOrder
  <1>3. CASE /\ wire' = [wire EXCEPT ![n] = Append(wire[n], e)]
             /\ unread' = [unread EXCEPT ![n] = Append(unread[n], e)]
             /\ n \in connections
    <2>1. /\ connections \in SUBSET Nodes
          /\ wire \in [Nodes -> Seq(Event)] /\ stash \in [Nodes -> Seq(Event)] /\ unread \in [Nodes -> Seq(Event)]
      BY <1>0 DEF SubscriptionTyped
    <2>2. Append(wire[n], e) \in Seq(Event) /\ Append(unread[n], e) \in Seq(Event)
      <3>1. wire[n] \in Seq(Event) /\ unread[n] \in Seq(Event)
        BY <2>1
      <3> QED
        BY <3>1
    <2>3. wire' \in [Nodes -> Seq(Event)] /\ unread' \in [Nodes -> Seq(Event)]
      BY <1>3, <2>1, <2>2
    <2>4. SubscriptionTyped'
      BY <1>0, <2>3 DEF SubscriptionTyped
    <2>5. EventsKeptInOrder'
      <3> SUFFICES ASSUME NEW m \in connections PROVE unread'[m] = stash[m] \o wire'[m]
        BY DEF EventsKeptInOrder
      <3>1. m \in Nodes /\ unread[m] = stash[m] \o wire[m] /\ stash[m] \in Seq(Event) /\ wire[m] \in Seq(Event)
        BY <1>0, <2>1 DEF EventsKeptInOrder
      <3>2. CASE m = n
        <4>1. Append(stash[m] \o wire[m], e) = stash[m] \o Append(wire[m], e)
          BY <3>1, AppendJoined
        <4> QED
          BY <1>3, <2>1, <3>1, <3>2, <4>1
      <3>3. CASE m # n
        BY <1>3, <2>1, <3>1, <3>3
      <3> QED
        BY <3>2, <3>3
    <2> QED
      BY <1>1, <2>4, <2>5 DEF SubscriptionInv
  <1> QED
    BY <1>2, <1>3 DEF Send

LEMMA PublishEventInv ==
    ASSUME SubscriptionInv, NEW n \in Nodes, NEW k \in Keys, PublishEvent(n, k)
    PROVE  SubscriptionInv'
  <1> DEFINE e == [key |-> k, id |-> changes']
  <1>1. changes \in Nat /\ changes' = changes + 1 /\ config \in [Groups -> GroupSeen]
    BY DEF SubscriptionInv, SubscriptionTyped, PublishEvent, Change
  <1>2. /\ Send(n, e)
        /\ UNCHANGED <<config, groups, groupKeys, groupReg, connections, leftover, keys, pending, broken, subs, stash, view, missed>>
    BY DEF PublishEvent, nodeSetVars, dbVars, processVars, handleVars, threadVars
  <1>3. e \in Event
    BY <1>1 DEF Event, AllKeys
  <1>4. config' \in [Groups -> GroupSeen] /\ changes' \in Nat
    BY <1>1, <1>2
  <1> HIDE DEF e
  <1> QED
    BY <1>2, <1>3, <1>4, SendInv

LEMMA ReconfigureInv ==
    ASSUME SubscriptionInv, NEW g \in Groups, NEW ns \in Memberships, Reconfigure(g, ns)
    PROVE  SubscriptionInv'
  <1> DEFINE e == [key |-> GroupKey, id |-> changes']
  <1>1. changes \in Nat /\ changes' = changes + 1 /\ config \in [Groups -> GroupSeen]
    BY DEF SubscriptionInv, SubscriptionTyped, Reconfigure, Change
  <1>2. /\ Send(Local, e) /\ config' = [config EXCEPT ![g] = [type |-> "nodal", nodes |-> ns]]
        /\ UNCHANGED <<groups, groupKeys, groupReg, connections, leftover, keys, pending, broken, subs, stash, view, missed>>
    BY DEF Reconfigure, processVars, handleVars, threadVars
  <1>3. e \in Event
    BY <1>1 DEF Event, AllKeys
  <1>4. config' \in [Groups -> GroupSeen] /\ changes' \in Nat
    <2>1. [type |-> "nodal", nodes |-> ns] \in GroupSeen
      BY SubscriptionAssumption DEF GroupSeen, GroupObject, GroupTypes
    <2> QED
      BY <1>1, <1>2, <2>1
  <1>5. Local \in Nodes
    BY NodeSetAssumption
  <1> HIDE DEF e
  <1> QED
    BY <1>2, <1>3, <1>4, <1>5, SendInv

LEMMA NodeLostInv ==
    ASSUME SubscriptionInv, NEW n \in Nodes, NodeLost(n)
    PROVE  SubscriptionInv'
  <1>0. /\ SubscriptionTyped /\ StateEventsTrue /\ EventsKeptInOrder /\ KeysSubscribed /\ KeysMissedOnlyByRejoin
    BY DEF SubscriptionInv
  <1>1. /\ broken \subseteq broken' /\ changes' = changes + 1
        /\ UNCHANGED <<config, groups, groupKeys, groupReg, connections, leftover, keys, pending, subs, wire, stash, unread, view, missed>>
    BY DEF NodeLost, Change, processVars, handleVars, threadVars
  <1>2. SubscriptionTyped'
    BY <1>0, <1>1 DEF SubscriptionTyped
  <1>3. KeysMissedOnlyByRejoin'
    BY <1>0, <1>1 DEF KeysMissedOnlyByRejoin
  <1> QED
    BY <1>0, <1>1, <1>2, <1>3
       DEF SubscriptionInv, StateEventsTrue, EventsKeptInOrder, KeysSubscribed

\* However much of the configuration a load has seen.
LEMMA LoadInv ==
    ASSUME SubscriptionInv, NEW seen \in SUBSET Groups, LoadGroups(seen), changes' \in Nat,
           UNCHANGED <<handleVars, threadVars, netVars, unread, view, missed>>
    PROVE  SubscriptionInv'
  <1>0. /\ SubscriptionTyped /\ StateEventsTrue /\ EventsKeptInOrder /\ KeysSubscribed /\ KeysMissedOnlyByRejoin
    BY DEF SubscriptionInv
  <1>1. /\ groups' \in {groups, Seen(seen)}
        /\ UNCHANGED <<config, groupKeys, groupReg, connections, leftover, keys, pending,
                       broken, subs, wire, stash, unread, view, missed>>
    BY DEF LoadGroups, dbVars, handleVars, threadVars, netVars
  <1>2. Seen(seen) \in [Groups -> GroupSeen]
    BY <1>0 DEF Seen, SubscriptionTyped, GroupSeen
  <1>3. SubscriptionTyped'
    BY <1>0, <1>1, <1>2 DEF SubscriptionTyped
  <1> QED
    BY <1>0, <1>1, <1>3
       DEF SubscriptionInv, StateEventsTrue, EventsKeptInOrder, KeysSubscribed, KeysMissedOnlyByRejoin

LEMMA NextSubscription == SubscriptionInv /\ [Next]_vars => SubscriptionInv'
  <1> SUFFICES ASSUME SubscriptionInv, [Next]_vars PROVE SubscriptionInv'
    OBVIOUS
  <1>0. connections \in SUBSET Nodes /\ leftover \in SUBSET Nodes /\ changes \in Nat
    BY DEF SubscriptionInv, SubscriptionTyped
  <1>1. CASE MaintainStep
    BY <1>1, CheckGroupInv, EndCheckInv, ResyncGroupInv DEF MaintainStep
  <1>2. CASE WaitMaintains \/ RegMaintains
    <2>1. known' = known /\ leftover' \in SUBSET Nodes
      BY <1>0, <1>2 DEF WaitMaintains, RegMaintains, StartMaintaining, known, nodeSetVars, dbVars, processVars,
                        handleVars, netVars, pastVars
    <2> QED
      BY <2>1, KnownKept
  <1>3. CASE PushCallback \/ WaitGoesOn \/ Scan \/ Selected \/ EndWalk
    <2>1. known' = known /\ leftover' \in SUBSET Nodes
      BY <1>0, <1>3 DEF PushCallback, WaitGoesOn, Scan, Selected, EndWalk, known, nodeSetVars, dbVars, processVars,
                        handleVars, netVars, pastVars
    <2> QED
      BY <2>1, KnownKept
  <1>4. CASE ReturnStateEvent \/ \E n \in Nodes : ReadError(n) \/ GetEvent(n)
    BY <1>4, ReturnStateEventInv, ReadErrorInv, GetEventInv
  <1>5. CASE \E r \in Registrations : RegisterOneObject(r[1], r[2])
    <2>1. PICK r \in Registrations : RegisterOneObject(r[1], r[2])
      BY <1>5
    <2>2. r[1] \in Groups /\ r[2] \in Keys
      BY SubscriptionAssumption
    <2> QED
      BY <2>1, <2>2, RegisterInv
  <1>6. CASE Load \/ \E seen \in SUBSET Groups : LoadCutShort(seen)
    <2>1. CASE Load
      <3>1. /\ LoadGroups(Groups) /\ changes' = changes
            /\ UNCHANGED <<handleVars, threadVars, netVars, unread, view, missed>>
        BY <2>1 DEF Load, pastVars
      <3> QED
        BY <1>0, <3>1, LoadInv
    <2>2. CASE \E seen \in SUBSET Groups : LoadCutShort(seen)
      <3>1. PICK seen \in SUBSET Groups : LoadCutShort(seen)
        BY <2>2
      <3>2. changes' \in Nat
        BY <1>0, <3>1 DEF LoadCutShort, Change
      <3> QED
        BY <3>1, <3>2, LoadInv DEF LoadCutShort
    <2> QED
      BY <1>6, <2>1, <2>2
  <1>7. CASE \E n \in Nodes, k \in Keys : PublishEvent(n, k)
    BY <1>7, PublishEventInv
  <1>8. CASE \E g \in Groups, ns \in Memberships : Reconfigure(g, ns)
    BY <1>8, ReconfigureInv
  <1>9. CASE \E n \in Nodes : NodeLost(n)
    BY <1>9, NodeLostInv
  <1>10. CASE (\E n \in Nodes : NodeBack(n)) \/ LoadAgain \/ UNCHANGED vars
    <2>1. known' = known /\ leftover' \in SUBSET Nodes
      BY <1>0, <1>10 DEF NodeBack, LoadAgain, LoadExpires, known, vars, nodeSetVars, dbVars, processVars,
                         handleVars, threadVars, netVars, pastVars
    <2> QED
      BY <2>1, KnownKept
  <1> QED
    BY <1>1, <1>2, <1>3, <1>4, <1>5, <1>6, <1>7, <1>8, <1>9, <1>10 DEF Next, WaitStep

LEMMA SubscriptionInvariant == Spec => []SubscriptionInv
  BY InitSubscription, NextSubscription, PTL DEF Spec

\* For every finite set of nodes and every set of groups and keys, an
\* application that has been given all the connection events knows exactly
\* the nodes the handle is connected to (__maintain_connections,
\* disconnect_node).
THEOREM ConnectionsTold == Spec => []StateEventsTrue
  BY SubscriptionInvariant, PTL DEF SubscriptionInv

\* What the event thread has not yet given to the application, is what the
\* node has sent on the connection since, in order: none is lost, repeated or
\* overtaken while answers are read from the same stream (response, get_event,
\* _cps_api_wait_for_event).
THEOREM EventsInOrder == Spec => []EventsKeptInOrder
  BY SubscriptionInvariant, PTL DEF SubscriptionInv

\* A connected node whose mark says that its group is registered lacks a key
\* of the group only if it was out of the group when the key was added
\* (__resync_regs, _register_one_object).
THEOREM OnlyRejoinMisses == Spec => []KeysMissedOnlyByRejoin
  BY SubscriptionInvariant, PTL DEF SubscriptionInv

(* References to objects *)

\* The places of an object in a sequence, and in all lists.
PlacesIn(o, s) == {k \in DOMAIN s : s[k] = o}
OneWhere(n, x) == IF n = x THEN 1 ELSE 0
EntriesOf(f, o) == UNION {{<<l, k>> : k \in PlacesIn(o, f[l])} : l \in Lists}

RefsTyped ==
    /\ ref \in [Objects -> Nat] /\ held \in [Objects -> Nat]
    /\ list \in [Lists -> Seq(Objects \cup {Null})]
    /\ \A o \in Objects : IsFiniteSet(ListEntries(o))

\* The inductive invariant.
ReferencesInv == RefsTyped /\ RefsCounted

\* How often an object occurs in a sequence that is put together, extended or
\* changed at one place.
LEMMA PlacesFinite ==
  ASSUME NEW S, NEW s \in Seq(S), NEW o
  PROVE  /\ IsFiniteSet(PlacesIn(o, s)) /\ Cardinality(PlacesIn(o, s)) \in Nat
         /\ Occurs(o, s) = Cardinality(PlacesIn(o, s))
  <1>1. IsFiniteSet(1 .. Len(s)) /\ PlacesIn(o, s) \in SUBSET (1 .. Len(s))
    BY FS_Interval DEF PlacesIn
  <1>2. IsFiniteSet(PlacesIn(o, s))
    BY <1>1, FS_Subset, Zenon
  <1>3. Cardinality(PlacesIn(o, s)) \in Nat
    BY <1>2, FS_CardinalityType, Zenon
  <1> QED
    BY <1>2, <1>3 DEF Occurs, PlacesIn

\* An empty list holds no object.
LEMMA OccursNone == \A o : Occurs(o, <<>>) = 0
  BY FS_EmptySet DEF Occurs

\* A list of one entry holds that one.
LEMMA OccursOne ==
  ASSUME NEW x, NEW o
  PROVE  Occurs(o, <<x>>) = OneWhere(x, o)
  <1>1. {k \in DOMAIN <<x>> : <<x>>[k] = o} = IF x = o THEN {1} ELSE {}
    OBVIOUS
  <1> QED
    BY <1>1, FS_EmptySet, FS_Singleton, Zenon DEF Occurs, OneWhere

\* The places of the second part follow those of the first.
LEMMA OccursConcat ==
  ASSUME NEW S, NEW s \in Seq(S), NEW t \in Seq(S), NEW o
  PROVE  Occurs(o, s \o t) = Occurs(o, s) + Occurs(o, t)
  <1> DEFINE P == PlacesIn(o, s)  Q == PlacesIn(o, t)
             R == {Len(s) + k : k \in Q}
             f == [k \in Q |-> Len(s) + k]
  <1>1. s \o t \in Seq(S) /\ Len(s) \in Nat /\ Len(t) \in Nat /\ DOMAIN s = 1 .. Len(s) /\ DOMAIN t = 1 .. Len(t)
        /\ DOMAIN (s \o t) = 1 .. Len(s) + Len(t)
    OBVIOUS
  <1>2. \A k \in 1 .. Len(s) + Len(t) : (s \o t)[k] = IF k <= Len(s) THEN s[k] ELSE t[k - Len(s)]
    OBVIOUS
  <1>3. PlacesIn(o, s \o t) = P \cup R
    <2>1. ASSUME NEW k \in PlacesIn(o, s \o t) PROVE k \in P \cup R
      <3>1. k \in 1 .. Len(s) + Len(t) /\ (s \o t)[k] = o
        BY <1>1 DEF PlacesIn
      <3>2. CASE k <= Len(s)
        BY <3>1, <3>2, <1>1, <1>2 DEF PlacesIn
      <3>3. CASE k > Len(s)
        <4>1. k - Len(s) \in Q
          BY <3>1, <3>3, <1>1, <1>2 DEF PlacesIn
        <4>2. k = Len(s) + (k - Len(s))
          BY <3>1, <1>1
        <4> QED
          BY <4>1, <4>2
      <3> QED
        BY <3>1, <3>2, <3>3, <1>1
    <2>2. P \cup R \subseteq PlacesIn(o, s \o t)
      BY <1>1, <1>2 DEF PlacesIn
    <2> QED
      BY <2>1, <2>2
  <1>4. IsFiniteSet(P) /\ IsFiniteSet(Q) /\ Occurs(o, s) = Cardinality(P) /\ Occurs(o, t) = Cardinality(Q)
        /\ Cardinality(P) \in Nat /\ Cardinality(Q) \in Nat
    BY PlacesFinite
  <1>5. f \in Bijection(Q, R)
    <2>1. Q \subseteq Nat /\ Len(s) \in Nat
      BY DEF PlacesIn
    <2>2. f \in [Q -> R] /\ \A j, k \in Q : f[j] = f[k] => j = k
      BY <2>1
    <2>3. \A x \in R : \E k \in Q : f[k] = x
      OBVIOUS
    <2> QED
      BY <2>2, <2>3 DEF Bijection, Injection, Surjection, IsInjective
  <1>6. IsFiniteSet(R) /\ Cardinality(R) = Cardinality(Q)
    BY <1>4, <1>5, FS_Bijection DEF ExistsBijection
  <1>7. P \cap R = {}
    BY <1>1 DEF PlacesIn
  <1>8. Cardinality(P \cup R) = Cardinality(P) + Cardinality(R) - Cardinality({})
    BY <1>4, <1>6, <1>7, FS_Union
  <1>9. Occurs(o, s \o t) = Cardinality(P \cup R)
    BY <1>1, <1>3, PlacesFinite
  <1>10. Cardinality({}) = 0
    BY FS_EmptySet
  <1> QED
    BY <1>4, <1>6, <1>8, <1>9, <1>10

\* An entry at the end (cps_api_object_list_append).
LEMMA OccursAppend ==
  ASSUME NEW S, NEW s \in Seq(S), NEW x \in S, NEW o
  PROVE  Occurs(o, Append(s, x)) = Occurs(o, s) + OneWhere(x, o)
  <1>1. Append(s, x) = s \o <<x>> /\ <<x>> \in Seq(S)
    OBVIOUS
  <1>2. Occurs(o, <<x>>) = OneWhere(x, o)
    BY OccursOne
  <1>3. Occurs(o, s \o <<x>>) = Occurs(o, s) + Occurs(o, <<x>>)
    BY <1>1, OccursConcat
  <1> QED
    BY <1>1, <1>2, <1>3

\* A sequence with one place of it written anew.
LEMMA OccursExcept ==
  ASSUME NEW S, NEW s \in Seq(S), NEW x \in S, NEW k \in DOMAIN s, NEW o
  PROVE  /\ [s EXCEPT ![k] = x] \in Seq(S)
         /\ Occurs(o, [s EXCEPT ![k] = x]) = Occurs(o, s) - OneWhere(s[k], o) + OneWhere(x, o)
  <1> DEFINE t == [s EXCEPT ![k] = x]
             P == PlacesIn(o, s) \ {k}
  <1>1. t \in Seq(S) /\ DOMAIN t = DOMAIN s /\ t[k] = x /\ \A j \in DOMAIN s : j # k => t[j] = s[j]
    OBVIOUS
  <1>2. /\ PlacesIn(o, s) = (IF s[k] = o THEN P \cup {k} ELSE P)
        /\ PlacesIn(o, t) = (IF x = o THEN P \cup {k} ELSE P)
    BY <1>1 DEF PlacesIn
  <1>3. IsFiniteSet(PlacesIn(o, s))
    BY PlacesFinite
  <1>4. IsFiniteSet(P)
    BY <1>3, FS_RemoveElement
  <1>5. Cardinality(P \cup {k}) = Cardinality(P) + 1 /\ Cardinality(P) \in Nat
    BY <1>4, FS_AddElement, FS_CardinalityType
  <1>6. Occurs(o, s) = Cardinality(PlacesIn(o, s)) /\ Occurs(o, t) = Cardinality(PlacesIn(o, t))
    BY <1>1, PlacesFinite
  <1> HIDE DEF P, t
  <1>7. Occurs(o, s) = Cardinality(P) + OneWhere(s[k], o)
    BY <1>2, <1>5, <1>6 DEF OneWhere
  <1>8. Occurs(o, t) = Cardinality(P) + OneWhere(x, o)
    BY <1>2, <1>5, <1>6 DEF OneWhere
  <1>9. Occurs(o, t) = Occurs(o, s) - OneWhere(s[k], o) + OneWhere(x, o)
    BY <1>5, <1>7, <1>8 DEF OneWhere
  <1> QED
    BY <1>1, <1>9 DEF t

\* An entry taken out (cps_api_object_list_remove).
LEMMA OccursRemoveAt ==
  ASSUME NEW S, NEW s \in Seq(S), NEW k \in DOMAIN s, NEW o
  PROVE  /\ RemoveAt(s, k) \in Seq(S)
         /\ Occurs(o, RemoveAt(s, k)) = Occurs(o, s) - OneWhere(s[k], o)
  <1> DEFINE a == SubSeq(s, 1, k - 1)  b == SubSeq(s, k + 1, Len(s))
  <1>1. a \in Seq(S) /\ b \in Seq(S) /\ <<s[k]>> \in Seq(S) /\ a \o <<s[k]>> \in Seq(S) /\ a \o b \in Seq(S)
    OBVIOUS
  <1>2. s = (a \o <<s[k]>>) \o b
    <2> DEFINE c == (a \o <<s[k]>>) \o b
    <2>1. k \in 1 .. Len(s) /\ Len(s) \in Nat /\ Len(a) = k - 1 /\ Len(b) = Len(s) - k
      OBVIOUS
    <2>2. \A i \in 1 .. k - 1 : a[i] = s[i]
      BY <2>1
    <2>6. \A i \in k + 1 .. Len(s) : b[i - k] = s[i]
      <3>1. ASSUME NEW i \in k + 1 .. Len(s) PROVE b[i - k] = s[i]
        <4> HIDE DEF a, b
        <4>1. i - k \in 1 .. Len(s) - k /\ (k + 1) + (i - k) - 1 = i
          BY <2>1
        <4>2. k + 1 \in Int /\ Len(s) \in Int /\ \A j \in k + 1 .. Len(s) : s[j] \in S
          BY <2>1
        <4>3. \A j \in 1 .. Len(s) - (k + 1) + 1 : b[j] = s[(k + 1) + j - 1]
          BY <4>2, SubSeqProperties, SMTT(30) DEF b
        <4>4. Len(s) - (k + 1) + 1 = Len(s) - k
          BY <2>1
        <4> QED
          BY <4>1, <4>3, <4>4
      <3> QED
        BY <3>1
    <2>3. c \in Seq(S) /\ Len(c) = Len(s)
      <3> HIDE DEF a, b
      <3>1. a \o <<s[k]>> \in Seq(S) /\ Len(a \o <<s[k]>>) = k
        BY <1>1, <2>1
      <3> QED
        BY <1>1, <2>1, <3>1
    <2>4. ASSUME NEW i \in 1 .. Len(s) PROVE c[i] = s[i]
      <3> HIDE DEF a, b
      <3>1. CASE i < k
        BY <1>1, <2>1, <2>2, <3>1
      <3>2. CASE i = k
        BY <1>1, <2>1, <3>2
      <3>3. CASE i > k
        <4>1. c[i] = b[i - k] /\ i - k \in 1 .. Len(s) - k
          BY <1>1, <2>1, <3>3
        <4>2. i \in k + 1 .. Len(s)
          BY <3>3, <2>1
        <4>3. b[i - k] = s[i]
          BY <4>2, <2>6
        <4> QED
          BY <4>1, <4>3
      <3> QED
        BY <2>1, <3>1, <3>2, <3>3
    <2> HIDE DEF c
    <2>5. s = c
      BY <2>3, <2>4
    <2> QED
      BY <2>5 DEF c
  <1>3. Occurs(o, s) = Occurs(o, a) + Occurs(o, <<s[k]>>) + Occurs(o, b)
    <2> HIDE DEF a, b
    <2>1. Occurs(o, (a \o <<s[k]>>) \o b) = Occurs(o, a \o <<s[k]>>) + Occurs(o, b)
      BY <1>1, OccursConcat
    <2>2. Occurs(o, a \o <<s[k]>>) = Occurs(o, a) + Occurs(o, <<s[k]>>)
      BY <1>1, OccursConcat
    <2> QED
      BY <1>2, <2>1, <2>2, Zenon
  <1>4. Occurs(o, a \o b) = Occurs(o, a) + Occurs(o, b)
    BY <1>1, OccursConcat
  <1>5. Occurs(o, a) \in Nat /\ Occurs(o, b) \in Nat
    BY <1>1, PlacesFinite
  <1> QED
    BY <1>1, <1>3, <1>4, <1>5, OccursOne DEF RemoveAt, OneWhere

\* The entries of a list that changes are replaced, those of the others stay.
LEMMA EntriesChange ==
  ASSUME list \in [Lists -> Seq(Objects \cup {Null})], NEW l \in Lists, NEW s \in Seq(Objects \cup {Null}),
         list' = [list EXCEPT ![l] = s], NEW o, IsFiniteSet(EntriesOf(list, o))
  PROVE  /\ IsFiniteSet(EntriesOf(list', o)) /\ Cardinality(EntriesOf(list', o)) \in Nat
         /\ Cardinality(EntriesOf(list', o)) = Cardinality(EntriesOf(list, o)) - Occurs(o, list[l]) + Occurs(o, s)
  <1> DEFINE Others == {e \in EntriesOf(list, o) : e[1] # l}
             PlacedIn(t) == {<<l, k>> : k \in PlacesIn(o, t)}
  <1>1. IsFiniteSet(Others)
    BY FS_Subset
  <1>2. EntriesOf(list, o) = Others \cup PlacedIn(list[l])
    BY DEF EntriesOf
  <1>3. EntriesOf(list', o) = Others \cup PlacedIn(s)
    <2>1. list'[l] = s /\ \A m \in Lists : m # l => list'[m] = list[m]
      OBVIOUS
    <2>2. ASSUME NEW e \in EntriesOf(list', o) PROVE e \in Others \cup PlacedIn(s)
      <3>1. PICK m \in Lists : e \in {<<m, k>> : k \in PlacesIn(o, list'[m])}
        BY <2>2 DEF EntriesOf
      <3>2. PICK k \in PlacesIn(o, list'[m]) : e = <<m, k>>
        BY <3>1
      <3>3. CASE m = l
        BY <3>2, <3>3, <2>1
      <3>4. CASE m # l
        BY <3>2, <3>4, <2>1 DEF EntriesOf
      <3> QED
        BY <3>3, <3>4
    <2>3. ASSUME NEW e \in Others PROVE e \in EntriesOf(list', o)
      <3>1. PICK m \in Lists : e \in {<<m, k>> : k \in PlacesIn(o, list[m])}
        BY <2>3 DEF EntriesOf
      <3>2. PICK k \in PlacesIn(o, list[m]) : e = <<m, k>>
        BY <3>1
      <3>3. m # l
        BY <3>2, <2>3
      <3> QED
        BY <3>2, <3>3, <2>1 DEF EntriesOf
    <2>4. ASSUME NEW e \in PlacedIn(s) PROVE e \in EntriesOf(list', o)
      BY <2>4, <2>1 DEF EntriesOf
    <2> QED
      BY <2>2, <2>3, <2>4
  <1>4. ASSUME NEW t \in Seq(Objects \cup {Null})
        PROVE  /\ IsFiniteSet(Others \cup PlacedIn(t)) /\ Cardinality(Others \cup PlacedIn(t)) \in Nat
               /\ Cardinality(Others \cup PlacedIn(t)) = Cardinality(Others) + Occurs(o, t)
               /\ Occurs(o, t) \in Nat /\ Cardinality(Others) \in Nat
    <2> DEFINE h == [k \in PlacesIn(o, t) |-> <<l, k>>]
    <2>1. IsFiniteSet(PlacesIn(o, t)) /\ Occurs(o, t) = Cardinality(PlacesIn(o, t)) /\ Occurs(o, t) \in Nat
      BY PlacesFinite
    <2>2. h \in Bijection(PlacesIn(o, t), PlacedIn(t))
      BY DEF Bijection, Injection, Surjection, IsInjective
    <2>3. IsFiniteSet(PlacedIn(t)) /\ Cardinality(PlacedIn(t)) = Cardinality(PlacesIn(o, t))
      BY <2>1, <2>2, FS_Bijection DEF ExistsBijection
    <2>4. Others \cap PlacedIn(t) = {}
      OBVIOUS
    <2> HIDE DEF Others, PlacedIn
    <2>5. /\ IsFiniteSet(Others \cup PlacedIn(t))
          /\ Cardinality(Others \cup PlacedIn(t)) = Cardinality(Others) + Cardinality(PlacedIn(t)) - Cardinality(Others \cap PlacedIn(t))
      BY <1>1, <2>3, FS_Union
    <2>6. Cardinality(Others) \in Nat /\ Cardinality({}) = 0
      BY <1>1, FS_CardinalityType, FS_EmptySet
    <2>7. Cardinality(Others \cap PlacedIn(t)) = 0
      BY <2>4, <2>6, Zenon
    <2>8. Cardinality(Others \cup PlacedIn(t)) \in Nat
      BY <2>5, FS_CardinalityType, Zenon
    <2> QED
      BY <2>1, <2>3, <2>5, <2>6, <2>7, <2>8
  <1>5. list[l] \in Seq(Objects \cup {Null})
    OBVIOUS
  <1>6. /\ Cardinality(EntriesOf(list, o)) = Cardinality(Others) + Occurs(o, list[l])
        /\ Occurs(o, list[l]) \in Nat
    BY <1>2, <1>4, <1>5
  <1>7. /\ IsFiniteSet(EntriesOf(list', o)) /\ Cardinality(EntriesOf(list', o)) \in Nat
        /\ Cardinality(EntriesOf(list', o)) = Cardinality(Others) + Occurs(o, s)
        /\ Occurs(o, s) \in Nat /\ Cardinality(Others) \in Nat
    BY <1>3, <1>4
  <1> QED
    BY <1>6, <1>7

\* An object with c entries, r references and h holders that gets d, q and g.
Counting(r, h, q, g, c, d, x, y) ==
    /\ r \in Nat /\ h \in Nat /\ q \in Int /\ g \in Nat /\ c \in Nat /\ d \in Nat /\ x \in Nat /\ y \in Nat
    /\ q - g - y = r - h - x /\ r = h + c /\ d = c - x + y

\* The arithmetic of a step that keeps the balance.
LEMMA StillCounted == \A r, h, q, g, c, d, x, y : Counting(r, h, q, g, c, d, x, y) => q = g + d
  BY DEF Counting

\* What a step that changes one list must balance.
LEMMA Balanced ==
  ASSUME ReferencesInv, NEW l \in Lists, NEW s \in Seq(Objects \cup {Null}),
         list' = [list EXCEPT ![l] = s],
         held' \in [Objects -> Nat], ref' \in [Objects -> Int],
         \A o \in OnStack : ref'[o] \in Nat,
         \A o \in Objects \ OnStack :
            ref'[o] - held'[o] - Occurs(o, s) = ref[o] - held[o] - Occurs(o, list[l])
  PROVE  ReferencesInv'
  <1>1. list \in [Lists -> Seq(Objects \cup {Null})] /\ list' \in [Lists -> Seq(Objects \cup {Null})]
    BY DEF ReferencesInv, RefsTyped
  <1>2. ASSUME NEW o \in Objects
        PROVE  /\ IsFiniteSet(ListEntries(o)') /\ Cardinality(ListEntries(o)') \in Nat /\ Cardinality(ListEntries(o)) \in Nat
               /\ Cardinality(ListEntries(o)') = Cardinality(ListEntries(o)) - Occurs(o, list[l]) + Occurs(o, s)
    <2>1. ListEntries(o) = EntriesOf(list, o) /\ ListEntries(o)' = EntriesOf(list', o)
      BY DEF ListEntries, EntriesOf, PlacesIn
    <2>2. IsFiniteSet(EntriesOf(list, o))
      BY <2>1 DEF ReferencesInv, RefsTyped
    <2>3. Cardinality(EntriesOf(list, o)) \in Nat
      BY <2>2, FS_CardinalityType
    <2>4. /\ IsFiniteSet(EntriesOf(list', o)) /\ Cardinality(EntriesOf(list', o)) \in Nat
          /\ Cardinality(EntriesOf(list', o)) = Cardinality(EntriesOf(list, o)) - Occurs(o, list[l]) + Occurs(o, s)
      BY <1>1, <2>2, EntriesChange, Zenon
    <2> QED
      BY <2>1, <2>3, <2>4
  <1>3. ASSUME NEW o \in Objects \ OnStack
        PROVE  ref'[o] = held'[o] + Cardinality(ListEntries(o)')
    <2>1. Occurs(o, s) \in Nat /\ Occurs(o, list[l]) \in Nat
      BY <1>1, PlacesFinite
    <2>2. /\ ref[o] \in Nat /\ held[o] \in Nat /\ ref'[o] \in Int /\ held'[o] \in Nat
          /\ ref[o] = held[o] + Cardinality(ListEntries(o))
      BY DEF ReferencesInv, RefsTyped, RefsCounted
    <2>3. ref'[o] - held'[o] - Occurs(o, s) = ref[o] - held[o] - Occurs(o, list[l])
      OBVIOUS
    <2>4. /\ Cardinality(ListEntries(o)') \in Nat /\ Cardinality(ListEntries(o)) \in Nat
          /\ Cardinality(ListEntries(o)') = Cardinality(ListEntries(o)) - Occurs(o, list[l]) + Occurs(o, s)
      BY <1>2
    <2>5. Counting(ref[o], held[o], ref'[o], held'[o], Cardinality(ListEntries(o)), Cardinality(ListEntries(o)'),
                   Occurs(o, list[l]), Occurs(o, s))
      BY <2>1, <2>2, <2>3, <2>4, Zenon DEF Counting
    <2> QED
      BY <2>5, StillCounted, Zenon
  <1>4. ref' \in [Objects -> Nat]
    <2>1. \A o \in Objects : ref'[o] \in Nat
      BY <1>2, <1>3
    <2> QED
      BY <2>1
  <1> QED
    BY <1>1, <1>2, <1>3, <1>4 DEF ReferencesInv, RefsTyped, RefsCounted

\* A step that changes no list.
LEMMA BalancedAlone ==
  ASSUME ReferencesInv, list' = list,
         held' \in [Objects -> Nat], ref' \in [Objects -> Int],
         \A o \in OnStack : ref'[o] \in Nat,
         \A o \in Objects \ OnStack : ref'[o] - held'[o] = ref[o] - held[o]
  PROVE  ReferencesInv'
  <1>1. ASSUME NEW o \in Objects
        PROVE  ListEntries(o)' = ListEntries(o) /\ IsFiniteSet(ListEntries(o)) /\ Cardinality(ListEntries(o)) \in Nat
    BY FS_CardinalityType DEF ListEntries, ReferencesInv, RefsTyped
  <1>2. ASSUME NEW o \in Objects \ OnStack
        PROVE  ref'[o] = held'[o] + Cardinality(ListEntries(o))
    BY <1>1 DEF ReferencesInv, RefsTyped, RefsCounted
  <1>3. ref' \in [Objects -> Nat]
    <2>1. \A o \in Objects : ref'[o] \in Nat
      BY <1>1, <1>2
    <2> QED
      BY <2>1
  <1>4. \A o \in Objects \ OnStack : ref'[o] = held'[o] + Cardinality(ListEntries(o)')
    BY <1>1, <1>2
  <1> QED
    BY <1>1, <1>3, <1>4 DEF ReferencesInv, RefsTyped, RefsCounted

\* References gained and dropped, one for each occurrence.
LEMMA CountsType ==
  ASSUME ReferencesInv, NEW s \in Seq(Objects \cup {Null})
  PROVE  /\ Gained(s) \in [Objects -> Nat] /\ Dropped(s) \in [Objects -> Int] /\ Hold(s) \in [Objects -> Nat]
         /\ \A o \in OnStack : Dropped(s)[o] \in Nat
         /\ \A o \in Objects : Gained(s)[o] = ref[o] + Occurs(o, s) /\ Hold(s)[o] = held[o] + Occurs(o, s)
         /\ \A o \in Objects \ OnStack : Dropped(s)[o] = ref[o] - Occurs(o, s)
  <1>1. \A o \in Objects : Occurs(o, s) \in Nat /\ ref[o] \in Nat /\ held[o] \in Nat
    BY PlacesFinite DEF ReferencesInv, RefsTyped
  <1> QED
    BY <1>1, ObjectAssumption DEF Gained, Dropped, Hold

\* An object without references is nowhere.
LEMMA FreeUnheld ==
  ASSUME ReferencesInv, NEW o \in Free \ OnStack
  PROVE  o \in Objects /\ ref[o] = 0 /\ held[o] = 0
  <1>1. o \in Objects /\ ref[o] = 0 /\ held[o] \in Nat /\ ref[o] = held[o] + Cardinality(ListEntries(o))
    BY DEF Free, ReferencesInv, RefsTyped, RefsCounted
  <1>2. Cardinality(ListEntries(o)) \in Nat
    BY <1>1, FS_CardinalityType DEF ReferencesInv, RefsTyped
  <1> QED
    BY <1>1, <1>2

\* Objects on the stack are objects.
LEMMA StackObjects == OnStack \subseteq Objects /\ Null \notin Objects
  BY ObjectAssumption

\* One entry holds an object once or not at all.
LEMMA OneIs == \A n, x : OneWhere(n, x) \in Nat /\ Occurs(x, <<n>>) = OneWhere(n, x)
  BY OccursOne DEF OneWhere

\* Calls that change the content of objects leave the references alone.
LEMMA EditsKeepRefs == Edit => UNCHANGED refVars
  <1> SUFFICES ASSUME Edit PROVE UNCHANGED refVars
    OBVIOUS
  <1> PICK o \in Objects, s \in Objects, path \in Seq(Nat) \ {<<>>}, value \in Seq(Nat), p \in Nat, q \in Nat :
        \/ AddValue(o, path, value) \/ AddObject(o, path, s)
        \/ Delete(o, p) \/ DeleteIt(o, p) \/ Replace(o, p, q)
        \/ \E dup \in BOOLEAN : Merge(o, s, dup)
        \/ Clone(o, s) \/ FromArray(o, s) \/ Swap(o, s)
    BY Zenon DEF Edit
  <1>1. CASE AddValue(o, path, value) \/ AddObject(o, path, s)
    BY <1>1, Zenon DEF AddValue, AddObject, Add
  <1>2. CASE Delete(o, p) \/ DeleteIt(o, p) \/ Replace(o, p, q)
    BY <1>2, Zenon DEF Delete, DeleteIt, Replace
  <1>3. CASE \E dup \in BOOLEAN : Merge(o, s, dup)
    BY <1>3, Zenon DEF Merge
  <1>4. CASE Clone(o, s) \/ FromArray(o, s) \/ Swap(o, s)
    BY <1>4, Zenon DEF Clone, FromArray, Swap
  <1> QED
    BY <1>1, <1>2, <1>3, <1>4, Zenon

\* An object is made, or a caller takes or gives back a reference.
LEMMA CallerSteps ==
  ASSUME ReferencesInv, NEW o \in Objects, Create(o) \/ Reference(o) \/ ObjectDelete(o)
  PROVE  ReferencesInv'
  <1>1. ref \in [Objects -> Nat] /\ held \in [Objects -> Nat]
    BY DEF ReferencesInv, RefsTyped
  <1>2. CASE Create(o)
    <2>1. /\ list' = list /\ ref' = [ref EXCEPT ![o] = 1] /\ held' = [held EXCEPT ![o] = 1] /\ o \in Free
      BY <1>2 DEF Create
    <2>2. o \notin OnStack => ref[o] = 0 /\ held[o] = 0
      BY <2>1, FreeUnheld
    <2>3. \A x \in Objects \ OnStack : ref'[x] - held'[x] = ref[x] - held[x]
      BY <1>1, <2>1, <2>2
    <2>4. held' \in [Objects -> Nat] /\ ref' \in [Objects -> Int] /\ \A x \in OnStack : ref'[x] \in Nat
      BY <1>1, <2>1, StackObjects
    <2> QED
      BY <2>1, <2>3, <2>4, BalancedAlone
  <1>3. CASE Reference(o)
    <2>1. /\ list' = list /\ ref' = [ref EXCEPT ![o] = @ + 1] /\ held' = [held EXCEPT ![o] = @ + 1]
      BY <1>3 DEF Reference
    <2>2. \A x \in Objects \ OnStack : ref'[x] - held'[x] = ref[x] - held[x]
      BY <1>1, <2>1
    <2>3. held' \in [Objects -> Nat] /\ ref' \in [Objects -> Int] /\ \A x \in OnStack : ref'[x] \in Nat
      BY <1>1, <2>1, StackObjects
    <2> QED
      BY <2>1, <2>2, <2>3, BalancedAlone
  <1>4. CASE ObjectDelete(o)
    <2>1. /\ list' = list /\ ref' = Dropped(<<o>>) /\ held' = [held EXCEPT ![o] = @ - 1] /\ held[o] > 0
      BY <1>4 DEF ObjectDelete
    <2>2. <<o>> \in Seq(Objects \cup {Null})
      OBVIOUS
    <2>3. /\ ref' \in [Objects -> Int] /\ \A x \in OnStack : ref'[x] \in Nat
          /\ \A x \in Objects \ OnStack : ref'[x] = ref[x] - Occurs(x, <<o>>)
      BY <2>1, <2>2, CountsType
    <2>4. \A x \in Objects \ OnStack : ref'[x] - held'[x] = ref[x] - held[x]
      BY <1>1, <2>1, <2>3, OneIs DEF OneWhere
    <2>5. held' \in [Objects -> Nat]
      BY <1>1, <2>1
    <2> QED
      BY <2>1, <2>3, <2>4, <2>5, BalancedAlone
  <1> QED
    BY <1>2, <1>3, <1>4

\* A step that puts one object at the end of a list.
LEMMA BalancedAppend ==
  ASSUME ReferencesInv, NEW l \in Lists, NEW n \in Objects,
         list' = [list EXCEPT ![l] = Append(list[l], n)],
         held' \in [Objects -> Nat], ref' \in [Objects -> Nat],
         \A x \in Objects \ OnStack : ref'[x] - held'[x] = ref[x] - held[x] + OneWhere(n, x)
  PROVE  ReferencesInv'
  <1>1. /\ ref \in [Objects -> Nat] /\ held \in [Objects -> Nat] /\ list[l] \in Seq(Objects \cup {Null})
    BY DEF ReferencesInv, RefsTyped
  <1>2. n \in Objects \cup {Null} /\ Append(list[l], n) \in Seq(Objects \cup {Null})
    BY <1>1
  <1>3. ASSUME NEW x \in Objects
        PROVE  Occurs(x, Append(list[l], n)) = Occurs(x, list[l]) + OneWhere(n, x) /\ Occurs(x, list[l]) \in Nat
    <2>1. Occurs(x, Append(list[l], n)) = Occurs(x, list[l]) + OneWhere(n, x)
      BY <1>1, <1>2, OccursAppend, Zenon
    <2>2. Occurs(x, list[l]) = Cardinality(PlacesIn(x, list[l])) /\ Cardinality(PlacesIn(x, list[l])) \in Nat
      BY <1>1, PlacesFinite, Zenon
    <2> QED
      BY <2>1, <2>2
  <1>4. \A x \in Objects \ OnStack :
           ref'[x] - held'[x] - Occurs(x, Append(list[l], n)) = ref[x] - held[x] - Occurs(x, list[l])
    BY <1>1, <1>3, OneIs
  <1>5. ref' \in [Objects -> Int] /\ \A x \in OnStack : ref'[x] \in Nat
    BY StackObjects
  <1> QED
    BY <1>2, <1>4, <1>5, Balanced

\* The calls that put one object at the end of a list keep the balance.
LEMMA AppendSteps ==
  ASSUME ReferencesInv, NEW l \in Lists, NEW o \in Objects,
         ListAppend(l, o) \/ ListAppendRef(l, o) \/ ListAppendClone(l, o) \/ ListCreate(l, o)
  PROVE  ReferencesInv'
  <1>1. ref \in [Objects -> Nat] /\ held \in [Objects -> Nat]
    BY DEF ReferencesInv, RefsTyped
  <1>2. ASSUME NEW n \in Objects
        PROVE  Gained(<<n>>) \in [Objects -> Nat] /\ \A x \in Objects : Gained(<<n>>)[x] = ref[x] + OneWhere(n, x)
    <2>1. <<n>> \in Seq(Objects \cup {Null})
      OBVIOUS
    <2> QED
      BY <2>1, CountsType, OneIs
  <1>3. CASE ListAppend(l, o)
    <2>1. list' = [list EXCEPT ![l] = Append(list[l], o)] /\ held' = [held EXCEPT ![o] = @ - 1] /\ held[o] > 0 /\ ref' = ref
      BY <1>3 DEF ListAppend
    <2>2. held' \in [Objects -> Nat]
      BY <1>1, <2>1
    <2>3. \A x \in Objects \ OnStack : ref'[x] - held'[x] = ref[x] - held[x] + OneWhere(o, x)
      BY <1>1, <2>1 DEF OneWhere
    <2> QED
      BY <1>1, <2>1, <2>2, <2>3, BalancedAppend
  <1>4. CASE ListAppendRef(l, o)
    <2>1. list' = [list EXCEPT ![l] = Append(list[l], o)] /\ held' = held /\ ref' = Gained(<<o>>)
      BY <1>4 DEF ListAppendRef
    <2>2. \A x \in Objects \ OnStack : ref'[x] - held'[x] = ref[x] - held[x] + OneWhere(o, x)
      BY <1>1, <1>2, <2>1, OneIs
    <2> QED
      BY <1>1, <1>2, <2>1, <2>2, BalancedAppend
  <1>5. CASE ListAppendClone(l, o)
    <2>1. PICK n \in Free : list' = [list EXCEPT ![l] = Append(list[l], n)] /\ held' = held /\ ref' = Gained(<<n>>)
      BY <1>5 DEF ListAppendClone, Copied
    <2>2. n \in Objects
      BY DEF Free
    <2>3. \A x \in Objects \ OnStack : ref'[x] - held'[x] = ref[x] - held[x] + OneWhere(n, x)
      BY <1>1, <1>2, <2>1, <2>2, OneIs
    <2> QED
      BY <1>1, <1>2, <2>1, <2>2, <2>3, BalancedAppend
  <1>6. CASE ListCreate(l, o)
    <2>1. list' = [list EXCEPT ![l] = Append(list[l], o)] /\ held' = held /\ ref' = [ref EXCEPT ![o] = 1] /\ ref[o] = 0
      BY <1>6 DEF ListCreate, Free
    <2>2. ref' \in [Objects -> Nat]
      BY <1>1, <2>1
    <2>3. \A x \in Objects \ OnStack : ref'[x] - held'[x] = ref[x] - held[x] + OneWhere(o, x)
      BY <1>1, <2>1 DEF OneWhere
    <2> QED
      BY <1>1, <2>1, <2>2, <2>3, BalancedAppend
  <1> QED
    BY <1>3, <1>4, <1>5, <1>6

\* The objects of a list go into another one, with a reference each.
LEMMA CopySteps ==
  ASSUME ReferencesInv, NEW l \in Lists, NEW m \in Lists,
         \/ \E start, number \in Nat : ListMerge(l, m, start, number)
         \/ \E deep \in BOOLEAN : ListClone(l, m, deep)
  PROVE  ReferencesInv'
  <1> DEFINE Refs == Seq(Objects \cup {Null})
  <1>1. ref \in [Objects -> Nat] /\ held \in [Objects -> Nat] /\ list[l] \in Refs /\ list[m] \in Refs
    BY DEF ReferencesInv, RefsTyped
  <1>2. PICK s \in Refs : list' = [list EXCEPT ![l] = list[l] \o s] /\ ref' = Gained(s) /\ held' = held
    <2>1. ASSUME NEW start \in Nat, NEW number \in Nat, ListMerge(l, m, start, number)
          PROVE  \E s \in Refs : list' = [list EXCEPT ![l] = list[l] \o s] /\ ref' = Gained(s) /\ held' = held
      <3> DEFINE s == SubSeq(list[m], start + 1, start + number)
      <3>1. s \in Refs
        BY <1>1, <2>1 DEF ListMerge
      <3>2. list' = [list EXCEPT ![l] = list[l] \o s] /\ ref' = Gained(s) /\ held' = held
        BY <2>1 DEF ListMerge
      <3> QED
        BY <3>1, <3>2
    <2>2. ASSUME NEW deep \in BOOLEAN, ListClone(l, m, deep)
          PROVE  \E s \in Refs : list' = [list EXCEPT ![l] = list[l] \o s] /\ ref' = Gained(s) /\ held' = held
      <3>1. list[l] = <<>> /\ \A s \in Refs : <<>> \o s = s
        BY <2>2 DEF ListClone
      <3>2. \E s \in Refs : list' = [list EXCEPT ![l] = s] /\ ref' = Gained(s) /\ held' = held
        <4>1. CASE deep
          <5>1. PICK n \in [DOMAIN list[m] -> Free \cup {Null}] :
                   list' = [list EXCEPT ![l] = n] /\ ref' = Gained(n) /\ held' = held
            BY <2>2, <4>1 DEF ListClone, Copied
          <5>2. n \in Refs
            BY <1>1 DEF Free
          <5> QED
            BY <5>1, <5>2
        <4>2. CASE ~deep
          BY <2>2, <4>2, <1>1 DEF ListClone
        <4> QED
          BY <4>1, <4>2
      <3> QED
        BY <3>1, <3>2
    <2> QED
      BY <2>1, <2>2
  <1>3. list[l] \o s \in Refs
    BY <1>1
  <1>4. ASSUME NEW x \in Objects
        PROVE  /\ Occurs(x, list[l] \o s) = Occurs(x, list[l]) + Occurs(x, s)
               /\ Occurs(x, list[l]) \in Nat /\ Occurs(x, s) \in Nat
    BY <1>1, OccursConcat, PlacesFinite
  <1>5. Gained(s) \in [Objects -> Nat] /\ \A x \in Objects : Gained(s)[x] = ref[x] + Occurs(x, s)
    BY CountsType
  <1>6. \A x \in Objects \ OnStack :
           ref'[x] - held'[x] - Occurs(x, list[l] \o s) = ref[x] - held[x] - Occurs(x, list[l])
    BY <1>1, <1>2, <1>4, <1>5
  <1>7. ref' \in [Objects -> Int] /\ (\A x \in OnStack : ref'[x] \in Nat) /\ held' \in [Objects -> Nat]
    BY <1>1, <1>2, <1>5, StackObjects
  <1> QED
    BY <1>2, <1>3, <1>6, <1>7, Balanced

\* A list is cleared, or one entry is taken out.
LEMMA RemoveSteps ==
  ASSUME ReferencesInv, NEW l \in Lists,
         \/ \E delete_objects \in BOOLEAN : ListClear(l, delete_objects)
         \/ \E k \in Nat : ListRemove(l, k)
  PROVE  ReferencesInv'
  <1> DEFINE Refs == Seq(Objects \cup {Null})
  <1>1. ref \in [Objects -> Nat] /\ held \in [Objects -> Nat] /\ list[l] \in Refs
    BY DEF ReferencesInv, RefsTyped
  <1>2. /\ \A x \in Objects : Occurs(x, list[l]) \in Nat /\ Occurs(x, <<>>) = 0
        /\ <<>> \in Refs
    BY <1>1, PlacesFinite, OccursNone
  <1>3. ASSUME ListClear(l, TRUE) PROVE ReferencesInv'
    <2>1. list' = [list EXCEPT ![l] = <<>>] /\ ref' = Dropped(list[l]) /\ held' = held
      BY <1>3 DEF ListClear
    <2>2. /\ ref' \in [Objects -> Int] /\ \A x \in OnStack : ref'[x] \in Nat
          /\ \A x \in Objects \ OnStack : ref'[x] = ref[x] - Occurs(x, list[l])
      BY <1>1, <2>1, CountsType
    <2>3. \A x \in Objects \ OnStack :
             ref'[x] - held'[x] - Occurs(x, <<>>) = ref[x] - held[x] - Occurs(x, list[l])
      BY <1>1, <1>2, <2>1, <2>2
    <2> QED
      BY <1>1, <1>2, <2>1, <2>2, <2>3, Balanced
  <1>4. ASSUME ListClear(l, FALSE) PROVE ReferencesInv'
    <2>1. list' = [list EXCEPT ![l] = <<>>] /\ ref' = ref /\ held' = Hold(list[l])
      BY <1>4 DEF ListClear
    <2>2. held' \in [Objects -> Nat] /\ \A x \in Objects : held'[x] = held[x] + Occurs(x, list[l])
      BY <1>1, <2>1, CountsType
    <2>3. \A x \in Objects \ OnStack :
             ref'[x] - held'[x] - Occurs(x, <<>>) = ref[x] - held[x] - Occurs(x, list[l])
      BY <1>1, <1>2, <2>1, <2>2
    <2>4. ref' \in [Objects -> Int] /\ \A x \in OnStack : ref'[x] \in Nat
      BY <1>1, <2>1, StackObjects
    <2> QED
      BY <1>2, <2>1, <2>2, <2>3, <2>4, Balanced
  <1>5. ASSUME NEW k \in Nat, ListRemove(l, k) PROVE ReferencesInv'
    <2> DEFINE s == RemoveAt(list[l], k)
    <2>1. /\ list' = [list EXCEPT ![l] = s] /\ ref' = ref /\ held' = Hold(<<list[l][k]>>)
          /\ k \in DOMAIN list[l]
      BY <1>5 DEF ListRemove
    <2>2. list[l][k] \in Objects \cup {Null} /\ <<list[l][k]>> \in Refs
      BY <1>1, <2>1
    <2>3. held' \in [Objects -> Nat] /\ \A x \in Objects : held'[x] = held[x] + OneWhere(list[l][k], x)
      BY <2>1, <2>2, CountsType, OneIs
    <2>4. s \in Refs /\ \A x \in Objects : Occurs(x, s) = Occurs(x, list[l]) - OneWhere(list[l][k], x)
      BY <1>1, <2>1, OccursRemoveAt DEF OneWhere
    <2> HIDE DEF s
    <2>5. ASSUME NEW x \in Objects \ OnStack
          PROVE  ref'[x] - held'[x] - Occurs(x, s) = ref[x] - held[x] - Occurs(x, list[l])
      <3> DEFINE w == OneWhere(list[l][k], x)
      <3>1. ref'[x] = ref[x] /\ held'[x] = held[x] + w /\ Occurs(x, s) = Occurs(x, list[l]) - w
        BY <2>1, <2>3, <2>4
      <3>2. ref[x] \in Nat /\ held[x] \in Nat /\ Occurs(x, list[l]) \in Nat /\ w \in Nat
        BY <1>1, <1>2, OneIs
      <3> HIDE DEF w
      <3> QED
        BY <3>1, <3>2
    <2>6. ref' \in [Objects -> Int] /\ \A x \in OnStack : ref'[x] \in Nat
      BY <1>1, <2>1, StackObjects
    <2> QED
      BY <2>1, <2>3, <2>4, <2>5, <2>6, Balanced
  <1> QED
    BY <1>3, <1>4, <1>5

\* An entry is written: the object that was there is dropped or goes to the
\* caller.
LEMMA SetSteps ==
  ASSUME ReferencesInv, NEW l \in Lists, NEW o \in Objects \cup {Null}, NEW k \in Nat \ {0}, NEW free_prev \in BOOLEAN,
         ListSet(l, k, o, free_prev)
  PROVE  ReferencesInv'
  <1> DEFINE Refs == Seq(Objects \cup {Null})
             n == Max({k, Len(list[l])})
             grown == [i \in 1 .. n |-> IF i \in DOMAIN list[l] THEN list[l][i] ELSE Null]
             s == [grown EXCEPT ![k] = o]
  <1>1. ref \in [Objects -> Nat] /\ held \in [Objects -> Nat] /\ list[l] \in Refs
    BY DEF ReferencesInv, RefsTyped
  <1>2. n \in Nat /\ n >= k /\ n >= Len(list[l])
    <2>1. Len(list[l]) \in Nat
      BY <1>1
    <2>2. \E x \in {k, Len(list[l])} : \A y \in {k, Len(list[l])} : x >= y
      BY <2>1
    <2> QED
      BY <2>1, <2>2 DEF Max
  <1>3. grown \in Refs /\ DOMAIN grown = 1 .. n /\ k \in DOMAIN grown
    <2> HIDE DEF n
    <2> QED
      BY <1>1, <1>2
  <1>7. grown[k] \in Objects \cup {Null} /\ o \in Objects \cup {Null}
    <2> HIDE DEF n
    <2> QED
      BY <1>1, <1>2
  <1>4. ASSUME NEW x \in Objects PROVE Occurs(x, grown) = Occurs(x, list[l])
    <2>1. {j \in DOMAIN grown : grown[j] = x} = {j \in DOMAIN list[l] : list[l][j] = x}
      <3> HIDE DEF n
      <3>1. DOMAIN list[l] \subseteq 1 .. n
        BY <1>1, <1>2
      <3> QED
        BY <3>1, <1>3, StackObjects
    <2> QED
      BY <2>1 DEF Occurs
  <1>5. list' = [list EXCEPT ![l] = s] /\ (o # Null => held[o] > 0)
    BY DEF ListSet
  <1>6. \/ ref' = Dropped(<<grown[k]>>) /\ held' = GivenAway(held, o)
        \/ ref' = ref /\ held' = GivenAway(Hold(<<grown[k]>>), o)
    BY DEF ListSet
  <1> HIDE DEF grown, n
  <1>8. s \in Refs /\ \A x \in Objects : Occurs(x, s) = Occurs(x, grown) - OneWhere(grown[k], x) + OneWhere(o, x)
    <2> DEFINE S == Objects \cup {Null}
    <2>1. grown \in Seq(S) /\ o \in S /\ k \in DOMAIN grown
      BY <1>3, <1>7
    <2> HIDE DEF S
    <2>2. s \in Seq(S)
      BY <2>1, OccursExcept, Zenon
    <2>3. ASSUME NEW x \in Objects
          PROVE  Occurs(x, s) = Occurs(x, grown) - OneWhere(grown[k], x) + OneWhere(o, x)
      BY <2>1, OccursExcept
    <2> QED
      BY <2>2, <2>3 DEF S
  <1> HIDE DEF s
  <1>14. <<grown[k]>> \in Refs
    BY <1>7
  <1>9. /\ Dropped(<<grown[k]>>) \in [Objects -> Int] /\ Hold(<<grown[k]>>) \in [Objects -> Nat]
        /\ \A x \in OnStack : Dropped(<<grown[k]>>)[x] \in Nat
        /\ \A x \in Objects : Hold(<<grown[k]>>)[x] = held[x] + OneWhere(grown[k], x)
        /\ \A x \in Objects \ OnStack : Dropped(<<grown[k]>>)[x] = ref[x] - OneWhere(grown[k], x)
    BY <1>14, CountsType, OneIs
  <1>10. \A x \in Objects : Occurs(x, list[l]) \in Nat /\ OneWhere(grown[k], x) \in Nat
                            /\ Occurs(x, s) = Occurs(x, list[l]) - OneWhere(grown[k], x) + OneWhere(o, x)
    BY <1>1, <1>4, <1>8, PlacesFinite, OneIs
  <1>15. \A x \in Objects : x = o => held[x] > 0
    BY <1>5, StackObjects
  <1>11. CASE ref' = Dropped(<<grown[k]>>) /\ held' = GivenAway(held, o)
    <2>1. held' \in [Objects -> Nat] /\ \A x \in Objects : held'[x] = held[x] - OneWhere(o, x)
      BY <1>1, <1>11, <1>15 DEF OneWhere, GivenAway
    <2>2. \A x \in Objects \ OnStack :
             ref'[x] - held'[x] - Occurs(x, s) = ref[x] - held[x] - Occurs(x, list[l])
      <3> SUFFICES ASSUME NEW x \in Objects \ OnStack
                   PROVE  ref'[x] - held'[x] - Occurs(x, s) = ref[x] - held[x] - Occurs(x, list[l])
        OBVIOUS
      <3>1. ref'[x] = ref[x] - OneWhere(grown[k], x) /\ held'[x] = held[x] - OneWhere(o, x)
        BY <1>9, <1>11, <2>1
      <3>2. ref[x] \in Nat /\ held[x] \in Nat /\ OneWhere(o, x) \in Nat
        BY <1>1, OneIs
      <3> QED
        BY <1>10, <3>1, <3>2
    <2>3. ref' \in [Objects -> Int] /\ \A x \in OnStack : ref'[x] \in Nat
      BY <1>9, <1>11
    <2> QED
      BY <1>5, <1>8, <2>1, <2>2, <2>3, Balanced
  <1>12. CASE ref' = ref /\ held' = GivenAway(Hold(<<grown[k]>>), o)
    <2>1. held' \in [Objects -> Nat] /\ \A x \in Objects : held'[x] = held[x] + OneWhere(grown[k], x) - OneWhere(o, x)
      <3> DEFINE h == Hold(<<grown[k]>>)
      <3>1. h \in [Objects -> Nat] /\ \A x \in Objects : x = o => h[x] > 0
        <4> SUFFICES ASSUME NEW x \in Objects, x = o PROVE h[x] > 0
          BY <1>9
        <4>1. held[x] \in Nat /\ held[x] > 0 /\ OneWhere(grown[k], x) \in Nat
          BY <1>1, <1>15, OneIs
        <4> QED
          BY <1>9, <4>1
      <3> HIDE DEF h
      <3>2. held' = GivenAway(h, o)
        BY <1>12 DEF h
      <3>3. held' \in [Objects -> Nat] /\ \A x \in Objects : held'[x] = h[x] - OneWhere(o, x)
        BY <3>1, <3>2 DEF OneWhere, GivenAway
      <3>4. \A x \in Objects : h[x] = held[x] + OneWhere(grown[k], x)
        BY <1>9 DEF h
      <3>5. ASSUME NEW x \in Objects PROVE held'[x] = held[x] + OneWhere(grown[k], x) - OneWhere(o, x)
        <4> DEFINE w == OneWhere(o, x)
                   v == OneWhere(grown[k], x)
        <4>1. held'[x] = h[x] - w /\ h[x] = held[x] + v /\ held[x] \in Nat /\ v \in Nat /\ w \in Nat
          BY <1>1, <3>3, <3>4, OneIs
        <4> HIDE DEF w, v
        <4>2. held'[x] = held[x] + v - w
          BY <4>1
        <4> QED
          BY <4>2 DEF w, v
      <3> QED
        BY <3>3, <3>5
    <2>2. \A x \in Objects \ OnStack :
             ref'[x] - held'[x] - Occurs(x, s) = ref[x] - held[x] - Occurs(x, list[l])
      <3> SUFFICES ASSUME NEW x \in Objects \ OnStack
                   PROVE  ref'[x] - held'[x] - Occurs(x, s) = ref[x] - held[x] - Occurs(x, list[l])
        OBVIOUS
      <3>1. ref'[x] = ref[x] /\ held'[x] = held[x] + OneWhere(grown[k], x) - OneWhere(o, x)
        BY <1>12, <2>1
      <3>2. ref[x] \in Nat /\ held[x] \in Nat /\ OneWhere(o, x) \in Nat
        BY <1>1, OneIs
      <3> QED
        BY <1>10, <3>1, <3>2
    <2>3. ref' \in [Objects -> Int] /\ \A x \in OnStack : ref'[x] \in Nat
      BY <1>1, <1>12, StackObjects
    <2> QED
      BY <1>5, <1>8, <2>1, <2>2, <2>3, Balanced
  <1> QED
    BY <1>6, <1>11, <1>12

\* The caller holds the objects it was given, and no list has an entry.
LEMMA RefsInitInv ==
  ASSUME NEW made \in SUBSET Objects, NEW first, NEW content, NEW size, ObjectInit(made, first, content, size)
  PROVE  ReferencesInv
  <1>1. ref \in [Objects -> Nat] /\ held = ref
    BY DEF ObjectInit
  <1>2. list \in [Lists -> Seq(Objects \cup {Null})] /\ \A l \in Lists : list[l] = <<>>
    BY DEF ObjectInit
  <1>3. \A o \in Objects : ListEntries(o) = {}
    BY <1>2 DEF ListEntries
  <1>4. IsFiniteSet({}) /\ Cardinality({}) = 0
    BY FS_EmptySet
  <1>5. \A o \in Objects : IsFiniteSet(ListEntries(o)) /\ Cardinality(ListEntries(o)) = 0
    BY <1>3, <1>4, Zenon
  <1> QED
    BY <1>1, <1>2, <1>5 DEF ReferencesInv, RefsTyped, RefsCounted

\* Every call keeps the counts.
LEMMA RefsNextInv == ReferencesInv /\ [Edit \/ Move]_objectVars => ReferencesInv'
  <1> SUFFICES ASSUME ReferencesInv, [Edit \/ Move]_objectVars PROVE ReferencesInv'
    OBVIOUS
  <1>1. CASE Edit \/ UNCHANGED objectVars
    <2>1. UNCHANGED refVars
      BY <1>1, EditsKeepRefs DEF objectVars
    <2>2. ref' = ref /\ held' = held /\ list' = list
      BY <2>1 DEF refVars
    <2>3. ref' \in [Objects -> Int] /\ held' \in [Objects -> Nat] /\ \A o \in OnStack : ref'[o] \in Nat
      BY <2>2, StackObjects DEF ReferencesInv, RefsTyped
    <2> QED
      BY <2>2, <2>3, BalancedAlone
  <1>2. CASE Move
    BY <1>2, CallerSteps, AppendSteps, CopySteps, RemoveSteps, SetSteps DEF Move
  <1> QED
    BY <1>1, <1>2

\* The reference count of an object is the number of its holders, for any
\* number of objects and lists and any order of calls: nobody holds an object
\* that was given back, and nothing is kept that nobody holds (obj_delloc and
\* the cps_api_object_list functions).
THEOREM CountsRight == ObjectSpec => []RefsCounted
  <1>1. Start => ReferencesInv
    BY RefsInitInv, Zenon DEF Start
  <1>2. ReferencesInv => RefsCounted
    BY DEF ReferencesInv
  <1> QED
    BY <1>1, <1>2, RefsNextInv, PTL DEF ObjectSpec

(* The dictionary *)

\* What a thread may be doing, what may be left to load, and what may be known
\* of a number.
LookupCall == {Idle} \cup [pc : {"init", "load", "look"}, op : DOMAIN Ops, node : YangNodes]
FileEntries == UNION {Range(f.entries) : f \in Files}
LibraryEntries == UNION {LibEntries(m) : m \in DOMAIN ids}
LibraryLeft == [libs : Seq(DOMAIN ids), seen : SUBSET DOMAIN ids, entries : Seq(LibraryEntries), files : SUBSET Files]
FileLeft == [libs : {<<>>}, seen : SUBSET DOMAIN ids, entries : Seq(FileEntries), files : SUBSET Files]
Remaining == LibraryLeft \cup FileLeft
IsDefinition(x) ==
    /\ x = [node |-> x.node, ids |-> x.ids, cached |-> x.cached, keyIds |-> x.keyIds, early |-> x.early]
    /\ x.cached \in BOOLEAN /\ x.early \in BOOLEAN

\* One thread loads, the one that came first, and who waits for the loading
\* comes after it.
OneLoader(th, ld, cl) ==
    /\ ld \in Threads \cup {NoThread} /\ cl \in BOOLEAN
    /\ \A t \in Threads : th[t].pc = "load" <=> ld = t
    /\ ~cl => ld = NoThread
    /\ \A t \in Threads : th[t].pc = "look" /\ Ops[th[t].op].inits => cl

\* A number is that of the node it stands for, and so is the number of a key;
\* the key attributes kept for a number are all of them unless they were kept
\* too early.
DefsRight(d) ==
    /\ d = [i \in DOMAIN d |-> d[i]] /\ \A i \in DOMAIN d : IsDefinition(d[i])
    /\ \A i \in DOMAIN d, n \in YangNodes : d[i].node = n <=> NumberOf(n) = i
KeysRight(d, k) ==
    \A n \in YangNodes :
        /\ KeyOf(n) \in DOMAIN k <=> NumberOf(n) \in DOMAIN d
        /\ KeyOf(n) \in DOMAIN k => k[KeyOf(n)] = NumberOf(n)
CachesRight(d) ==
    \A i \in DOMAIN d, n \in YangNodes :
        /\ d[i].early => d[i].cached
        /\ d[i].node = n /\ d[i].cached /\ ~d[i].early => d[i].keyIds = ToldKeyIds(n)

\* Once somebody has begun to load, every node is known or will be.
ToCome(n, lf) ==
    \/ n[1] \in Range(lf.libs) \ lf.seen
    \/ [kind |-> "node", node |-> n] \in Range(lf.entries)
NodesComing(cl, ld, lf, d) ==
    cl => \A n \in YangNodes : NumberOf(n) \in DOMAIN d \/ (ld # NoThread /\ ToCome(n, lf))

\* The key attributes that were told are all of them, unless it was too early.
AnswerRight(a, d) ==
    a.op = "keys" =>
       \E n \in YangNodes :
          /\ a.node = n
          /\ \/ a.early
             \/ NumberOf(n) \in DOMAIN d /\ (d[NumberOf(n)].early \/ a.value = ToldKeyIds(n))

TablesRight(d, k, cl, ld, lf, a) ==
    DefsRight(d) /\ KeysRight(d, k) /\ CachesRight(d) /\ NodesComing(cl, ld, lf, d) /\ AnswerRight(a, d)

\* The inductive invariant.
DictInv ==
    /\ Installed /\ thread \in [Threads -> LookupCall] /\ left \in Remaining
    /\ OneLoader(thread, loader, claimed)
    /\ ~Collide => TablesRight(defs, keyed, claimed, loader, left, answer)

\* The numbers of the libraries do not change.
LEMMA Static ==
  ASSUME ids' = ids
  PROVE  /\ YangNodes' = YangNodes /\ (Collide' <=> Collide) /\ (Installed' <=> Installed)
         /\ LookupCall' = LookupCall /\ Remaining' = Remaining
         /\ \A n : NumberOf(n)' = NumberOf(n) /\ KeyOf(n)' = KeyOf(n) /\ ToldKeyIds(n)' = ToldKeyIds(n)
  <1>1. YangNodes' = YangNodes
    BY DEF YangNodes
  <1>2. \A n : NumberOf(n)' = NumberOf(n) /\ (IsLeaf(n)' <=> IsLeaf(n))
    BY Zenon DEF NumberOf, IsLeaf
  <1>3. \A n : KeyOf(n)' = KeyOf(n)
    BY Zenon DEF KeyOf, NumberOf, IsLeaf
  <1>4. \A n : ToldKeyIds(n)' = ToldKeyIds(n)
    BY <1>1, <1>2, <1>3, Zenon DEF ToldKeyIds, IsLeaf
  <1>5. Collide' <=> Collide
    BY <1>1, <1>2, Zenon DEF Collide
  <1>6. Installed' <=> Installed
    BY <1>1, <1>2, Zenon DEF Installed
  <1>7. LookupCall' = LookupCall /\ Remaining' = Remaining
    <2>1. \A m : LibEntries(m)' = LibEntries(m)
      BY Zenon DEF LibEntries
    <2>2. LibraryEntries' = LibraryEntries
      BY <2>1, Zenon DEF LibraryEntries
    <2> QED
      BY <1>1, <2>2, Zenon DEF LookupCall, Remaining, LibraryLeft, FileLeft, FileEntries
  <1> QED
    BY <1>1, <1>3, <1>2, <1>4, <1>5, <1>6, <1>7, Zenon

\* What a step has to establish.
LEMMA StepKeeps ==
  ASSUME DictInv, ids' = ids, thread' \in [Threads -> LookupCall], left' \in Remaining,
         OneLoader(thread', loader', claimed'),
         ~Collide => TablesRight(defs', keyed', claimed', loader', left', answer')
  PROVE  DictInv'
  <1>1. /\ YangNodes' = YangNodes /\ (Collide' <=> Collide) /\ Installed'
        /\ LookupCall' = LookupCall /\ Remaining' = Remaining
        /\ \A n : NumberOf(n)' = NumberOf(n) /\ KeyOf(n)' = KeyOf(n) /\ ToldKeyIds(n)' = ToldKeyIds(n)
    BY Static, Zenon DEF DictInv
  <1>3. OneLoader(thread, loader, claimed)'
    BY DEF OneLoader
  <1>4. ASSUME ~Collide' PROVE TablesRight(defs, keyed, claimed, loader, left, answer)'
    <2>1. TablesRight(defs', keyed', claimed', loader', left', answer')
      BY <1>1, <1>4, Zenon
    <2>2. DefsRight(defs)'
      BY <1>1, <2>1, Zenon DEF TablesRight, DefsRight
    <2>3. KeysRight(defs, keyed)'
      BY <1>1, <2>1, Zenon DEF TablesRight, KeysRight
    <2>4. CachesRight(defs)'
      BY <1>1, <2>1, Zenon DEF TablesRight, CachesRight
    <2>5. NodesComing(claimed, loader, left, defs)'
      BY <1>1, <2>1, Zenon DEF TablesRight, NodesComing, ToCome
    <2>6. AnswerRight(answer, defs)'
      BY <1>1, <2>1, Zenon DEF TablesRight, AnswerRight
    <2> QED
      BY <2>2, <2>3, <2>4, <2>5, <2>6, Zenon DEF TablesRight
  <1> QED
    BY <1>1, <1>3, <1>4, Zenon DEF DictInv

\* A node is a name of a library.
LEMMA NodeShape ==
  /\ \A n \in YangNodes : n = <<n[1], n[2]>> /\ n[1] \in DOMAIN ids /\ n[2] \in DOMAIN ids[n[1]]
  /\ \A m \in DOMAIN ids : \A x \in DOMAIN ids[m] : <<m, x>> \in YangNodes
  BY DEF YangNodes

\* The key of a node begins with the number of its list, and the key of a leaf
\* ends with its own.
LEMMA KeyShape ==
  ASSUME Installed, NEW n \in YangNodes
  PROVE  /\ KeyOf(n) \in Seq(Nat) /\ Len(KeyOf(n)) > 0
         /\ <<n[1], "obj">> \in YangNodes /\ KeyOf(n)[1] = NumberOf(<<n[1], "obj">>)
         /\ LET k == IF "key" \in DOMAIN ids[n[1]] THEN 2 ELSE 1
            IN  /\ IsLeaf(n) => Len(KeyOf(n)) = k + 1 /\ KeyOf(n)[k + 1] = NumberOf(n)
                /\ ~IsLeaf(n) => Len(KeyOf(n)) = k
  <1> DEFINE m == n[1]
             objs == <<m, "obj">>
             prefix == IF "key" \in DOMAIN ids[m] THEN <<ids[m].obj, ids[m].key>> ELSE <<ids[m].obj>>
             k == IF "key" \in DOMAIN ids[m] THEN 2 ELSE 1
  <1>1. m \in DOMAIN ids /\ "obj" \in DOMAIN ids[m]
    BY NodeShape DEF Installed
  <1>2. objs \in YangNodes /\ NumberOf(objs) = ids[m].obj /\ ids[m].obj \in Nat
    BY <1>1, NodeShape DEF Installed, NumberOf
  <1>3. "key" \in DOMAIN ids[m] => ids[m].key \in Nat
    <2> SUFFICES ASSUME "key" \in DOMAIN ids[m] PROVE ids[m].key \in Nat
      OBVIOUS
    <2>1. <<m, "key">> \in YangNodes /\ NumberOf(<<m, "key">>) = ids[m].key
      BY <1>1, NodeShape DEF NumberOf
    <2> QED
      BY <2>1 DEF Installed
  <1>4. NumberOf(n) \in Nat
    BY DEF Installed
  <1>5. prefix \in Seq(Nat) /\ Len(prefix) = k /\ prefix[1] = ids[m].obj /\ k \in {1, 2}
    BY <1>2, <1>3
  <1>6. KeyOf(n) = IF IsLeaf(n) THEN Append(prefix, NumberOf(n)) ELSE prefix
    BY DEF KeyOf
  <1> HIDE DEF prefix, k
  <1>7. CASE IsLeaf(n)
    <2>1. KeyOf(n) = Append(prefix, NumberOf(n))
      BY <1>6, <1>7
    <2>2. KeyOf(n) \in Seq(Nat) /\ Len(KeyOf(n)) = k + 1 /\ KeyOf(n)[k + 1] = NumberOf(n) /\ KeyOf(n)[1] = ids[m].obj
      BY <2>1, <1>4, <1>5
    <2> QED
      BY <2>2, <1>2, <1>5, <1>7 DEF k
  <1>8. CASE ~IsLeaf(n)
    <2>1. KeyOf(n) = prefix
      BY <1>6, <1>8
    <2> QED
      BY <2>1, <1>2, <1>5, <1>8 DEF k
  <1> QED
    BY <1>7, <1>8

\* The elements of a key are numbers of nodes.
LEMMA KeyElements ==
  ASSUME Installed, NEW n \in YangNodes, NEW k \in DOMAIN KeyOf(n)
  PROVE  \E x \in YangNodes : NumberOf(x) = KeyOf(n)[k]
  <1> DEFINE m == n[1]
             prefix == IF "key" \in DOMAIN ids[m] THEN <<ids[m].obj, ids[m].key>> ELSE <<ids[m].obj>>
             Numbers == {NumberOf(x) : x \in YangNodes}
  <1>1. m \in DOMAIN ids /\ "obj" \in DOMAIN ids[m]
    BY NodeShape DEF Installed
  <1>2. <<m, "obj">> \in YangNodes /\ NumberOf(<<m, "obj">>) = ids[m].obj
    BY <1>1, NodeShape DEF NumberOf
  <1>3. "key" \in DOMAIN ids[m] => <<m, "key">> \in YangNodes /\ NumberOf(<<m, "key">>) = ids[m].key
    BY <1>1, NodeShape DEF NumberOf
  <1>4. ids[m].obj \in Numbers /\ NumberOf(n) \in Numbers /\ ("key" \in DOMAIN ids[m] => ids[m].key \in Numbers)
    <2>1. \A x \in YangNodes : NumberOf(x) \in Numbers
      OBVIOUS
    <2> QED
      BY <1>2, <1>3, <2>1
  <1> HIDE DEF Numbers
  <1>5. prefix \in Seq(Numbers)
    BY <1>4
  <1>6. KeyOf(n) = IF IsLeaf(n) THEN Append(prefix, NumberOf(n)) ELSE prefix
    BY DEF KeyOf
  <1> HIDE DEF prefix
  <1>7. KeyOf(n) \in Seq(Numbers)
    BY <1>4, <1>5, <1>6
  <1>8. KeyOf(n)[k] \in Numbers
    BY <1>7
  <1> QED
    BY <1>8 DEF Numbers

\* Names with numbers of their own have keys of their own.
LEMMA KeyInjective ==
  ASSUME Installed, ~Collide, NEW a \in YangNodes, NEW b \in YangNodes, KeyOf(a) = KeyOf(b)
  PROVE  a = b
  <1>1. <<a[1], "obj">> \in YangNodes /\ <<b[1], "obj">> \in YangNodes
        /\ NumberOf(<<a[1], "obj">>) = NumberOf(<<b[1], "obj">>)
    BY KeyShape
  <1>2. <<a[1], "obj">> = <<b[1], "obj">>
    BY <1>1 DEF Collide
  <1>3. a[1] = b[1]
    BY <1>2
  <1> DEFINE k == IF "key" \in DOMAIN ids[a[1]] THEN 2 ELSE 1
  <1>4. /\ IsLeaf(a) => Len(KeyOf(a)) = k + 1 /\ KeyOf(a)[k + 1] = NumberOf(a)
        /\ ~IsLeaf(a) => Len(KeyOf(a)) = k
    BY KeyShape
  <1>5. /\ IsLeaf(b) => Len(KeyOf(b)) = k + 1 /\ KeyOf(b)[k + 1] = NumberOf(b)
        /\ ~IsLeaf(b) => Len(KeyOf(b)) = k
    BY <1>3, KeyShape
  <1>6. k \in Nat /\ k + 1 # k
    OBVIOUS
  <1> HIDE DEF k
  <1>7. CASE IsLeaf(a)
    <2>1. IsLeaf(b)
      BY <1>4, <1>5, <1>6, <1>7
    <2>2. NumberOf(a) = NumberOf(b)
      BY <1>4, <1>5, <1>7, <2>1
    <2> QED
      BY <2>2 DEF Collide
  <1>8. CASE ~IsLeaf(a)
    <2>1. ~IsLeaf(b)
      BY <1>4, <1>5, <1>6, <1>8
    <2>2. a[2] = "obj" /\ b[2] = "obj"
      BY <1>8, <2>1 DEF IsLeaf
    <2> QED
      BY <1>3, <2>2, NodeShape
  <1> QED
    BY <1>7, <1>8

\* When every node is known, so are the leaves among the elements of a key.
LEMMA KeysKnown ==
  ASSUME Installed, ~Collide, DefsRight(defs), \A n \in YangNodes : NumberOf(n) \in DOMAIN defs,
         NEW node \in YangNodes
  PROVE  KeyIds(KeyOf(node)) = ToldKeyIds(node)
  <1>1. ASSUME NEW i \in Range(KeyOf(node)), i \in DOMAIN defs /\ IsLeaf(defs[i].node)
        PROVE  \E n \in YangNodes : NumberOf(n) = i /\ IsLeaf(n)
    <2>1. PICK n \in YangNodes : NumberOf(n) = i
      BY KeyElements DEF Range
    <2> QED
      BY <1>1, <2>1 DEF DefsRight
  <1>2. ASSUME NEW n \in YangNodes, IsLeaf(n)
        PROVE  NumberOf(n) \in DOMAIN defs /\ IsLeaf(defs[NumberOf(n)].node)
    BY <1>2 DEF DefsRight
  <1>3. \A i \in Range(KeyOf(node)) : i \in DOMAIN defs /\ IsLeaf(defs[i].node) <=> \E n \in YangNodes : NumberOf(n) = i /\ IsLeaf(n)
    BY <1>1, <1>2, Zenon
  <1> QED
    BY <1>3, Zenon DEF KeyIds, ToldKeyIds

\* An order of the nodes of a library has all of them.
LEMMA OrderComplete ==
  ASSUME Installed, NEW m \in DOMAIN ids, NEW order \in SetToSeqs(LibEntries(m))
  PROVE  order \in Seq(LibEntries(m)) /\ Range(order) = LibEntries(m)
  <1> DEFINE S == LibEntries(m)
             f == [x \in DOMAIN ids[m] |-> [kind |-> "node", node |-> <<m, x>>]]
  <1>1. IsFiniteSet(S)
    <2>1. f \in Surjection(DOMAIN ids[m], S)
      BY DEF Surjection, LibEntries
    <2>2. IsFiniteSet(DOMAIN ids[m])
      BY DEF Installed
    <2> QED
      BY <2>1, <2>2, FS_Surjection, Zenon
  <1>2. Cardinality(S) \in Nat
    BY <1>1, FS_CardinalityType, Zenon
  <1> DEFINE D == 1 .. Cardinality(S)
  <1>3. order \in [D -> S] /\ \A i, j \in D : i # j => order[i] # order[j]
    BY DEF SetToSeqs
  <1> HIDE DEF S
  <1>4. order \in Injection(D, S)
    BY <1>3 DEF Injection, IsInjective
  <1>5. IsFiniteSet(D) /\ Cardinality(D) = Cardinality(S)
    BY <1>2, FS_Interval
  <1>6. order \in Surjection(D, S)
    BY <1>1, <1>4, <1>5, FS_Injection, Zenon
  <1>7. Range(order) = S
    BY <1>3, <1>6 DEF Surjection, Range
  <1>8. order \in Seq(S)
    BY <1>2, <1>3
  <1> QED
    BY <1>7, <1>8 DEF S

\* A list that is not empty is its head and its tail.
LEMMA HeadAndTail ==
  ASSUME NEW S, NEW s \in Seq(S), s # <<>>
  PROVE  /\ Head(s) \in S /\ Tail(s) \in Seq(S)
         /\ \A x \in Range(s) : x = Head(s) \/ x \in Range(Tail(s))
  <1>1. Head(s) \in S /\ Tail(s) \in Seq(S) /\ Len(s) \in Nat /\ Len(s) > 0 /\ Len(Tail(s)) = Len(s) - 1
        /\ Head(s) = s[1] /\ DOMAIN s = 1 .. Len(s) /\ DOMAIN Tail(s) = 1 .. Len(s) - 1
    OBVIOUS
  <1>2. ASSUME NEW x \in Range(s), x # Head(s) PROVE x \in Range(Tail(s))
    <2>1. PICK i \in DOMAIN s : s[i] = x
      BY DEF Range
    <2>2. i \in 2 .. Len(s)
      BY <1>1, <1>2, <2>1
    <2>3. i - 1 \in DOMAIN Tail(s) /\ Tail(s)[i - 1] = s[i]
      BY <1>1, <2>2
    <2> QED
      BY <2>1, <2>3 DEF Range
  <1> QED
    BY <1>1, <1>2

\* Nothing is left to load in an empty list.
LEMMA NoneInEmpty == \A x : x \notin Range(<<>>)
  BY DEF Range

\* Steps that change no table.
LEMMA TablesKept ==
  ASSUME DictInv, ~Collide, UNCHANGED <<defs, keyed, claimed, loader, left>>,
         answer' = answer \/ answer' = NoAnswer
  PROVE  TablesRight(defs', keyed', claimed', loader', left', answer')
  <1>1. TablesRight(defs, keyed, claimed, loader, left, answer)
    BY Zenon DEF DictInv
  <1>2. AnswerRight(answer', defs)
    <2>1. CASE answer' = answer
      BY <1>1, <2>1, Zenon DEF TablesRight
    <2>2. CASE answer' = NoAnswer
      BY <2>2 DEF NoAnswer, AnswerRight
    <2> QED
      BY <2>1, <2>2
  <1>3. defs' = defs /\ keyed' = keyed /\ claimed' = claimed /\ loader' = loader /\ left' = left
    OBVIOUS
  <1> QED
    BY <1>1, <1>2, <1>3, Zenon DEF TablesRight

\* Another step of the loader: what is known stays, and the answer with it.
LEMMA OnlyLeft ==
  ASSUME DictInv, ~Collide, UNCHANGED <<defs, keyed, answer>>, NodesComing(claimed', loader', left', defs)
  PROVE  TablesRight(defs', keyed', claimed', loader', left', answer')
  <1>1. TablesRight(defs, keyed, claimed, loader, left, answer)
    BY Zenon DEF DictInv
  <1>2. defs' = defs /\ keyed' = keyed /\ answer' = answer
    OBVIOUS
  <1> QED
    BY <1>1, <1>2, Zenon DEF TablesRight

\* A lookup begins.
LEMMA AskStep ==
  ASSUME DictInv, NEW t \in Threads, NEW op \in DOMAIN Ops, NEW node \in YangNodes, Ask(t, op, node)
  PROVE  DictInv'
  <1> DEFINE asked == [pc |-> IF Ops[op].inits THEN "init" ELSE "look", op |-> op, node |-> node]
  <1>1. /\ thread' = [thread EXCEPT ![t] = asked] /\ ids' = ids /\ thread[t].pc = "idle"
        /\ UNCHANGED <<defs, keyed, claimed, loader, left>> /\ answer' = NoAnswer
    BY DEF Ask, Tables
  <1>2. asked \in LookupCall /\ thread \in [Threads -> LookupCall] /\ OneLoader(thread, loader, claimed) /\ left \in Remaining
    BY DEF LookupCall, DictInv
  <1>3. asked.pc # "load" /\ (asked.pc = "look" => ~Ops[asked.op].inits)
    BY DEF Ops
  <1> HIDE DEF asked
  <1>4. thread' \in [Threads -> LookupCall] /\ left' \in Remaining
    BY <1>1, <1>2
  <1>5. OneLoader(thread', loader', claimed')
    BY <1>1, <1>2, <1>3 DEF OneLoader
  <1>6. ~Collide => TablesRight(defs', keyed', claimed', loader', left', answer')
    BY <1>1, TablesKept
  <1> QED
    BY <1>1, <1>4, <1>5, <1>6, StepKeeps

\* A thread that goes on is where it goes, and the others stay.
LEMMA CallKeptInPlace ==
  ASSUME thread \in [Threads -> LookupCall], NEW t \in Threads, thread[t].pc # "idle", NEW p \in {"init", "load", "look"}
  PROVE  /\ [thread EXCEPT ![t].pc = p] \in [Threads -> LookupCall]
         /\ [thread EXCEPT ![t].pc = p][t].pc = p /\ [thread EXCEPT ![t].pc = p][t].op = thread[t].op
         /\ \A r \in Threads : r # t => [thread EXCEPT ![t].pc = p][r] = thread[r]
  <1>1. thread[t] \in [pc : {"init", "load", "look"}, op : DOMAIN Ops, node : YangNodes]
    BY DEF LookupCall, Idle
  <1>2. [thread[t] EXCEPT !.pc = p] \in [pc : {"init", "load", "look"}, op : DOMAIN Ops, node : YangNodes]
        /\ [thread[t] EXCEPT !.pc = p].pc = p /\ [thread[t] EXCEPT !.pc = p].op = thread[t].op
    BY <1>1
  <1>3. [thread EXCEPT ![t].pc = p] = [thread EXCEPT ![t] = [thread[t] EXCEPT !.pc = p]]
    OBVIOUS
  <1>4. [thread[t] EXCEPT !.pc = p] \in LookupCall
    BY <1>2 DEF LookupCall
  <1> QED
    BY <1>2, <1>3, <1>4

\* The first to come has everything to load.
LEMMA ClaimStep ==
  ASSUME DictInv, NEW t \in Threads, Claim(t)
  PROVE  DictInv'
  <1>1. thread \in [Threads -> LookupCall] /\ OneLoader(thread, loader, claimed) /\ left \in Remaining /\ Installed
    BY DEF DictInv
  <1>2. ids' = ids /\ defs' = defs /\ keyed' = keyed /\ answer' = answer /\ thread[t].pc = "init"
    BY DEF Claim, Tables
  <1>3. CASE claimed
    <2>1. thread' = [thread EXCEPT ![t].pc = "look"] /\ claimed' = claimed /\ loader' = loader /\ left' = left
      BY <1>3 DEF Claim
    <2>2. /\ thread' \in [Threads -> LookupCall] /\ thread'[t].pc = "look"
          /\ \A r \in Threads : r # t => thread'[r] = thread[r]
      BY <1>1, <1>2, <2>1, CallKeptInPlace
    <2>3. OneLoader(thread', loader', claimed')
      BY <1>1, <1>2, <1>3, <2>1, <2>2 DEF OneLoader
    <2>4. ~Collide => TablesRight(defs', keyed', claimed', loader', left', answer')
      BY <1>2, <2>1, TablesKept
    <2> QED
      BY <1>1, <1>2, <2>1, <2>2, <2>3, <2>4, StepKeeps
  <1>4. CASE ~claimed
    <2>1. /\ thread' = [thread EXCEPT ![t].pc = "load"] /\ claimed' = TRUE /\ loader' = t
          /\ left' = [NothingLeft EXCEPT !.libs = Path, !.files = Files]
      BY <1>4 DEF Claim
    <2>2. /\ thread' \in [Threads -> LookupCall] /\ thread'[t].pc = "load" /\ thread'[t].op = thread[t].op
          /\ \A r \in Threads : r # t => thread'[r] = thread[r]
      BY <1>1, <1>2, <2>1, CallKeptInPlace
    <2>3. loader = NoThread /\ NoThread \notin Threads
      BY <1>1, <1>4, DictAssumption DEF OneLoader
    <2>4. OneLoader(thread', loader', claimed')
      BY <1>1, <2>1, <2>2, <2>3 DEF OneLoader
    <2>5. left' = [libs |-> Path, seen |-> {}, entries |-> <<>>, files |-> Files]
      BY <2>1 DEF NothingLeft
    <2>6. left' \in Remaining
      BY <1>1, <2>5, DictAssumption DEF Remaining, LibraryLeft, Installed
    <2>7. NodesComing(claimed', loader', left', defs)
      <3>1. ASSUME NEW n \in YangNodes PROVE ToCome(n, left')
        <4>1. n[1] \in Range(Path)
          BY <1>1, NodeShape DEF Installed
        <4> QED
          BY <4>1, <2>5 DEF ToCome
      <3> QED
        BY <2>1, <2>3, <3>1 DEF NodesComing
    <2>8. ~Collide => TablesRight(defs', keyed', claimed', loader', left', answer')
      BY <1>2, <2>7, OnlyLeft
    <2> QED
      BY <1>2, <2>2, <2>4, <2>6, <2>8, StepKeeps
  <1> QED
    BY <1>3, <1>4

\* A loading thread is the loader.
LEMMA LoaderHere ==
  ASSUME DictInv, NEW t \in Threads, thread[t].pc = "load"
  PROVE  loader = t /\ loader # NoThread /\ claimed = TRUE
  BY DictAssumption DEF DictInv, OneLoader

\* What is known is more, and what is still to come is the rest.
LEMMA LoadLibStep ==
  ASSUME DictInv, NEW t \in Threads, LoadLib(t)
  PROVE  DictInv'
  <1> DEFINE m == Head(left.libs)
  <1>1. thread \in [Threads -> LookupCall] /\ OneLoader(thread, loader, claimed) /\ left \in Remaining /\ Installed
    BY DEF DictInv
  <1>2. /\ ids' = ids /\ defs' = defs /\ keyed' = keyed /\ answer' = answer /\ thread' = thread
        /\ claimed' = claimed /\ loader' = loader
        /\ thread[t].pc = "load" /\ left.entries = <<>> /\ left.libs # <<>>
    BY DEF LoadLib, Tables
  <1>3. PICK order \in SetToSeqs(IF m \in left.seen THEN {} ELSE LibEntries(m)) :
           left' = [left EXCEPT !.libs = Tail(@), !.seen = @ \cup {m}, !.entries = order]
    BY Zenon DEF LoadLib
  <1>4. left.libs \in Seq(DOMAIN ids) /\ left.seen \subseteq DOMAIN ids
    <2>1. left \in LibraryLeft
      BY <1>1, <1>2 DEF Remaining, FileLeft
    <2> QED
      BY <2>1 DEF LibraryLeft
  <1>5. /\ m \in DOMAIN ids /\ Tail(left.libs) \in Seq(DOMAIN ids)
        /\ \A x \in Range(left.libs) : x = m \/ x \in Range(Tail(left.libs))
    BY <1>2, <1>4, HeadAndTail
  <1>6. order \in Seq(LibraryEntries)
    <2>1. CASE m \in left.seen
      <3>1. order \in SetToSeqs({})
        BY <1>3, <2>1
      <3>2. order \in [1 .. 0 -> {}]
        BY <3>1, FS_EmptySet DEF SetToSeqs
      <3> QED
        BY <3>2
    <2>2. CASE m \notin left.seen
      <3>1. order \in Seq(LibEntries(m))
        BY <1>1, <1>3, <1>5, <2>2, OrderComplete
      <3>2. LibEntries(m) \subseteq LibraryEntries
        BY <1>5, Zenon DEF LibraryEntries
      <3> QED
        BY <3>1, <3>2
    <2> QED
      BY <2>1, <2>2
  <1>7. left' \in Remaining /\ left'.libs = Tail(left.libs) /\ left'.seen = left.seen \cup {m} /\ left'.entries = order
    BY <1>1, <1>3, <1>5, <1>6 DEF Remaining, LibraryLeft, FileLeft
  <1>8. ASSUME ~Collide PROVE NodesComing(claimed', loader', left', defs)
    <2>1. NodesComing(claimed, loader, left, defs)
      BY <1>8, Zenon DEF DictInv, TablesRight
    <2>2. ASSUME NEW n \in YangNodes, NumberOf(n) \notin DOMAIN defs PROVE ToCome(n, left')
      <3>1. n[1] \in Range(left.libs) \ left.seen
        BY <1>2, <2>1, <2>2, LoaderHere, NoneInEmpty DEF NodesComing, ToCome
      <3>2. CASE n[1] # m
        <4>1. n[1] \in Range(Tail(left.libs)) /\ n[1] \notin left.seen \cup {m}
          BY <1>5, <3>1, <3>2
        <4> QED
          BY <1>7, <4>1 DEF ToCome
      <3>3. CASE n[1] = m
        <4>1. Range(order) = LibEntries(m)
          BY <1>1, <1>3, <1>5, <3>1, <3>3, OrderComplete
        <4>2. [kind |-> "node", node |-> n] \in LibEntries(m)
          BY <3>3, NodeShape DEF LibEntries
        <4> QED
          BY <1>7, <4>1, <4>2 DEF ToCome
      <3> QED
        BY <3>2, <3>3
    <2> QED
      BY <1>2, <2>2, LoaderHere DEF NodesComing
  <1>9. ~Collide => TablesRight(defs', keyed', claimed', loader', left', answer')
    BY <1>2, <1>8, OnlyLeft
  <1>10. thread' \in [Threads -> LookupCall] /\ OneLoader(thread', loader', claimed')
    BY <1>1, <1>2
  <1> QED
    BY <1>2, <1>7, <1>9, <1>10, StepKeeps

\* With the libraries read, every node is known.
LEMMA LibsRead ==
  ASSUME DictInv, ~Collide, NEW t \in Threads, thread[t].pc = "load", left.entries = <<>>, left.libs = <<>>,
         NEW n \in YangNodes
  PROVE  NumberOf(n) \in DOMAIN defs
  <1>1. NodesComing(claimed, loader, left, defs) /\ claimed = TRUE
    BY LoaderHere, Zenon DEF DictInv, TablesRight
  <1>2. ~ToCome(n, left)
    BY NoneInEmpty DEF ToCome
  <1> QED
    BY <1>1, <1>2, Zenon DEF NodesComing

\* The next metadata file is opened.
LEMMA LoadFileStep ==
  ASSUME DictInv, NEW t \in Threads, LoadFile(t)
  PROVE  DictInv'
  <1>1. thread \in [Threads -> LookupCall] /\ OneLoader(thread, loader, claimed) /\ left \in Remaining
    BY DEF DictInv
  <1>2. /\ ids' = ids /\ defs' = defs /\ keyed' = keyed /\ answer' = answer /\ thread' = thread
        /\ claimed' = claimed /\ loader' = loader
        /\ thread[t].pc = "load" /\ left.entries = <<>> /\ left.libs = <<>>
    BY DEF LoadFile, Tables
  <1>3. PICK f \in left.files : left' = [left EXCEPT !.files = @ \ {f}, !.entries = f.entries]
    BY DEF LoadFile
  <1>4. f \in Files
    BY <1>1 DEF Remaining, LibraryLeft, FileLeft
  <1>5. f.entries \in Seq(Range(f.entries)) /\ Range(f.entries) \subseteq FileEntries
    <2>1. f.entries \in Seq(Range(f.entries))
      BY <1>4, DictAssumption, Zenon
    <2>2. Range(f.entries) \subseteq FileEntries
      BY <1>4, Zenon DEF FileEntries
    <2> QED
      BY <2>1, <2>2
  <1>6. f.entries \in Seq(FileEntries)
    BY <1>5
  <1>7. left' \in Remaining
    BY <1>1, <1>2, <1>3, <1>6 DEF Remaining, LibraryLeft, FileLeft
  <1>8. ~Collide => TablesRight(defs', keyed', claimed', loader', left', answer')
    BY <1>2, LibsRead, OnlyLeft DEF NodesComing
  <1>9. thread' \in [Threads -> LookupCall] /\ OneLoader(thread', loader', claimed')
    BY <1>1, <1>2
  <1> QED
    BY <1>2, <1>7, <1>8, <1>9, StepKeeps

\* The loading ends.
LEMMA LoadedStep ==
  ASSUME DictInv, NEW t \in Threads, Loaded(t)
  PROVE  DictInv'
  <1>1. thread \in [Threads -> LookupCall] /\ OneLoader(thread, loader, claimed)
    BY DEF DictInv
  <1>2. /\ ids' = ids /\ defs' = defs /\ keyed' = keyed /\ answer' = answer
        /\ claimed' = claimed /\ loader' = NoThread /\ left' = NothingLeft
        /\ thread[t].pc = "load" /\ left.entries = <<>> /\ left.libs = <<>>
        /\ thread' = [thread EXCEPT ![t].pc = "look"]
    BY DEF Loaded, Tables
  <1>3. /\ thread' \in [Threads -> LookupCall] /\ thread'[t].pc = "look"
        /\ \A r \in Threads : r # t => thread'[r] = thread[r]
    BY <1>1, <1>2, CallKeptInPlace
  <1>4. left' \in Remaining
    BY <1>2 DEF NothingLeft, Remaining, LibraryLeft
  <1>5. loader = t /\ claimed = TRUE /\ NoThread \notin Threads
    BY <1>2, LoaderHere, DictAssumption
  <1>6. OneLoader(thread', loader', claimed')
    BY <1>1, <1>2, <1>3, <1>5 DEF OneLoader
  <1>7. ~Collide => TablesRight(defs', keyed', claimed', loader', left', answer')
    BY <1>2, LibsRead, OnlyLeft DEF NodesComing
  <1> QED
    BY <1>2, <1>3, <1>4, <1>6, <1>7, StepKeeps

\* A new definition: the tables have it beside what they had.
LEMMA DefinedNew ==
  ASSUME DictInv, ~Collide, NEW node \in YangNodes, NumberOf(node) \notin DOMAIN defs,
         defs' = Over(defs, Entry(NumberOf(node), [node |-> node, ids |-> KeyOf(node), cached |-> FALSE,
                                                   keyIds |-> {}, early |-> FALSE])),
         keyed' = Over(keyed, Entry(KeyOf(node), NumberOf(node))),
         answer' = answer
  PROVE  /\ DefsRight(defs') /\ KeysRight(defs', keyed') /\ CachesRight(defs') /\ AnswerRight(answer', defs')
         /\ NumberOf(node) \in DOMAIN defs' /\ DOMAIN defs \subseteq DOMAIN defs'
  <1> DEFINE i == NumberOf(node)
             key == KeyOf(node)
             def == [node |-> node, ids |-> key, cached |-> FALSE, keyIds |-> {}, early |-> FALSE]
  <1>1. Installed /\ TablesRight(defs, keyed, claimed, loader, left, answer)
    BY Zenon DEF DictInv
  <1>2. DefsRight(defs) /\ KeysRight(defs, keyed) /\ CachesRight(defs) /\ AnswerRight(answer, defs)
    BY <1>1, Zenon DEF TablesRight
  <1>3. /\ DOMAIN defs' = DOMAIN defs \cup {i} /\ defs'[i] = def
        /\ \A j \in DOMAIN defs : defs'[j] = defs[j]
        /\ defs' = [j \in DOMAIN defs' |-> defs'[j]]
    BY DEF Over, Entry
  <1>4. key \notin DOMAIN keyed
    BY <1>2 DEF KeysRight
  <1>5. /\ DOMAIN keyed' = DOMAIN keyed \cup {key} /\ keyed'[key] = i
        /\ \A x \in DOMAIN keyed : keyed'[x] = keyed[x]
    BY <1>4 DEF Over, Entry
  <1>6. IsDefinition(def) /\ def.node = node /\ def.cached = FALSE /\ def.early = FALSE
    BY DEF IsDefinition
  <1> HIDE DEF def
  <1>7. DefsRight(defs')
    <2>1. \A j \in DOMAIN defs' : IsDefinition(defs'[j])
      BY <1>2, <1>3, <1>6 DEF DefsRight
    <2>2. ASSUME NEW j \in DOMAIN defs', NEW n \in YangNodes PROVE defs'[j].node = n <=> NumberOf(n) = j
      <3>1. node = n <=> NumberOf(n) = i
        BY DEF Collide
      <3>2. CASE j = i
        BY <1>3, <1>6, <3>1, <3>2
      <3>3. CASE j # i
        BY <1>2, <1>3, <3>3 DEF DefsRight
      <3> QED
        BY <3>2, <3>3
    <2> QED
      BY <1>3, <2>1, <2>2 DEF DefsRight
  <1>8. KeysRight(defs', keyed')
    <2> SUFFICES ASSUME NEW n \in YangNodes
                 PROVE  /\ KeyOf(n) \in DOMAIN keyed' <=> NumberOf(n) \in DOMAIN defs'
                        /\ KeyOf(n) \in DOMAIN keyed' => keyed'[KeyOf(n)] = NumberOf(n)
      BY DEF KeysRight
    <2>1. CASE n = node
      BY <1>3, <1>5, <2>1
    <2>2. CASE n # node
      <3>1. KeyOf(n) # key
        BY <1>1, <2>2, KeyInjective
      <3>2. NumberOf(n) # i
        BY <2>2 DEF Collide
      <3> QED
        BY <1>2, <1>3, <1>5, <3>1, <3>2 DEF KeysRight
    <2> QED
      BY <2>1, <2>2
  <1>9. CachesRight(defs')
    <2> SUFFICES ASSUME NEW j \in DOMAIN defs', NEW n \in YangNodes
                 PROVE  /\ defs'[j].early => defs'[j].cached
                        /\ defs'[j].node = n /\ defs'[j].cached /\ ~defs'[j].early => defs'[j].keyIds = ToldKeyIds(n)
      BY Zenon DEF CachesRight
    <2>1. CASE j = i
      BY <1>3, <1>6, <2>1
    <2>2. CASE j # i
      <3>1. j \in DOMAIN defs /\ defs'[j] = defs[j]
        BY <1>3, <2>2
      <3> QED
        BY <1>2, <3>1, Zenon DEF CachesRight
    <2> QED
      BY <2>1, <2>2
  <1>10. AnswerRight(answer', defs')
    <2> SUFFICES ASSUME answer.op = "keys"
                 PROVE  \E n \in YangNodes :
                           /\ answer.node = n
                           /\ \/ answer.early
                              \/ /\ NumberOf(n) \in DOMAIN defs'
                                 /\ defs'[NumberOf(n)].early \/ answer.value = ToldKeyIds(n)
      BY Zenon DEF AnswerRight
    <2>1. PICK n \in YangNodes :
             /\ answer.node = n
             /\ \/ answer.early
                \/ NumberOf(n) \in DOMAIN defs /\ (defs[NumberOf(n)].early \/ answer.value = ToldKeyIds(n))
      BY <1>2, Zenon DEF AnswerRight
    <2>2. NumberOf(n) \in DOMAIN defs => NumberOf(n) \in DOMAIN defs' /\ defs'[NumberOf(n)] = defs[NumberOf(n)]
      BY <1>3
    <2> QED
      BY <2>1, <2>2, Zenon
  <1> QED
    BY <1>3, <1>7, <1>8, <1>9, <1>10

\* A new definition of a file: its node, number and key are not of the libraries.
LEMMA DefinedForeign ==
  ASSUME DictInv, ~Collide, NEW node, NEW i, NEW key, node \notin YangNodes, i \notin DOMAIN defs,
         \A n \in YangNodes : NumberOf(n) # i /\ KeyOf(n) # key,
         defs' = Over(defs, Entry(i, [node |-> node, ids |-> key, cached |-> FALSE,
                                      keyIds |-> {}, early |-> FALSE])),
         keyed' = Over(keyed, Entry(key, i)), answer' = answer
  PROVE  /\ DefsRight(defs') /\ KeysRight(defs', keyed') /\ CachesRight(defs') /\ AnswerRight(answer', defs')
         /\ DOMAIN defs \subseteq DOMAIN defs'
  <1> DEFINE def == [node |-> node, ids |-> key, cached |-> FALSE, keyIds |-> {}, early |-> FALSE]
  <1>1. DefsRight(defs) /\ KeysRight(defs, keyed) /\ CachesRight(defs) /\ AnswerRight(answer, defs)
    BY Zenon DEF DictInv, TablesRight
  <1>2. /\ DOMAIN defs' = DOMAIN defs \cup {i} /\ defs'[i] = def
        /\ \A j \in DOMAIN defs : defs'[j] = defs[j]
        /\ defs' = [j \in DOMAIN defs' |-> defs'[j]]
    BY DEF Over, Entry
  <1>3. /\ DOMAIN keyed' = DOMAIN keyed \cup {key}
        /\ \A x \in DOMAIN keyed : keyed'[x] = keyed[x]
    BY DEF Over, Entry
  <1>4. IsDefinition(def) /\ def.node = node /\ def.cached = FALSE /\ def.early = FALSE
    BY DEF IsDefinition
  <1> HIDE DEF def
  <1>5. DefsRight(defs')
    <2>1. \A j \in DOMAIN defs' : IsDefinition(defs'[j])
      BY <1>1, <1>2, <1>4 DEF DefsRight
    <2>2. ASSUME NEW j \in DOMAIN defs', NEW n \in YangNodes PROVE defs'[j].node = n <=> NumberOf(n) = j
      <3>1. node # n /\ NumberOf(n) # i
        OBVIOUS
      <3>2. CASE j = i
        BY <1>2, <1>4, <3>1, <3>2
      <3>3. CASE j # i
        <4>1. j \in DOMAIN defs /\ defs'[j] = defs[j]
          BY <1>2, <3>3
        <4>2. defs[j].node = n <=> NumberOf(n) = j
          BY <1>1, <4>1 DEF DefsRight
        <4> QED
          BY <4>1, <4>2
      <3> QED
        BY <3>2, <3>3
    <2> QED
      BY <1>2, <2>1, <2>2 DEF DefsRight
  <1>6. KeysRight(defs', keyed')
    <2> SUFFICES ASSUME NEW n \in YangNodes
                 PROVE  /\ KeyOf(n) \in DOMAIN keyed' <=> NumberOf(n) \in DOMAIN defs'
                        /\ KeyOf(n) \in DOMAIN keyed' => keyed'[KeyOf(n)] = NumberOf(n)
      BY DEF KeysRight
    <2>1. KeyOf(n) # key /\ NumberOf(n) # i
      OBVIOUS
    <2> QED
      BY <1>1, <1>2, <1>3, <2>1 DEF KeysRight
  <1>7. CachesRight(defs')
    <2> SUFFICES ASSUME NEW j \in DOMAIN defs', NEW n \in YangNodes
                 PROVE  /\ defs'[j].early => defs'[j].cached
                        /\ defs'[j].node = n /\ defs'[j].cached /\ ~defs'[j].early => defs'[j].keyIds = ToldKeyIds(n)
      BY Zenon DEF CachesRight
    <2>1. CASE j = i
      BY <1>2, <1>4, <2>1
    <2>2. CASE j # i
      <3>1. j \in DOMAIN defs /\ defs'[j] = defs[j]
        BY <1>2, <2>2
      <3> QED
        BY <1>1, <3>1, Zenon DEF CachesRight
    <2> QED
      BY <2>1, <2>2
  <1>8. AnswerRight(answer', defs')
    <2> SUFFICES ASSUME answer.op = "keys"
                 PROVE  \E n \in YangNodes :
                           /\ answer.node = n
                           /\ \/ answer.early
                              \/ /\ NumberOf(n) \in DOMAIN defs'
                                 /\ defs'[NumberOf(n)].early \/ answer.value = ToldKeyIds(n)
      BY Zenon DEF AnswerRight
    <2>1. PICK n \in YangNodes :
             /\ answer.node = n
             /\ \/ answer.early
                \/ NumberOf(n) \in DOMAIN defs /\ (defs[NumberOf(n)].early \/ answer.value = ToldKeyIds(n))
      BY <1>1, Zenon DEF AnswerRight
    <2>2. NumberOf(n) \in DOMAIN defs => NumberOf(n) \in DOMAIN defs' /\ defs'[NumberOf(n)] = defs[NumberOf(n)]
      BY <1>2
    <2> QED
      BY <2>1, <2>2, Zenon
  <1> QED
    BY <1>2, <1>5, <1>6, <1>7, <1>8

\* The entry that is registered is no longer to come.
LEMMA EntryDone ==
  ASSUME DictInv, ~Collide, NEW t \in Threads, thread[t].pc = "load", left.entries # <<>>, left \in LibraryLeft,
         UNCHANGED <<claimed, loader>>, left' = [left EXCEPT !.entries = Tail(@)],
         DOMAIN defs \subseteq DOMAIN defs',
         \A n \in YangNodes : Head(left.entries) = [kind |-> "node", node |-> n] => NumberOf(n) \in DOMAIN defs'
  PROVE  NodesComing(claimed', loader', left', defs')
  <1>1. NodesComing(claimed, loader, left, defs) /\ claimed = TRUE /\ loader # NoThread
    BY LoaderHere, Zenon DEF DictInv, TablesRight
  <1>2. left'.libs = left.libs /\ left'.seen = left.seen /\ left'.entries = Tail(left.entries) /\ left.entries \in Seq(LibraryEntries)
    BY DEF LibraryLeft
  <1>3. \A x \in Range(left.entries) : x = Head(left.entries) \/ x \in Range(Tail(left.entries))
    BY <1>2, HeadAndTail
  <1>4. ASSUME NEW n \in YangNodes, NumberOf(n) \notin DOMAIN defs' PROVE ToCome(n, left')
    <2>1. ToCome(n, left)
      BY <1>1, <1>4, Zenon DEF NodesComing
    <2>2. [kind |-> "node", node |-> n] # Head(left.entries)
      BY <1>4
    <2> QED
      BY <1>2, <1>3, <2>1, <2>2, Zenon DEF ToCome
  <1> QED
    BY <1>1, <1>4, Zenon DEF NodesComing

\* While a file is read, every node of the libraries is known.
LEMMA FilesLast ==
  ASSUME DictInv, ~Collide, NEW t \in Threads, thread[t].pc = "load", left \in FileLeft, NEW n \in YangNodes
  PROVE  NumberOf(n) \in DOMAIN defs
  <1>1. NodesComing(claimed, loader, left, defs) /\ claimed = TRUE /\ Installed
    BY LoaderHere, Zenon DEF DictInv, TablesRight
  <1>2. left.libs = <<>> /\ left.entries \in Seq(FileEntries)
    BY DEF FileLeft
  <1>3. \A x \in Range(left.entries) : x \in FileEntries
    BY <1>2 DEF Range
  <1>4. \A x \in FileEntries : x.kind # "node"
    BY <1>1, Zenon DEF FileEntries, Installed
  <1>5. [kind |-> "node", node |-> n] \notin Range(left.entries)
    <2>1. [kind |-> "node", node |-> n].kind = "node"
      OBVIOUS
    <2> QED
      BY <1>3, <1>4, <2>1, Zenon
  <1>6. ~ToCome(n, left)
    BY <1>2, <1>5, NoneInEmpty DEF ToCome
  <1> QED
    BY <1>1, <1>6, Zenon DEF NodesComing

\* An entry of a library is put into the tables.
LEMMA LibraryEntryStep ==
  ASSUME DictInv, ~Collide, NEW t \in Threads, LoadEntry(t), left \in LibraryLeft
  PROVE  TablesRight(defs', keyed', claimed', loader', left', answer')
  <1> DEFINE e == Head(left.entries)
  <1>1. /\ ids' = ids /\ answer' = answer /\ claimed' = claimed /\ loader' = loader
        /\ thread[t].pc = "load" /\ left.entries # <<>> /\ left' = [left EXCEPT !.entries = Tail(@)]
    BY DEF LoadEntry
  <1>2. e \in LibraryEntries
    <2>1. left.entries \in Seq(LibraryEntries)
      BY DEF LibraryLeft
    <2> QED
      BY <1>1, <2>1, HeadAndTail
  <1>3. PICK m \in DOMAIN ids : e \in LibEntries(m)
    BY <1>2, Zenon DEF LibraryEntries
  <1>4. PICK node \in YangNodes : e = [kind |-> "node", node |-> node]
    BY <1>3, NodeShape DEF LibEntries
  <1>5. RegisterNode(node)
    BY <1>4 DEF LoadEntry
  <1>6. TablesRight(defs, keyed, claimed, loader, left, answer)
    BY Zenon DEF DictInv
  <1>7. CASE NumberOf(node) \notin DOMAIN defs
    <2>1. /\ defs' = Over(defs, Entry(NumberOf(node), [node |-> node, ids |-> KeyOf(node), cached |-> FALSE,
                                                       keyIds |-> {}, early |-> FALSE]))
          /\ keyed' = Over(keyed, Entry(KeyOf(node), NumberOf(node)))
      BY <1>5, <1>7 DEF RegisterNode, Define
    <2>2. /\ DefsRight(defs') /\ KeysRight(defs', keyed') /\ CachesRight(defs') /\ AnswerRight(answer', defs')
          /\ NumberOf(node) \in DOMAIN defs' /\ DOMAIN defs \subseteq DOMAIN defs'
      BY <1>1, <1>7, <2>1, DefinedNew, Zenon
    <2>3. \A n \in YangNodes : e = [kind |-> "node", node |-> n] => NumberOf(n) \in DOMAIN defs'
      BY <1>4, <2>2
    <2>4. NodesComing(claimed', loader', left', defs')
      BY <1>1, <2>2, <2>3, EntryDone
    <2> QED
      BY <2>2, <2>4, Zenon DEF TablesRight
  <1>8. CASE NumberOf(node) \in DOMAIN defs
    <2>1. defs' = defs /\ keyed' = keyed
      BY <1>5, <1>8 DEF RegisterNode, Define
    <2>2. \A n \in YangNodes : e = [kind |-> "node", node |-> n] => NumberOf(n) \in DOMAIN defs'
      BY <1>4, <1>8, <2>1
    <2>3. NodesComing(claimed', loader', left', defs')
      BY <1>1, <2>1, <2>2, EntryDone
    <2> QED
      BY <1>1, <2>1, <2>3, OnlyLeft
  <1> QED
    BY <1>7, <1>8

\* An entry of a file is put into the tables, or dropped.
LEMMA FileEntryStep ==
  ASSUME DictInv, ~Collide, NEW t \in Threads, LoadEntry(t), left \in FileLeft
  PROVE  TablesRight(defs', keyed', claimed', loader', left', answer')
  <1> DEFINE e == Head(left.entries)
             key == [k \in DOMAIN e.key |-> IF e.key[k] = e.node THEN e.id ELSE strs[e.key[k]]]
  <1>1. /\ ids' = ids /\ answer' = answer /\ claimed' = claimed /\ loader' = loader
        /\ thread[t].pc = "load" /\ left.entries # <<>>
    BY DEF LoadEntry
  <1>2. e \in FileEntries
    <2>1. left.entries \in Seq(FileEntries)
      BY DEF FileLeft
    <2> QED
      BY <1>1, <2>1, HeadAndTail
  <1>3. Installed
    BY DEF DictInv
  <1>4. /\ e.kind # "node"
        /\ e.kind = "entry" =>
              \/ e.node \in YangNodes /\ e.id = NumberOf(e.node)
              \/ /\ e.node \notin YangNodes /\ \A n \in YangNodes : e.id # NumberOf(n)
                 /\ \E k \in DOMAIN e.key : e.key[k] = e.node
    BY <1>2, <1>3, Zenon DEF FileEntries, Installed
  <1>5. \A n \in YangNodes : NumberOf(n) \in DOMAIN defs
    BY <1>1, FilesLast
  <1>6. CASE defs' = defs /\ keyed' = keyed
    <2>1. NodesComing(claimed', loader', left', defs)
      BY <1>5 DEF NodesComing
    <2> QED
      BY <1>1, <1>6, <2>1, OnlyLeft
  <1>7. CASE ~(defs' = defs /\ keyed' = keyed)
    <2>1. e.kind = "entry" /\ RegisterEntry(e)
      BY <1>4, <1>7 DEF LoadEntry, RegisterOwner, RegisterField, Associate
    <2>2. Define(e.node, e.id, key)
      BY <1>7, <2>1 DEF RegisterEntry, Tables
    <2>3. e.id \notin DOMAIN defs
      BY <1>7, <2>2 DEF Define
    <2>4. /\ defs' = Over(defs, Entry(e.id, [node |-> e.node, ids |-> key, cached |-> FALSE,
                                             keyIds |-> {}, early |-> FALSE]))
          /\ keyed' = Over(keyed, Entry(key, e.id))
      BY <2>2, <2>3 DEF Define
    <2>5. e.node \notin YangNodes /\ \A n \in YangNodes : e.id # NumberOf(n)
      BY <1>4, <1>5, <2>1, <2>3
    <2>6. PICK k \in DOMAIN e.key : e.key[k] = e.node
      BY <1>4, <2>1, <2>5
    <2>7. k \in DOMAIN key /\ key[k] = e.id
      BY <2>6
    <2> HIDE DEF key
    <2>8. ASSUME NEW n \in YangNodes PROVE KeyOf(n) # key
      BY <1>3, <2>5, <2>7, KeyElements
    <2>11. \A n \in YangNodes : NumberOf(n) # e.id /\ KeyOf(n) # key
      BY <2>5, <2>8
    <2>9. /\ DefsRight(defs') /\ KeysRight(defs', keyed') /\ CachesRight(defs') /\ AnswerRight(answer', defs')
          /\ DOMAIN defs \subseteq DOMAIN defs'
      BY <1>1, <2>3, <2>4, <2>5, <2>11, DefinedForeign, Zenon
    <2>10. NodesComing(claimed', loader', left', defs')
      BY <1>5, <2>9 DEF NodesComing
    <2> QED
      BY <2>9, <2>10, Zenon DEF TablesRight
  <1> QED
    BY <1>6, <1>7

\* The next entry is put into the tables.
LEMMA LoadEntryStep ==
  ASSUME DictInv, NEW t \in Threads, LoadEntry(t)
  PROVE  DictInv'
  <1>1. thread \in [Threads -> LookupCall] /\ OneLoader(thread, loader, claimed) /\ left \in Remaining
    BY DEF DictInv
  <1>2. /\ ids' = ids /\ thread' = thread /\ claimed' = claimed /\ loader' = loader
        /\ left.entries # <<>> /\ left' = [left EXCEPT !.entries = Tail(@)]
    BY DEF LoadEntry
  <1>3. left' \in Remaining
    <2>1. CASE left \in LibraryLeft
      <3>1. Tail(left.entries) \in Seq(LibraryEntries)
        BY <1>2, <2>1, HeadAndTail DEF LibraryLeft
      <3> QED
        BY <1>2, <2>1, <3>1 DEF LibraryLeft, Remaining
    <2>2. CASE left \in FileLeft
      <3>1. Tail(left.entries) \in Seq(FileEntries)
        BY <1>2, <2>2, HeadAndTail DEF FileLeft
      <3> QED
        BY <1>2, <2>2, <3>1 DEF FileLeft, Remaining
    <2> QED
      BY <1>1, <2>1, <2>2 DEF Remaining
  <1>4. ~Collide => TablesRight(defs', keyed', claimed', loader', left', answer')
    BY <1>1, LibraryEntryStep, FileEntryStep DEF Remaining
  <1>5. thread' \in [Threads -> LookupCall] /\ OneLoader(thread', loader', claimed')
    BY <1>1, <1>2
  <1> QED
    BY <1>2, <1>3, <1>4, <1>5, StepKeeps

\* Who asks for key attributes when nobody is loading finds every node known.
LEMMA NobodyLoads ==
  ASSUME DictInv, ~Collide, NEW t \in Threads, thread[t].pc = "look", thread[t].op = "keys", ~Behind(t)
  PROVE  \A n \in YangNodes : NumberOf(n) \in DOMAIN defs
  <1>1. OneLoader(thread, loader, claimed) /\ NodesComing(claimed, loader, left, defs)
    BY Zenon DEF DictInv, TablesRight
  <1>2. Ops["keys"].inits = TRUE
    BY DEF Ops
  <1>3. claimed /\ loader # t
    BY <1>1, <1>2 DEF OneLoader
  <1>4. loader = NoThread
    BY <1>3 DEF Behind
  <1> QED
    BY <1>1, <1>3, <1>4, Zenon DEF NodesComing

\* Only the first to ask for key attributes changes a definition.
LEMMA KeepsDefs ==
  ASSUME DictInv, ~Collide, NEW t \in Threads, NEW node \in YangNodes,
         thread[t].pc = "look", thread[t].op = "keys", NumberOf(node) \in DOMAIN defs
  PROVE  LET i == NumberOf(node)
             d == Cached(t, "keys", node)
         IN  /\ DOMAIN d = DOMAIN defs /\ d[i].cached /\ DefsRight(d) /\ CachesRight(d)
             /\ \A j \in DOMAIN defs : d[j].early \/ ~defs[j].early
             /\ d[i].keyIds = IF defs[i].cached THEN defs[i].keyIds ELSE KeyIds(KeyOf(node))
  <1> DEFINE i == NumberOf(node)
             key == KeyOf(node)
             d == Cached(t, "keys", node)
             K == KeyIds(key)
  <1>1. Installed /\ DefsRight(defs) /\ KeysRight(defs, keyed) /\ CachesRight(defs)
    BY Zenon DEF DictInv, TablesRight
  <1>2. key \in DOMAIN keyed /\ keyed[key] = i
    BY <1>1 DEF KeysRight
  <1>3. IsDefinition(defs[i]) /\ defs[i].node = node
    BY <1>1 DEF DefsRight
  <1>5. Behind(t) \in BOOLEAN
    BY DEF Behind
  <1>6. ~Behind(t) => K = ToldKeyIds(node)
    BY <1>1, NobodyLoads, KeysKnown
  <1> HIDE DEF K
  <1>7. CASE defs[i].cached
    <2>1. d = defs
      BY <1>2, <1>7 DEF Cached
    <2> HIDE DEF d
    <2> QED
      BY <1>1, <1>7, <2>1 DEF d
  <1>8. CASE ~defs[i].cached
    <2> DEFINE new == [node |-> defs[i].node, ids |-> defs[i].ids, cached |-> TRUE, keyIds |-> K, early |-> Behind(t)]
    <2>1. d = [defs EXCEPT ![i] = new]
      BY <1>2, <1>8 DEF Cached, K
    <2>2. /\ IsDefinition(new) /\ new.node = node /\ new.cached = TRUE /\ new.keyIds = K /\ new.early = Behind(t)
      BY <1>3, <1>5 DEF IsDefinition
    <2>3. defs = [j \in DOMAIN defs |-> defs[j]]
      BY <1>1 DEF DefsRight
    <2> HIDE DEF new, d
    <2>4. /\ d = [j \in DOMAIN d |-> d[j]] /\ DOMAIN d = DOMAIN defs /\ d[i] = new
          /\ \A j \in DOMAIN defs : j # i => d[j] = defs[j]
      BY <2>1, <2>2, <2>3
    <2>5. DefsRight(d)
      <3>1. ASSUME NEW j \in DOMAIN d, NEW n \in YangNodes PROVE d[j].node = n <=> NumberOf(n) = j
        BY <1>1, <1>3, <2>2, <2>4 DEF DefsRight
      <3>2. \A j \in DOMAIN d : IsDefinition(d[j])
        BY <1>1, <2>2, <2>4 DEF DefsRight
      <3> QED
        BY <2>4, <3>1, <3>2 DEF DefsRight
    <2>6. CachesRight(d)
      <3> SUFFICES ASSUME NEW j \in DOMAIN d, NEW n \in YangNodes
                   PROVE  /\ d[j].early => d[j].cached
                          /\ d[j].node = n /\ d[j].cached /\ ~d[j].early => d[j].keyIds = ToldKeyIds(n)
        BY Zenon DEF CachesRight
      <3>1. CASE j = i
        BY <1>6, <2>2, <2>4, <3>1
      <3>2. CASE j # i
        BY <1>1, <2>4, <3>2, Zenon DEF CachesRight
      <3> QED
        BY <3>1, <3>2
    <2>7. ~defs[i].early
      BY <1>1, <1>8 DEF CachesRight
    <2> QED
      BY <1>8, <2>2, <2>4, <2>5, <2>6, <2>7 DEF d, K
  <1> QED
    BY <1>7, <1>8

\* What cps_api_key_attrs finds.
LEMMA KeysFound ==
  ASSUME NEW t, NEW node, NEW value \in Found(t, "keys", node)
  PROVE  value = IF KeyOf(node) \notin DOMAIN keyed THEN {}
                 ELSE IF defs[keyed[KeyOf(node)]].cached
                 THEN defs[keyed[KeyOf(node)]].keyIds ELSE KeyIds(KeyOf(node))
  BY DEF Found

\* Which nodes are still to come depends on the numbers of the table alone.
LEMMA ComingByNumbers ==
  ASSUME NEW cl, NEW ld, NEW lf, NEW d, NEW e, DOMAIN d = DOMAIN e, NodesComing(cl, ld, lf, d)
  PROVE  NodesComing(cl, ld, lf, e)
  BY SMT DEF NodesComing

\* The key attributes are told.
LEMMA LookKeys ==
  ASSUME DictInv, ~Collide, NEW t \in Threads, NEW node \in YangNodes,
         thread[t].pc = "look", thread[t].op = "keys", NEW value \in Found(t, "keys", node),
         defs' = Cached(t, "keys", node), keyed' = keyed, UNCHANGED <<claimed, loader, left>>,
         answer' = [op |-> "keys", node |-> node, value |-> value, early |-> Early(t, "keys")]
  PROVE  TablesRight(defs', keyed', claimed', loader', left', answer')
  <1> DEFINE i == NumberOf(node)
             key == KeyOf(node)
  <1>1. /\ Installed /\ DefsRight(defs) /\ KeysRight(defs, keyed) /\ CachesRight(defs)
        /\ NodesComing(claimed, loader, left, defs)
    BY Zenon DEF DictInv, TablesRight
  <1>2. answer'.op = "keys" /\ answer'.node = node /\ answer'.value = value /\ answer'.early = Early(t, "keys")
    OBVIOUS
  <1>3. CASE i \notin DOMAIN defs
    <2>1. key \notin DOMAIN keyed
      BY <1>1, <1>3 DEF KeysRight
    <2>2. defs' = defs
      BY <2>1 DEF Cached
    <2>3. Behind(t)
      BY <1>3, NobodyLoads
    <2>4. answer'.early
      BY <1>2, <2>3 DEF Early
    <2>5. AnswerRight(answer', defs')
      BY <1>2, <2>4, Zenon DEF AnswerRight
    <2>6. claimed' = claimed /\ loader' = loader /\ left' = left
      OBVIOUS
    <2> QED
      BY <1>1, <2>2, <2>5, <2>6, Zenon DEF TablesRight
  <1>4. CASE i \in DOMAIN defs
    <2>1. key \in DOMAIN keyed /\ keyed[key] = i
      BY <1>1, <1>4 DEF KeysRight
    <2>2. /\ DOMAIN defs' = DOMAIN defs /\ defs'[i].cached /\ DefsRight(defs') /\ CachesRight(defs')
          /\ defs'[i].keyIds = IF defs[i].cached THEN defs[i].keyIds ELSE KeyIds(key)
      BY <1>4, KeepsDefs
    <2>3. value = defs'[i].keyIds
      BY <2>1, <2>2, KeysFound
    <2>4. defs'[i].node = node
      BY <1>4, <2>2 DEF DefsRight
    <2>5. defs'[i].early \/ value = ToldKeyIds(node)
      BY <1>4, <2>2, <2>3, <2>4 DEF CachesRight
    <2>6. AnswerRight(answer', defs')
      BY <1>2, <1>4, <2>2, <2>5, Zenon DEF AnswerRight
    <2>7. KeysRight(defs', keyed')
      BY <1>1, <2>2, Zenon DEF KeysRight
    <2>8. NodesComing(claimed', loader', left', defs')
      <3>1. claimed' = claimed /\ loader' = loader /\ left' = left
        OBVIOUS
      <3>2. NodesComing(claimed, loader, left, defs')
        BY <1>1, <2>2, ComingByNumbers, Zenon
      <3> QED
        BY <3>1, <3>2, Zenon
    <2> QED
      BY <2>2, <2>6, <2>7, <2>8, Zenon DEF TablesRight
  <1> QED
    BY <1>3, <1>4

\* A lookup reads the tables and answers.
LEMMA LookStep ==
  ASSUME DictInv, NEW t \in Threads, Look(t)
  PROVE  DictInv'
  <1>1. thread \in [Threads -> LookupCall] /\ OneLoader(thread, loader, claimed) /\ left \in Remaining
    BY DEF DictInv
  <1>2. /\ ids' = ids /\ keyed' = keyed /\ claimed' = claimed /\ loader' = loader /\ left' = left
        /\ thread[t].pc = "look" /\ thread' = [thread EXCEPT ![t] = Idle]
        /\ defs' = Cached(t, thread[t].op, thread[t].node)
    BY DEF Look
  <1>3. PICK value \in Found(t, thread[t].op, thread[t].node) :
           answer' = [op |-> thread[t].op, node |-> thread[t].node, value |-> value, early |-> Early(t, thread[t].op)]
    BY Zenon DEF Look
  <1>4. thread[t] \in [pc : {"init", "load", "look"}, op : DOMAIN Ops, node : YangNodes]
    BY <1>1, <1>2 DEF LookupCall, Idle
  <1>5. Idle \in LookupCall /\ Idle.pc = "idle"
    BY DEF LookupCall, Idle
  <1>6. thread' \in [Threads -> LookupCall] /\ left' \in Remaining
    BY <1>1, <1>2, <1>5
  <1>7. OneLoader(thread', loader', claimed')
    BY <1>1, <1>2, <1>5 DEF OneLoader
  <1>8. ASSUME ~Collide PROVE TablesRight(defs', keyed', claimed', loader', left', answer')
    <2>1. CASE thread[t].op = "keys"
      <3>1. PICK node \in YangNodes : thread[t].node = node
        BY <1>4
      <3>2. value \in Found(t, "keys", node) /\ defs' = Cached(t, "keys", node)
            /\ answer' = [op |-> "keys", node |-> node, value |-> value, early |-> Early(t, "keys")]
        BY <1>2, <1>3, <2>1, <3>1, Zenon
      <3> QED
        BY <1>2, <1>8, <2>1, <3>2, LookKeys
    <2>2. CASE thread[t].op # "keys"
      <3>1. defs' = defs
        BY <1>2, <2>2 DEF Cached
      <3>2. answer'.op # "keys"
        BY <1>3, <2>2
      <3>3. AnswerRight(answer', defs')
        BY <3>2, Zenon DEF AnswerRight
      <3> QED
        BY <1>2, <1>8, <3>1, <3>3, Zenon DEF DictInv, TablesRight
    <2> QED
      BY <2>1, <2>2
  <1> QED
    BY <1>2, <1>6, <1>7, <1>8, StepKeeps

\* Before the first lookup the tables are empty.
LEMMA DictInitInv == Installed /\ DictInit(ids) => DictInv
  <1> SUFFICES ASSUME Installed, DictInit(ids) PROVE DictInv
    OBVIOUS
  <1>1. /\ defs = Empty /\ keyed = Empty /\ claimed = FALSE /\ loader = NoThread /\ left = NothingLeft
        /\ thread = [t \in Threads |-> Idle] /\ answer = NoAnswer
    BY DEF DictInit
  <1>2. thread \in [Threads -> LookupCall] /\ \A t \in Threads : thread[t].pc = "idle"
    BY <1>1 DEF LookupCall, Idle
  <1>3. left \in Remaining
    BY <1>1 DEF NothingLeft, Remaining, LibraryLeft
  <1>4. OneLoader(thread, loader, claimed)
    BY <1>1, <1>2, DictAssumption DEF OneLoader
  <1>5. DOMAIN defs = {} /\ DOMAIN keyed = {} /\ defs = [x \in DOMAIN defs |-> defs[x]] /\ answer.op # "keys"
    BY <1>1 DEF Empty, NoAnswer
  <1>6. DefsRight(defs) /\ KeysRight(defs, keyed) /\ CachesRight(defs) /\ AnswerRight(answer, defs)
    BY <1>5 DEF DefsRight, KeysRight, CachesRight, AnswerRight
  <1>7. NodesComing(claimed, loader, left, defs)
    BY <1>1 DEF NodesComing
  <1> QED
    BY <1>2, <1>3, <1>4, <1>6, <1>7, Zenon DEF DictInv, TablesRight

\* Every step keeps the tables right.
LEMMA DictNextInv == DictInv /\ [DictNext]_dictVars => DictInv'
  <1> SUFFICES ASSUME DictInv, [DictNext]_dictVars PROVE DictInv'
    OBVIOUS
  <1>1. CASE DictNext
    BY <1>1, AskStep, ClaimStep, LoadLibStep, LoadFileStep, LoadEntryStep, LoadedStep, LookStep DEF DictNext
  <1>2. CASE UNCHANGED dictVars
    <2>1. /\ ids' = ids /\ thread' = thread /\ answer' = answer /\ UNCHANGED <<defs, keyed, claimed, loader, left>>
      BY <1>2 DEF dictVars
    <2>2. thread' \in [Threads -> LookupCall] /\ left' \in Remaining /\ OneLoader(thread', loader', claimed')
      BY <2>1 DEF DictInv
    <2>3. ~Collide => TablesRight(defs', keyed', claimed', loader', left', answer')
      BY <2>1, TablesKept
    <2> QED
      BY <2>1, <2>2, <2>3, StepKeeps
  <1> QED
    BY <1>1, <1>2

\* Right tables tell all key attributes.
LEMMA DictInvComplete == DictInv => KeyAttrsComplete
  <1> SUFFICES ASSUME DictInv, answer.op = "keys", ~Collide, ~answer.early
               PROVE  answer.value = ToldKeyIds(answer.node) \/ KeptEarly(answer.node)
    BY Zenon DEF KeyAttrsComplete, Excused
  <1>1. AnswerRight(answer, defs) /\ KeysRight(defs, keyed)
    BY Zenon DEF DictInv, TablesRight
  <1>2. PICK n \in YangNodes :
           /\ answer.node = n
           /\ NumberOf(n) \in DOMAIN defs /\ (defs[NumberOf(n)].early \/ answer.value = ToldKeyIds(n))
    BY <1>1, Zenon DEF AnswerRight
  <1>3. keyed[KeyOf(n)] = NumberOf(n)
    BY <1>1, <1>2 DEF KeysRight
  <1> QED
    BY <1>2, <1>3, Zenon DEF KeptEarly

\* The key attributes that cps_api_key_attrs tells of an object are all of them,
\* for any libraries, metadata files and threads, unless the numbers of the
\* libraries collide or the answer, or the first one for this object, came while
\* another thread was loading.
THEOREM KeyAttrsTold == DictSpec => []KeyAttrsComplete
  <1>1. Installed /\ DictInit(ids) => DictInv
    BY DictInitInv
  <1> QED
    BY <1>1, DictNextInv, DictInvComplete, PTL DEF DictSpec

=============================================================================
