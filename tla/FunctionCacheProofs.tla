------------------------- MODULE FunctionCacheProofs -------------------------
(***************************************************************************)
(* Proofs about the function cache, for any number of threads, any table   *)
(* and any number of allocations.                                          *)
(***************************************************************************)
EXTENDS FunctionCache, FiniteSetTheorems, TLAPS

\* Some address is resolved to the entry f.
Resolvable(f) == f \in Fde /\ \E b \in Addr : parse_function_details(b) = f

\* What holds of a thread's registers at each point of unwind_frame.
ThreadInv(t) ==
    /\ pc[t] # "idle" => ip[t] \in Addr
    /\ details[t] # None <=> pc[t] \in {"insert", "store", "answer"}
    /\ details[t] # None => Resolvable(obj[details[t]])
    /\ answer[t] # None <=> pc[t] \in {"cursor", "stepped", "ask", "done"}
    /\ pc[t] = "cursor" => unwind_info[t] \in Obj

\* The inductive invariant for soundness: what is strongly referenced is live
\* and came from a parse.
IInv == TypeOK /\ CacheSound /\ \A t \in Thread : ThreadInv(t)

\* parse_function_details returns an entry that covers the address, or fails.
LEMMA ParseResult ==
    ASSUME NEW a \in Addr
    PROVE  \/ parse_function_details(a) \in Failures
           \/ /\ parse_function_details(a) \in Fde
              /\ Covers(parse_function_details(a), a)
  BY TableAssumption, NoneAssumption, Zenon DEF parse_function_details, Failures

\* A cache hit is a cached allocation whose entry covers the address.
LEMMA HitCovers ==
    ASSUME TypeOK, CacheSound, NEW a \in Addr, NEW o \in Hits(a)
    PROVE  /\ o \in Obj
           /\ Resolvable(obj[o])
           /\ Covers(obj[o], a)
           /\ cache[Lo[obj[o]]] = o
<1>1. PICK k \in Addr : k <= a /\ cache[k] = o /\ a < Hi[obj[o]]
  BY Zenon DEF Hits, Cached
<1>2. o \in Obj /\ o # None
  BY NoneAssumption, Zenon DEF Hits
<1> QED
  BY <1>1, <1>2, Zenon DEF CacheSound, Resolvable, Covers

\* The invariant holds initially.
LEMMA InvInit == Init => IInv
  BY NoneAssumption DEF Init, IInv, TypeOK, CacheSound, ThreadInv

\* Every step preserves the invariant.
LEMMA InvStep == IInv /\ [Next]_vars => IInv'
<1> SUFFICES ASSUME IInv, [Next]_vars PROVE IInv'
  BY Zenon
<1> USE DEF IInv
<1>1. ASSUME NEW t \in Thread, NEW a \in Addr, Begin(t, a) PROVE IInv'
  BY <1>1 DEF Begin, TypeOK, CacheSound, ThreadInv, Resolvable
<1>0. ASSUME NEW t \in Thread, Lock(t) PROVE IInv'
  BY <1>0, NoneAssumption DEF Lock, Section, TypeOK, CacheSound, ThreadInv, Resolvable
<1>2. ASSUME NEW t \in Thread, LookupHit(t) PROVE IInv'
  <2>1. PICK o \in Hits(ip[t]) : details' = [details EXCEPT ![t] = o]
    BY <1>2, Zenon DEF LookupHit
  <2>2. o \in Obj /\ Resolvable(obj[o])
    BY <1>2, <2>1, HitCovers, Zenon DEF LookupHit, ThreadInv
  <2> QED
    BY <1>2, <2>1, <2>2, NoneAssumption
       DEF LookupHit, Unlock, TypeOK, CacheSound, ThreadInv, Resolvable
<1>3. ASSUME NEW t \in Thread, LookupMiss(t) PROVE IInv'
  BY <1>3, NoneAssumption
     DEF LookupMiss, Unlock, TypeOK, CacheSound, ThreadInv, Resolvable
<1>4. ASSUME NEW t \in Thread, ParseOk(t) PROVE IInv'
  <2> DEFINE f == parse_function_details(ip[t])
  <2>1. PICK o \in Obj : /\ obj[o] = None
                         /\ obj' = [obj EXCEPT ![o] = f]
                         /\ details' = [details EXCEPT ![t] = o]
    BY <1>4, Zenon DEF ParseOk
  <2>2. f \in Fde /\ ip[t] \in Addr /\ Resolvable(f)
    BY <1>4, Zenon DEF ParseOk, ThreadInv, Resolvable
  <2> HIDE DEF f
  <2>3. TypeOK'
    BY <1>4, <2>1, <2>2, Zenon DEF ParseOk, TypeOK
  <2>4. CacheSound'
    BY <1>4, <2>1, <2>2, NoneAssumption DEF ParseOk, TypeOK, CacheSound
  <2>5. ASSUME NEW s \in Thread PROVE ThreadInv(s)'
    BY <1>4, <2>1, <2>2, NoneAssumption
       DEF ParseOk, TypeOK, ThreadInv, Resolvable
  <2> QED
    BY <2>3, <2>4, <2>5, Zenon
<1>5. ASSUME NEW t \in Thread, ParseFail(t) PROVE IInv'
  BY <1>5, NoneAssumption
     DEF ParseFail, TypeOK, CacheSound, ThreadInv, Resolvable
<1>6. ASSUME NEW t \in Thread, Insert(t) PROVE IInv'
  <2> DEFINE d == details[t]
             k == Lo[obj[d]]
  <2>1. d \in Obj /\ Resolvable(obj[d]) /\ k \in Addr
    BY <1>6, TableAssumption DEF Insert, ThreadInv, TypeOK, Resolvable
  <2>2. cache' = [cache EXCEPT ![k] = d]
    BY <1>6, Zenon DEF Insert
  <2>3. \A o \in Obj : Owned(o, cache', details') => obj'[o] = obj[o]
    BY <1>6, Zenon DEF Insert, Release
  <2> HIDE DEF d, k
  <2>4. TypeOK'
    <3>0. obj \in [Obj -> Fde \cup {None}] /\ cache \in [Addr -> Obj \cup {None}]
      BY Zenon DEF TypeOK
    <3>1. /\ obj' \in [Obj -> Fde \cup {None}]
          /\ cache' \in [Addr -> Obj \cup {None}]
      <4>1. Release(obj)
        BY <1>6, Zenon DEF Insert
      <4>2. obj' \in [Obj -> Fde \cup {None}]
        BY <3>0, <4>1, Zenon DEF Release
      <4> QED BY <2>1, <2>2, <3>0, <4>2, Zenon
    <3>2. /\ pc[t] = "store" /\ pc' = [pc EXCEPT ![t] = "answer"]
          /\ lock = t /\ lock' = None
          /\ UNCHANGED <<ip, details, unwind_info, answer, seen, signal>>
      BY <1>6, Zenon DEF Insert, Unlock
    <3> QED BY <3>1, <3>2, NoneAssumption DEF TypeOK
  <2>5. \A a \in Addr : cache'[a] # None => obj'[cache'[a]] = obj[cache'[a]]
    BY <2>3, <2>4 DEF Owned, TypeOK
  <2>6. CacheSound'
    BY <2>1, <2>2, <2>5 DEF TypeOK, CacheSound, Resolvable, k
  <2>7. \A s \in Thread : details'[s] # None => obj'[details'[s]] = obj[details'[s]]
    BY <2>3, <2>4 DEF Owned, TypeOK
  <2>8. ASSUME NEW s \in Thread PROVE ThreadInv(s)'
    BY <1>6, <2>7 DEF Insert, TypeOK, ThreadInv, Resolvable
  <2> QED
    BY <2>4, <2>6, <2>8, Zenon
<1>7. ASSUME NEW t \in Thread, FillProcInfo(t) PROVE IInv'
  <2> DEFINE d == details[t]
  <2>1. d \in Obj /\ Resolvable(obj[d])
    <3>1. pc[t] = "answer"
      BY <1>7, Zenon DEF FillProcInfo
    <3>2. d # None /\ Resolvable(obj[d])
      BY <3>1 DEF ThreadInv
    <3>3. d \in Obj \cup {None}
      BY Zenon DEF TypeOK
    <3> QED BY <3>2, <3>3, Zenon
  <2>2. \A o \in Obj : Owned(o, cache', details') => obj'[o] = obj[o]
    BY <1>7, Zenon DEF FillProcInfo, Release
  <2>3. TypeOK'
    <3>1. obj' \in [Obj -> Fde \cup {None}]
      <4>1. Release(obj)
        BY <1>7, Zenon DEF FillProcInfo
      <4>2. obj \in [Obj -> Fde \cup {None}]
        BY Zenon DEF TypeOK
      <4> QED BY <4>1, <4>2, Zenon DEF Release
    <3>2. /\ pc[t] = "answer" /\ pc' = [pc EXCEPT ![t] = "cursor"]
          /\ unwind_info' = [unwind_info EXCEPT ![t] = d]
          /\ answer' = [answer EXCEPT ![t] = obj[d]]
          /\ details' = [details EXCEPT ![t] = None]
          /\ UNCHANGED <<cache, lock, ip, seen, signal>>
      BY <1>7, Zenon DEF FillProcInfo
    <3> HIDE DEF d
    <3> QED BY <2>1, <3>1, <3>2 DEF TypeOK, Resolvable
  <2>4. \A a \in Addr : cache'[a] # None => obj'[cache'[a]] = obj[cache'[a]]
    BY <2>2, <2>3 DEF Owned, TypeOK
  <2>5. CacheSound'
    BY <1>7, <2>4 DEF FillProcInfo, TypeOK, CacheSound
  <2>6. \A s \in Thread : details'[s] # None => obj'[details'[s]] = obj[details'[s]]
    BY <2>2, <2>3 DEF Owned, TypeOK
  <2>7. ASSUME NEW s \in Thread PROVE ThreadInv(s)'
    BY <1>7, <2>1, <2>6, NoneAssumption
       DEF FillProcInfo, TypeOK, ThreadInv, Resolvable
  <2> QED
    BY <2>3, <2>5, <2>7, Zenon
<1>8. ASSUME NEW t \in Thread, ReadProcInfo(t) PROVE IInv'
  <2>1. PICK f \in Contents(unwind_info[t]) : seen' = [seen EXCEPT ![t] = f]
    BY <1>8, Zenon DEF ReadProcInfo
  <2>2. f \in Fde \cup {Garbage}
    BY <1>8, <2>1 DEF ReadProcInfo, Contents, ThreadInv, TypeOK
  <2> QED
    BY <1>8, <2>1, <2>2
       DEF ReadProcInfo, TypeOK, CacheSound, ThreadInv, Resolvable
<1>9. ASSUME NEW t \in Thread, AskSignal(t) \/ StepEnds(t) PROVE IInv'
  BY <1>9, NoneAssumption
     DEF AskSignal, StepEnds, Unlock, TypeOK, CacheSound, ThreadInv, Resolvable
<1>10. ASSUME NEW t \in Thread, Return(t) PROVE IInv'
  BY <1>10 DEF Return, TypeOK, CacheSound, ThreadInv, Resolvable
<1>11. CASE UNCHANGED vars
  BY <1>11 DEF vars, TypeOK, CacheSound, ThreadInv, Resolvable
<1> QED
  BY <1>0, <1>1, <1>2, <1>3, <1>4, <1>5, <1>6, <1>7, <1>8, <1>9, <1>10, <1>11
     DEF Next, Step

\* Soundness of what the threads share and hold.
THEOREM Invariance == Spec => []IInv
  BY InvInit, InvStep, PTL DEF Spec

\* The model is well typed.
THEOREM TypeCorrect == Spec => []TypeOK
  BY Invariance, PTL DEF IInv

\* Cached allocations are live and describe the entry of their key, for any
\* interleaving of any number of threads.
THEOREM CacheStaysSound == Spec => []CacheSound
  BY Invariance, PTL DEF IInv

-----------------------------------------------------------------------------
(* Transparency *)

\* With a consistent table, an entry that is resolved to and covers an
\* address is what parsing yields for that address.
LEMMA ResolvedByAll ==
    ASSUME TableConsistent, NEW f, Resolvable(f), NEW a \in Addr, Covers(f, a)
    PROVE  parse_function_details(a) = f
  BY Zenon DEF TableConsistent, Resolvable

\* Two entries that are resolved to and start together are the same.
LEMMA StartDetermines ==
    ASSUME TableConsistent, NEW f, NEW g, Resolvable(f), Resolvable(g),
           Lo[f] = Lo[g]
    PROVE  f = g
<1>1. ASSUME NEW h, Resolvable(h) PROVE Lo[h] \in Addr /\ Covers(h, Lo[h])
  <2>1. PICK b \in Addr : parse_function_details(b) = h
    BY <1>1, Zenon DEF Resolvable
  <2>2. h \in Fde /\ Covers(h, b)
    BY <1>1, <2>1, ParseResult, NoneAssumption, Zenon DEF Resolvable
  <2> QED
    BY <2>2, TableAssumption DEF Covers, Addr
<1> QED
  BY <1>1, ResolvedByAll, Zenon

\* What a thread holds or has answered is the parse result for its address,
\* and an answered entry is cached.
AnswerInv(t) ==
    /\ details[t] # None => obj[details[t]] = parse_function_details(ip[t])
    /\ pc[t] = "answer" => cache[Lo[obj[details[t]]]] # None
    /\ answer[t] # None => answer[t] = parse_function_details(ip[t])
    /\ answer[t] \in Fde => cache[Lo[answer[t]]] # None

\* Only an insert changes the cache, and it never empties a slot.
LEMMA CacheKeepsKeys ==
    ASSUME IInv, [Next]_vars, NEW a \in Addr, cache[a] # None
    PROVE  cache'[a] # None
<1>1. CASE UNCHANGED cache
  BY <1>1, Zenon
<1>2. ASSUME NEW t \in Thread, Insert(t) PROVE cache'[a] # None
  BY <1>2, NoneAssumption, Zenon DEF Insert, IInv, TypeOK, ThreadInv
<1> QED
  BY <1>1, <1>2, Zenon DEF Next, Step, vars, Begin, Lock, LookupHit, LookupMiss, ParseOk,
     ParseFail, FillProcInfo, ReadProcInfo, AskSignal, StepEnds, Return

\* The contents of an allocation that is owned before and after a step do not
\* change.
LEMMA OwnedUnchanged ==
    ASSUME IInv, [Next]_vars, NEW o \in Obj,
           Owned(o, cache, details), Owned(o, cache', details')
    PROVE  obj'[o] = obj[o]
<1>1. obj[o] # None
  BY NoneAssumption DEF Owned, IInv, CacheSound, ThreadInv, Resolvable
<1>2. CASE UNCHANGED obj
  BY <1>2, Zenon
<1>3. ASSUME NEW t \in Thread, ParseOk(t) PROVE obj'[o] = obj[o]
  BY <1>1, <1>3, Zenon DEF ParseOk, IInv, TypeOK
<1>4. ASSUME NEW t \in Thread, Insert(t) \/ FillProcInfo(t)
      PROVE  obj'[o] = obj[o]
  BY <1>4, Zenon DEF Insert, FillProcInfo, Release
<1> QED
  BY <1>2, <1>3, <1>4, Zenon DEF Next, Step, vars, Begin, Lock, LookupHit, LookupMiss,
     ParseFail, ReadProcInfo, AskSignal, StepEnds, Return

\* An Arc that a thread holds across a step keeps its contents.
LEMMA HeldUnchanged ==
    ASSUME IInv, [Next]_vars, NEW t \in Thread,
           details[t] # None, details'[t] = details[t]
    PROVE  obj'[details'[t]] = obj[details[t]]
  BY OwnedUnchanged DEF Owned, IInv, TypeOK

\* Answers stay right through every step.
LEMMA AnswerStep ==
    ASSUME TableConsistent, IInv, \A t \in Thread : AnswerInv(t), [Next]_vars,
           NEW s \in Thread
    PROVE  AnswerInv(s)'
<1> USE DEF AnswerInv
<1>0. IInv'
  BY InvStep, Zenon
<1>k. \A a \in Addr : cache[a] # None => cache'[a] # None
  BY CacheKeepsKeys, Zenon
<1>f. \A f \in Fde : Lo[f] \in Addr
  BY TableAssumption, Zenon
<1>s. CASE /\ details'[s] = details[s] /\ pc'[s] = pc[s]
           /\ answer'[s] = answer[s] /\ ip'[s] = ip[s]
  <2>1. details[s] # None => obj'[details'[s]] = obj[details[s]]
    BY <1>s, HeldUnchanged, Zenon
  <2>2. details[s] # None => obj[details[s]] \in Fde
    BY Zenon DEF IInv, ThreadInv, Resolvable
  <2>3. pc[s] = "answer" => details[s] # None
    BY Zenon DEF IInv, ThreadInv
  <2> QED
    BY <1>s, <1>k, <1>f, <2>1, <2>2, <2>3, Zenon
<1>1. ASSUME NEW a \in Addr, Begin(s, a) PROVE AnswerInv(s)'
  BY <1>1, NoneAssumption DEF Begin, IInv, TypeOK, ThreadInv
<1>2. CASE LookupHit(s)
  <2>1. PICK o \in Hits(ip[s]) : details' = [details EXCEPT ![s] = o]
    BY <1>2, Zenon DEF LookupHit
  <2>2. ip[s] \in Addr
    BY <1>2, Zenon DEF LookupHit, IInv, ThreadInv
  <2>3. /\ Resolvable(obj[o])
        /\ Covers(obj[o], ip[s])
        /\ cache[Lo[obj[o]]] = o
        /\ o # None
    BY <2>1, <2>2, HitCovers, NoneAssumption DEF IInv
  <2>4. obj[o] = parse_function_details(ip[s])
    BY <2>2, <2>3, ResolvedByAll, Zenon
  <2> QED
    BY <1>2, <2>1, <2>3, <2>4, NoneAssumption
       DEF LookupHit, IInv, TypeOK, ThreadInv
<1>3. CASE LookupMiss(s)
  BY <1>3, NoneAssumption DEF LookupMiss, IInv, TypeOK, ThreadInv
<1>l. CASE Lock(s)
  <2>1. /\ details'[s] = details[s] /\ answer'[s] = answer[s] /\ ip'[s] = ip[s]
        /\ obj' = obj /\ cache' = cache
    BY <1>l, Zenon DEF Lock
  <2>2. pc'[s] # "answer"
    BY <1>l DEF Lock, Section, IInv, TypeOK
  <2> QED BY <2>1, <2>2, Zenon
<1>4. CASE ParseOk(s)
  BY <1>4, NoneAssumption DEF ParseOk, IInv, TypeOK, ThreadInv
<1>5. CASE ParseFail(s)
  BY <1>5, NoneAssumption DEF ParseFail, IInv, TypeOK, ThreadInv
<1>6. CASE Insert(s)
  <2>1. details[s] # None /\ details'[s] = details[s] /\ answer[s] = None
    BY <1>6, Zenon DEF Insert, IInv, ThreadInv
  <2>2. obj'[details'[s]] = obj[details[s]]
    BY <2>1, HeldUnchanged, Zenon
  <2>3. Lo[obj[details[s]]] \in Addr
    BY <1>f, <2>1, Zenon DEF IInv, ThreadInv, Resolvable
  <2> QED
    BY <1>6, <2>1, <2>2, <2>3, NoneAssumption, Zenon DEF Insert, IInv, TypeOK
<1>7. CASE FillProcInfo(s)
  BY <1>7, NoneAssumption DEF FillProcInfo, IInv, TypeOK, ThreadInv
<1>8. CASE ReadProcInfo(s) \/ AskSignal(s) \/ StepEnds(s)
  BY <1>8, NoneAssumption
     DEF ReadProcInfo, AskSignal, StepEnds, IInv, TypeOK, ThreadInv
<1>9. CASE Return(s)
  <2>1. details[s] = None
    BY <1>9 DEF Return, IInv, ThreadInv
  <2>2. details'[s] = None /\ answer'[s] = None /\ pc'[s] = "idle"
    BY <1>9, <2>1, Zenon DEF Return, IInv, TypeOK
  <2>3. None \notin Fde
    BY NoneAssumption, Zenon
  <2> QED BY <2>2, <2>3
<1>10. ASSUME NEW t \in Thread, t # s, Step(t) \/ \E a \in Addr : Begin(t, a)
       PROVE  /\ details'[s] = details[s] /\ pc'[s] = pc[s]
              /\ answer'[s] = answer[s] /\ ip'[s] = ip[s]
  BY <1>10 DEF Step, Begin, Lock, LookupHit, LookupMiss, ParseOk, ParseFail, Insert,
     FillProcInfo, ReadProcInfo, AskSignal, StepEnds, Return, IInv, TypeOK
<1>11. CASE UNCHANGED vars
  BY <1>s, <1>11, Zenon DEF vars
<1> QED
  BY <1>s, <1>1, <1>2, <1>3, <1>l, <1>4, <1>5, <1>6, <1>7, <1>8, <1>9, <1>10, <1>11, Zenon
     DEF Next, Step

\* The answers of all threads, for a consistent table.
Answers == TableConsistent => \A t \in Thread : AnswerInv(t)

\* The answers stay right in every reachable state.
LEMMA AnswersInvariant == Spec => []Answers
<1>1. Init => Answers
  BY NoneAssumption DEF Init, Answers, AnswerInv
<1>2. IInv /\ Answers /\ [Next]_vars => Answers'
  <2> SUFFICES ASSUME IInv, Answers, [Next]_vars, TableConsistent,
                      NEW s \in Thread
               PROVE  AnswerInv(s)'
    BY Zenon DEF Answers, TableConsistent
  <2> QED
    BY AnswerStep, Zenon DEF Answers
<1> QED
  BY <1>1, <1>2, Invariance, PTL DEF Spec

\* Caching is transparent: with a consistent table, libunwind is told what a
\* parse would have told it, in every interleaving.
THEOREM Transparency == Spec => []CacheTransparent
<1>1. Answers => CacheTransparent
  BY Zenon DEF Answers, AnswerInv, CacheTransparent
<1> QED
  BY <1>1, AnswersInvariant, PTL

-----------------------------------------------------------------------------
(* The signal-frame query *)

\* For an address whose entry f is cached, the cache is hit, and every hit
\* describes f.
LEMMA HitsAreTheEntry ==
    ASSUME TableConsistent, IInv, NEW a \in Addr, NEW f \in Fde,
           parse_function_details(a) = f, cache[Lo[f]] # None
    PROVE  /\ Hits(a) # {}
           /\ \A o \in Hits(a) : obj[o] = f
<1> DEFINE k == Lo[f]
<1>1. Resolvable(f) /\ Covers(f, a) /\ k \in Addr
  BY ParseResult, TableAssumption, NoneAssumption, Zenon DEF Resolvable
<1>2. ASSUME NEW j \in Addr, cache[j] # None
      PROVE  /\ cache[j] \in Obj
             /\ Resolvable(obj[cache[j]])
             /\ Lo[obj[cache[j]]] = j
  BY <1>2 DEF IInv, TypeOK, CacheSound, Resolvable
<1>3. obj[cache[k]] = f
  BY <1>1, <1>2, StartDetermines, Zenon
<1>4. ASSUME NEW j \in Addr, j <= a, cache[j] # None PROVE j <= k
  <2> SUFFICES ASSUME k < j PROVE FALSE
    BY <1>1, <1>4, TableAssumption DEF Addr
  <2>1. Covers(f, j)
    BY <1>1, <1>4, TableAssumption DEF Covers, Addr
  <2>2. parse_function_details(j) = f
    BY <1>1, <2>1, ResolvedByAll, Zenon
  <2>3. PICK b \in Addr : parse_function_details(b) = obj[cache[j]]
    BY <1>2, <1>4, Zenon DEF Resolvable
  <2>4. Covers(obj[cache[j]], b)
    BY <1>2, <1>4, <2>3, ParseResult, NoneAssumption DEF Resolvable
  <2>5. Covers(obj[cache[j]], j)
    BY <1>2, <1>4, <2>4, TableAssumption DEF Covers, Addr, Resolvable
  <2>6. obj[cache[j]] = f
    BY <1>2, <1>4, <2>2, <2>5, ResolvedByAll, Zenon
  <2> QED
    BY <1>1, <1>2, <1>4, <2>6, TableAssumption DEF Addr
<1>5. cache[k] \in Hits(a)
  BY <1>1, <1>2, <1>3, <1>4, Zenon DEF Hits, Cached, Covers
<1>6. ASSUME NEW o \in Hits(a) PROVE obj[o] = f
  BY HitCovers, ResolvedByAll DEF IInv
<1> QED
  BY <1>5, <1>6, Zenon

\* What is_signal_frame has reported to a thread, for a consistent table.
SignalInv ==
    TableConsistent =>
        \A t \in Thread :
            /\ pc[t] # "done" => signal[t] = "unasked"
            /\ signal[t] = "signal" => answer[t] \in Signal
            /\ signal[t] = "plain" => answer[t] \notin Signal

\* The reports stay right through every step.
LEMMA SignalStep == IInv /\ Answers /\ SignalInv /\ [Next]_vars => SignalInv'
<1> SUFFICES ASSUME IInv, Answers, SignalInv, [Next]_vars, TableConsistent,
                    NEW s \in Thread
             PROVE  /\ pc'[s] # "done" => signal'[s] = "unasked"
                    /\ signal'[s] = "signal" => answer'[s] \in Signal
                    /\ signal'[s] = "plain" => answer'[s] \notin Signal
  BY Zenon DEF SignalInv, TableConsistent
<1> DEFINE P == /\ pc'[s] # "done" => signal'[s] = "unasked"
                /\ signal'[s] = "signal" => answer'[s] \in Signal
                /\ signal'[s] = "plain" => answer'[s] \notin Signal
<1>1. CASE pc'[s] = pc[s] /\ signal'[s] = signal[s] /\ answer'[s] = answer[s]
  BY <1>1, Zenon DEF SignalInv
<1>l. CASE Lock(s)
  <2>1. pc[s] # "done" /\ signal'[s] = signal[s] /\ answer'[s] = answer[s]
    BY <1>l DEF Lock, Section
  <2> QED BY <2>1, Zenon DEF SignalInv
<1>2. CASE \/ LookupHit(s) \/ LookupMiss(s) \/ ParseOk(s) \/ ParseFail(s)
           \/ Insert(s) \/ FillProcInfo(s) \/ ReadProcInfo(s)
           \/ StepEnds(s) \/ \E a \in Addr : Begin(s, a)
  BY <1>2, Zenon DEF SignalInv, Begin, LookupHit, LookupMiss, ParseOk, ParseFail,
     Insert, FillProcInfo, ReadProcInfo, StepEnds, IInv, TypeOK
<1>3. CASE AskSignal(s)
  <2>1. ip[s] \in Addr /\ answer[s] # None
    BY <1>3, Zenon DEF AskSignal, IInv, ThreadInv
  <2>2. answer[s] = parse_function_details(ip[s])
    BY <2>1, Zenon DEF Answers, AnswerInv
  <2>3. CASE answer[s] \in Fde
    <3>1. cache[Lo[answer[s]]] # None
      BY <2>3, Zenon DEF Answers, AnswerInv
    <3>2. is_signal_frame(ip[s]) <=> answer[s] \in Signal
      BY <2>1, <2>2, <2>3, <3>1, HitsAreTheEntry, Zenon DEF is_signal_frame
    <3> QED
      BY <1>3, <3>2, Zenon DEF AskSignal, IInv, TypeOK
  <2>4. CASE answer[s] \in Failures
    <3>1. Hits(ip[s]) = {}
      <4> SUFFICES ASSUME NEW o \in Hits(ip[s]) PROVE FALSE
        BY Zenon
      <4>1. Resolvable(obj[o]) /\ Covers(obj[o], ip[s])
        BY <2>1, HitCovers, Zenon DEF IInv
      <4>2. parse_function_details(ip[s]) \in Fde
        BY <2>1, <4>1, ResolvedByAll, Zenon DEF Resolvable
      <4> QED
        BY <2>2, <2>4, <4>2, NoneAssumption, Zenon
    <3>2. answer[s] \notin Signal
      BY <2>4, NoneAssumption, Zenon
    <3> QED
      BY <1>3, <3>1, <3>2, Zenon DEF AskSignal, is_signal_frame, IInv, TypeOK
  <2> QED
    BY <2>1, <2>3, <2>4, Zenon DEF IInv, TypeOK
<1>4. CASE Return(s)
  BY <1>4, Zenon DEF Return, IInv, TypeOK
<1>5. ASSUME NEW t \in Thread, t # s, Step(t) \/ \E a \in Addr : Begin(t, a)
      PROVE  pc'[s] = pc[s] /\ signal'[s] = signal[s] /\ answer'[s] = answer[s]
  BY <1>5 DEF Step, Begin, Lock, LookupHit, LookupMiss, ParseOk, ParseFail, Insert,
     FillProcInfo, ReadProcInfo, AskSignal, StepEnds, Return, IInv, TypeOK
<1>6. CASE UNCHANGED vars
  BY <1>1, <1>6, Zenon DEF vars
<1> QED
  BY <1>1, <1>l, <1>2, <1>3, <1>4, <1>5, <1>6, Zenon DEF Next, Step

\* The flag is_signal_frame reports after a step is that of the entry the
\* step used, in every interleaving.
THEOREM SignalReports == Spec => []SignalAgrees
<1>1. Init => SignalInv
  BY Zenon DEF Init, SignalInv
<1>2. SignalInv => SignalAgrees
  BY Zenon DEF SignalInv, SignalAgrees
<1> QED
  BY <1>1, <1>2, SignalStep, Invariance, AnswersInvariant, PTL DEF Spec

-----------------------------------------------------------------------------
(* Monotonicity and refinement *)

\* A replaced allocation describes the entry of the one it replaces, when the
\* table is consistent; so a cached start_ip keeps its meaning.
THEOREM Monotonicity ==
    ASSUME TableConsistent PROVE Spec => CacheMonotone
<1> DEFINE A == \A a \in Addr : cache[a] # None =>
                  /\ cache'[a] # None
                  /\ obj'[cache'[a]] = obj[cache[a]]
<1>1. ASSUME IInv, [Next]_vars PROVE A
  <2> SUFFICES ASSUME NEW a \in Addr, cache[a] # None
               PROVE  cache'[a] # None /\ obj'[cache'[a]] = obj[cache[a]]
    BY Zenon
  <2>1. cache'[a] # None
    BY <1>1, CacheKeepsKeys, Zenon
  <2>2. IInv'
    BY <1>1, InvStep, Zenon
  <2>3. /\ Resolvable(obj[cache[a]])
        /\ Lo[obj[cache[a]]] = a
    BY <1>1, Zenon DEF IInv, CacheSound, Resolvable
  <2>4. /\ Resolvable(obj'[cache'[a]])
        /\ Lo[obj'[cache'[a]]] = a
    BY <2>1, <2>2, Zenon DEF IInv, CacheSound, Resolvable
  <2> QED
    BY <1>1, <2>1, <2>3, <2>4, StartDetermines, Zenon
<1>2. IInv /\ [Next]_vars => [A]_vars
  BY <1>1, Zenon
<1> QED
  BY <1>2, Invariance, PTL DEF Spec, CacheMonotone

\* A step of the cache is a step of the lookup service, or leaves it alone.
LEMMA ServiceStep ==
    ASSUME TableConsistent, IInv, Answers, [Next]_vars
    PROVE  [Service!Next]_(Service!svars)
<1> USE DEF Service!Next, Service!svars, Phase
<1>t. \A t \in Thread : ThreadInv(t) /\ AnswerInv(t)
  BY Zenon DEF IInv, Answers
<1>1. ASSUME NEW t \in Thread, NEW a \in Addr, Begin(t, a)
      PROVE  Service!Ask(t, a)
  BY <1>1, <1>t, Zenon DEF Begin, Service!Ask, IInv, TypeOK, ThreadInv
<1>2. ASSUME NEW t \in Thread,
             \/ Lock(t) \/ LookupHit(t) \/ LookupMiss(t) \/ ParseOk(t) \/ Insert(t)
             \/ ReadProcInfo(t) \/ AskSignal(t) \/ StepEnds(t)
      PROVE  UNCHANGED <<Phase, ip, answer>>
  <2>1. CASE LookupHit(t) \/ LookupMiss(t)
    BY <2>1, <1>t DEF LookupHit, LookupMiss, IInv, TypeOK, ThreadInv
  <2>l. CASE Lock(t)
    BY <2>l, <1>t DEF Lock, Section, IInv, TypeOK, ThreadInv
  <2>2. CASE ParseOk(t) \/ Insert(t)
    BY <2>2, <1>t DEF ParseOk, Insert, IInv, TypeOK, ThreadInv
  <2>3. CASE ReadProcInfo(t) \/ AskSignal(t)
    BY <2>3, <1>t DEF ReadProcInfo, AskSignal, IInv, TypeOK, ThreadInv
  <2>4. CASE StepEnds(t)
    BY <2>4, <1>t, Zenon DEF StepEnds, IInv, TypeOK, ThreadInv
  <2> QED
    BY <1>2, <2>l, <2>1, <2>2, <2>3, <2>4, Zenon
<1>3. ASSUME NEW t \in Thread, ParseFail(t) PROVE Service!Reply(t)
  BY <1>3, <1>t, NoneAssumption
    , Zenon DEF ParseFail, Service!Reply, IInv, TypeOK, ThreadInv
<1>4. ASSUME NEW t \in Thread, FillProcInfo(t) PROVE Service!Reply(t)
  <2>1. obj[details[t]] = parse_function_details(ip[t]) /\ obj[details[t]] \in Fde
    BY <1>4, <1>t, Zenon DEF FillProcInfo, ThreadInv, AnswerInv, Resolvable
  <2> QED
    BY <1>4, <1>t, <2>1, NoneAssumption
      , Zenon DEF FillProcInfo, Service!Reply, IInv, TypeOK, ThreadInv
<1>5. ASSUME NEW t \in Thread, Return(t) PROVE Service!Return(t)
  BY <1>5, <1>t, Zenon DEF Return, Service!Return, IInv, TypeOK, ThreadInv
<1>6. CASE UNCHANGED vars
  BY <1>6, Zenon DEF vars
<1> QED
  BY <1>1, <1>2, <1>3, <1>4, <1>5, <1>6, Zenon DEF Next, Step

\* Concurrent find_proc_info calls implement atomic lookups in an immutable
\* table, for any number of threads and any consistent table.
THEOREM Refinement ==
    ASSUME TableConsistent PROVE Spec => ImplementsService
<1>1. Init => Service!Init
  BY Zenon DEF Init, Service!Init, Phase
<1>2. IInv /\ Answers /\ [Next]_vars
        => [Service!Next]_(Service!svars)
  BY ServiceStep, Zenon
<1> QED
  BY <1>1, <1>2, Invariance, AnswersInvariant, PTL
     DEF Spec, ImplementsService, Service!Spec

-----------------------------------------------------------------------------
(* The number of allocations *)

\* An allocation is live only while something owns it: no Arc is leaked.
NoLeak == \A o \in Obj : obj[o] # None => Owned(o, cache, details)

\* Every step frees what loses its last owner, and a new allocation is owned by
\* the thread that parses.
LEMMA NoLeakStep ==
    ASSUME IInv, NoLeak, [Next]_vars
    PROVE  NoLeak'
<1>1. ASSUME NEW t \in Thread, LookupHit(t) PROVE NoLeak'
  <2>1. PICK h \in Hits(ip[t]) : details' = [details EXCEPT ![t] = h]
    BY <1>1, Zenon DEF LookupHit
  <2>2. details[t] = None /\ UNCHANGED <<obj, cache>>
    BY <1>1, Zenon DEF LookupHit, IInv, ThreadInv
  <2>3. \A o \in Obj, s \in Thread : details[s] = o => details'[s] = o
    BY <2>1, <2>2, NoneAssumption DEF IInv, TypeOK
  <2> QED BY <2>2, <2>3, Zenon DEF NoLeak, Owned
<1>2. ASSUME NEW t \in Thread, ParseOk(t) PROVE NoLeak'
  <2>1. PICK n \in Obj : /\ obj' = [obj EXCEPT ![n] = parse_function_details(ip[t])]
                         /\ details' = [details EXCEPT ![t] = n]
    BY <1>2, Zenon DEF ParseOk
  <2>2. details[t] = None /\ UNCHANGED cache
    BY <1>2, Zenon DEF ParseOk, IInv, ThreadInv
  <2>3. \A o \in Obj, s \in Thread : details[s] = o => details'[s] = o
    BY <2>1, <2>2, NoneAssumption DEF IInv, TypeOK
  <2>4. details'[t] = n
    BY <2>1, Zenon DEF IInv, TypeOK
  <2>5. \A o \in Obj : o # n => obj'[o] = obj[o]
    BY <2>1, Zenon DEF IInv, TypeOK
  <2> QED BY <2>2, <2>3, <2>4, <2>5, Zenon DEF NoLeak, Owned
<1>3. ASSUME NEW t \in Thread, Insert(t) \/ FillProcInfo(t) PROVE NoLeak'
  <2>1. Release(obj)
    BY <1>3, Zenon DEF Insert, FillProcInfo
  <2> QED BY <2>1, Zenon DEF Release, NoLeak
<1>4. CASE UNCHANGED <<obj, cache, details>>
  BY <1>4, Zenon DEF NoLeak, Owned
<1> QED
  BY <1>1, <1>2, <1>3, <1>4, Zenon DEF Next, Step, vars, Begin, Lock, LookupMiss, ParseFail,
     ReadProcInfo, AskSignal, StepEnds, Return

\* No allocation is leaked in any reachable state.
THEOREM NothingLeaks == Spec => []NoLeak
<1>1. Init => NoLeak
  BY DEF Init, NoLeak
<1>2. IInv /\ NoLeak /\ [Next]_vars => NoLeak'
  BY NoLeakStep, Zenon
<1> QED
  BY <1>1, <1>2, Invariance, PTL DEF Spec

\* The entries that some address is resolved to, and what is in the cache.
Resolved == {f \in Fde : \E a \in Addr : parse_function_details(a) = f}
InCache == {o \in Obj : \E a \in Addr : cache[a] = o}

\* There are finitely many of these entries, because there are finitely many
\* addresses.
LEMMA ResolvedFinite == IsFiniteSet(Resolved)
<1> DEFINE Good == {a \in Addr : parse_function_details(a) \in Fde}
           entry == [a \in Good |-> parse_function_details(a)]
<1>1. IsFiniteSet(Addr)
  BY TableAssumption, FS_Interval DEF Addr
<1>2. IsFiniteSet(Good)
  BY <1>1, FS_Subset, Zenon
<1>3. entry \in Surjection(Good, Resolved)
  BY Zenon DEF Surjection, Resolved
<1> HIDE DEF Good, entry
<1> QED BY <1>2, <1>3, FS_Surjection, Zenon

\* At most one allocation per entry is cached: two that describe the same entry
\* would be cached under the same start_ip.
LEMMA CachedBounded ==
    ASSUME IInv
    PROVE  IsFiniteSet(InCache) /\ Cardinality(InCache) <= Cardinality(Resolved)
<1> DEFINE entry == [o \in InCache |-> obj[o]]
<1>1. \A o \in InCache : obj[o] \in Resolved /\ cache[Lo[obj[o]]] = o
  BY NoneAssumption DEF InCache, Resolved, IInv, CacheSound
<1>2. entry \in [InCache -> Resolved]
  BY <1>1, Zenon
<1>3. \A o, p \in InCache : entry[o] = entry[p] => o = p
  BY <1>1, Zenon
<1>4. entry \in Injection(InCache, Resolved)
  BY <1>2, <1>3, Zenon DEF Injection, IsInjective
<1> HIDE DEF entry
<1> QED BY <1>4, ResolvedFinite, FS_Injection, Zenon

\* Each thread holds at most one allocation.
LEMMA HeldBounded ==
    ASSUME IInv
    PROVE  LET Holders == {t \in Thread : details[t] # None}
               Held == {o \in Obj : \E t \in Thread : details[t] = o}
           IN  /\ IsFiniteSet(Holders) /\ IsFiniteSet(Held)
               /\ Cardinality(Held) <= Cardinality(Holders)
<1> DEFINE Holders == {t \in Thread : details[t] # None}
           Held == {o \in Obj : \E t \in Thread : details[t] = o}
           arc == [t \in Holders |-> details[t]]
<1>1. IsFiniteSet(Holders)
  BY ThreadAssumption, FS_Subset, Zenon
<1>2. \A t \in Holders : details[t] \in Held
  BY Zenon DEF IInv, TypeOK
<1>3. \A o \in Held : \E t \in Holders : arc[t] = o
  BY NoneAssumption, Zenon
<1>4. arc \in Surjection(Holders, Held)
  BY <1>2, <1>3, Zenon DEF Surjection
<1> HIDE DEF Holders, Held, arc
<1>5. IsFiniteSet(Held) /\ Cardinality(Held) <= Cardinality(Holders)
  BY <1>1, <1>4, FS_Surjection, Zenon
<1> QED BY <1>1, <1>5, Zenon DEF Holders, Held

\* Duplicate parses do not pile up, for any number of threads and any table: live
\* allocations are cached, at most one per entry, or held by a thread inside
\* find_proc_info.
THEOREM AllocationsStayBounded == Spec => []AllocationsBounded
<1>1. IInv /\ NoLeak => AllocationsBounded
  <2> DEFINE Live == {o \in Obj : obj[o] # None}
             Holders == {t \in Thread : details[t] # None}
             Held == {o \in Obj : \E t \in Thread : details[t] = o}
  <2> SUFFICES ASSUME IInv, NoLeak
               PROVE  Cardinality(Live) <= Cardinality(Resolved) + Cardinality(Holders)
    BY Zenon DEF AllocationsBounded, Resolved
  <2>1. Live \subseteq InCache \cup Held
    BY Zenon DEF NoLeak, Owned, InCache
  <2>2. IsFiniteSet(InCache) /\ Cardinality(InCache) <= Cardinality(Resolved)
    BY CachedBounded, Zenon
  <2>3. /\ IsFiniteSet(Holders) /\ IsFiniteSet(Held)
        /\ Cardinality(Held) <= Cardinality(Holders)
    BY HeldBounded, Zenon
  <2> HIDE DEF Live, Holders, Held
  <2>4. /\ IsFiniteSet(InCache \cup Held)
        /\ Cardinality(InCache \cup Held)
             = Cardinality(InCache) + Cardinality(Held) - Cardinality(InCache \cap Held)
    BY <2>2, <2>3, FS_Union, Zenon
  <2>5. IsFiniteSet(InCache \cap Held)
    BY <2>2, FS_Subset, Zenon
  <2>6. Cardinality(Live) <= Cardinality(InCache \cup Held) /\ IsFiniteSet(Live)
    BY <2>1, <2>4, FS_Subset, Zenon
  <2>7. /\ Cardinality(Live) \in Nat /\ Cardinality(InCache) \in Nat
        /\ Cardinality(Held) \in Nat /\ Cardinality(InCache \cap Held) \in Nat
        /\ Cardinality(Holders) \in Nat /\ Cardinality(Resolved) \in Nat
    BY <2>2, <2>3, <2>5, <2>6, ResolvedFinite, FS_CardinalityType, Zenon
  <2> QED BY <2>2, <2>3, <2>4, <2>6, <2>7
<1> QED BY <1>1, Invariance, NothingLeaks, PTL
=============================================================================
