------------------------------ MODULE JIT_proofs ------------------------------
(***************************************************************************)
(* Proofs about the two parts of the JIT: LazyJIT, for any threads,        *)
(* functions, calls and retries, and CodeMemory, for any slab size, any    *)
(* sizes that are asked for and any memory the system has.                 *)
(***************************************************************************)
EXTENDS LazyJIT, CodeMemory, Recursion_proofs, SequenceTheorems

Ready(f) == {c \in DOMAIN code : c[1] = f /\ code[c] = "ready"}

-----------------------------------------------------------------------------
(***************************************************************************)
(* The inductive invariant.                                                *)
(***************************************************************************)
\* A thread that asks for a function asks for one there is.
ThreadInv ==
  /\ DOMAIN thread = Threads
  /\ \A t \in Threads :
       /\ thread[t].at \in {"check", "get", "acquire"} => thread[t].fn \in Functions
       /\ thread[t].at = "erase" =>
            thread[t] = [at |-> "erase", loc |-> thread[t].loc, to |-> thread[t].to]

\* The resolver knows functions only.
KnownInv == \A loc \in known : Callee(loc) \in Functions

\* Without the lock nothing is compiled, and then nothing is pending.
FreeInv ==
  /\ lock = NoThread => job = NoJob
  /\ job = NoJob => pending = {}

JobInv ==
  job # NoJob =>
    /\ job = [fn |-> job.fn, left |-> job.left, started |-> job.started, n |-> job.n]
    /\ job.fn \in Functions \ pending
    /\ job.left \subseteq Calls
    /\ job.started \in BOOLEAN
    /\ job.started => mapping[job.fn] # None
    /\ Ready(job.fn) = {}

PendingInv == \A f \in pending : f \in Functions /\ Ready(f) = {}

\* A function without an address has no code, and none has two.
ReadyInv ==
  /\ DOMAIN mapping = Functions
  /\ \A f \in Functions : mapping[f] = None => Ready(f) = {}
  /\ \A c, d \in DOMAIN code :
       code[c] = "ready" /\ code[d] = "ready" /\ c[1] = d[1] => c = d

CInv == ThreadInv /\ KnownInv /\ FreeInv /\ JobInv /\ PendingInv /\ ReadyInv

-----------------------------------------------------------------------------
(***************************************************************************)
(* Threads.                                                                *)
(***************************************************************************)
LEMMA GoesKeeps ==
  ASSUME ThreadInv, NEW t \in Threads, NEW state, Goes(t, state),
         state.at \in {"check", "get", "acquire"} => state.fn \in Functions,
         state.at = "erase" => state = [at |-> "erase", loc |-> state.loc, to |-> state.to]
  PROVE  ThreadInv'
<1>1. thread'[t] = state /\ \A u \in Threads : u # t => thread'[u] = thread[u]
  BY DEF ThreadInv, Goes
<1>2. DOMAIN thread' = Threads
  BY DEF ThreadInv, Goes
<1> QED BY <1>1, <1>2 DEF ThreadInv

LEMMA AsksKeeps ==
  ASSUME ThreadInv, NEW t \in Threads, NEW where, NEW loc, NEW fn, Asks(t, where, loc, fn),
         where # "erase", where \in {"check", "get", "acquire"} => fn \in Functions
  PROVE  ThreadInv'
<1> DEFINE state == [at |-> where, loc |-> loc, fn |-> fn]
<1>1. Goes(t, state)
  BY DEF Asks
<1>2. state.at = where /\ state.fn = fn
  OBVIOUS
<1> HIDE DEF state
<1> QED BY <1>1, <1>2, GoesKeeps

LEMMA ExecutesKeeps ==
  ASSUME ThreadInv, NEW t \in Threads, NEW loc, Executes(t, loc)
  PROVE  ThreadInv'
<1> DEFINE state == [at |-> "exec", loc |-> loc]
<1>1. Goes(t, state) /\ state.at = "exec"
  BY DEF Executes
<1> HIDE DEF state
<1> QED BY <1>1, GoesKeeps

LEMMA RunsKeeps ==
  ASSUME ThreadInv, NEW t \in Threads, NEW c, Runs(t, c)
  PROVE  ThreadInv'
<1> DEFINE state == [at |-> "run", code |-> c]
<1>1. Goes(t, state) /\ state.at = "run"
  BY DEF Runs
<1> HIDE DEF state
<1> QED BY <1>1, GoesKeeps

LEMMA HasKeeps ==
  ASSUME ThreadInv, NEW t \in Threads, NEW c, Has(t, c)
  PROVE  ThreadInv'
<1>1. CASE thread[t].loc = None
  BY <1>1, RunsKeeps DEF Has
<1>2. CASE thread[t].loc # None
  <2> DEFINE state == [at |-> "erase", loc |-> thread[t].loc, to |-> c]
  <2>1. Goes(t, state)
    BY <1>2 DEF Has
  <2>2. state.at = "erase" /\ state = [at |-> "erase", loc |-> state.loc, to |-> state.to]
    OBVIOUS
  <2> HIDE DEF state
  <2> QED BY <2>1, <2>2, GoesKeeps
<1> QED BY <1>1, <1>2

\* What a thread does outside the emitter changes neither code nor its places.
LEMMA OutsideKeeps ==
  ASSUME CInv, UNCHANGED <<job, pending, mapping, code>>,
         UNCHANGED known, UNCHANGED lock, ThreadInv'
  PROVE  CInv'
BY DEF CInv, KnownInv, FreeInv, JobInv, PendingInv, ReadyInv, Ready

LEMMA AskStep ==
  ASSUME CInv, NEW t \in Threads, Ask(t)
  PROVE  CInv'
<1>1. PICK f \in Functions : Asks(t, "get", None, f)
  BY DEF Ask
<1>2. ThreadInv'
  BY <1>1, AsksKeeps DEF CInv
<1> QED BY <1>2, OutsideKeeps DEF Ask, jitVars

LEMMA ReturnStep ==
  ASSUME CInv, NEW t \in Threads, Return(t)
  PROVE  CInv'
<1> DEFINE state == Idle
<1>1. Goes(t, state) /\ state.at = "idle"
  BY DEF Return, Idle
<1> HIDE DEF state
<1>2. ThreadInv'
  BY <1>1, GoesKeeps DEF CInv
<1> QED BY <1>2, OutsideKeeps DEF Return, jitVars

LEMMA CallStep ==
  ASSUME CInv, NEW t \in Threads, Call(t)
  PROVE  CInv'
<1>1. PICK loc \in DOMAIN instr : Executes(t, loc)
  BY DEF Call
<1>2. ThreadInv'
  BY <1>1, ExecutesKeeps DEF CInv
<1> QED BY <1>2, OutsideKeeps DEF Call, jitVars

LEMMA ExecuteStep ==
  ASSUME CInv, NEW t \in Threads, Execute(t)
  PROVE  CInv'
<1> DEFINE loc == thread[t].loc
           to  == instr[loc].to
<1>1. CASE to = Resolver
  <2>1. Asks(t, "lookup", loc, None)
    BY <1>1 DEF Execute
  <2> QED BY <2>1, AsksKeeps, OutsideKeeps DEF Execute, jitVars, CInv
<1>2. CASE to # Resolver /\ to \in DOMAIN instr
  <2>1. Executes(t, to)
    BY <1>2 DEF Execute
  <2> QED BY <2>1, ExecutesKeeps, OutsideKeeps DEF Execute, jitVars, CInv
<1>3. CASE to # Resolver /\ to \notin DOMAIN instr
  <2>1. Runs(t, to)
    BY <1>3 DEF Execute
  <2> QED BY <2>1, RunsKeeps, OutsideKeeps DEF Execute, jitVars, CInv
<1> QED BY <1>1, <1>2, <1>3

LEMMA LookupStep ==
  ASSUME CInv, NEW t \in Threads, Lookup(t)
  PROVE  CInv'
<1> DEFINE loc == thread[t].loc
<1>1. Asks(t, "check", loc, Callee(loc)) /\ Callee(loc) \in Functions
  BY DEF Lookup, CInv, KnownInv
<1> QED BY <1>1, AsksKeeps, OutsideKeeps DEF Lookup, jitVars, CInv

LEMMA CheckStep ==
  ASSUME CInv, NEW t \in Threads, Check(t)
  PROVE  CInv'
<1> DEFINE f == thread[t].fn
           where == IF thread[t].at = "check" THEN "get" ELSE "acquire"
<1>1. CASE mapping[f] # None
  <2>1. Has(t, mapping[f])
    BY <1>1 DEF Check
  <2> QED BY <2>1, HasKeeps, OutsideKeeps DEF Check, jitVars, CInv
<1>2. CASE mapping[f] = None
  <2>1. Asks(t, where, thread[t].loc, f)
    BY <1>2 DEF Check
  <2>2. f \in Functions /\ where # "erase"
    BY DEF Check, CInv, ThreadInv
  <2> HIDE DEF where
  <2> QED BY <2>1, <2>2, AsksKeeps, OutsideKeeps DEF Check, jitVars, CInv
<1> QED BY <1>1, <1>2

LEMMA EraseStep ==
  ASSUME CInv, NEW t \in Threads, Erase(t)
  PROVE  CInv'
<1> DEFINE state == [thread[t] EXCEPT !.at = "patch"]
<1>1. thread[t] = [at |-> "erase", loc |-> thread[t].loc, to |-> thread[t].to]
  BY DEF Erase, CInv, ThreadInv
<1>2. state.at = "patch"
  BY <1>1
<1>3. Goes(t, state)
  BY DEF Erase
<1> HIDE DEF state
<1>4. ThreadInv'
  BY <1>2, <1>3, GoesKeeps DEF CInv
<1> QED BY <1>4, OutsideKeeps DEF Erase

LEMMA PatchStep ==
  ASSUME CInv, NEW t \in Threads, Patch(t)
  PROVE  CInv'
<1> DEFINE loc == thread[t].loc
<1>1. CASE loc[1] = "stub"
  <2> DEFINE state == [at |-> "branch", loc |-> loc]
  <2>1. Goes(t, state) /\ state.at = "branch"
    BY <1>1 DEF Patch
  <2> HIDE DEF state
  <2> QED BY <2>1, GoesKeeps, OutsideKeeps DEF Patch, jitVars, CInv
<1>2. CASE loc[1] # "stub"
  <2>1. Executes(t, loc)
    BY <1>2 DEF Patch
  <2> QED BY <2>1, ExecutesKeeps, OutsideKeeps DEF Patch, jitVars, CInv
<1> QED BY <1>1, <1>2

LEMMA BranchStep ==
  ASSUME CInv, NEW t \in Threads, Branch(t)
  PROVE  CInv'
<1>1. Executes(t, thread[t].loc)
  BY DEF Branch
<1> QED BY <1>1, ExecutesKeeps, OutsideKeeps DEF Branch, jitVars, CInv

-----------------------------------------------------------------------------
(***************************************************************************)
(* The emitter.                                                            *)
(***************************************************************************)
LEMMA SomeJob ==
  ASSUME NEW f, NEW left, NEW started, NEW n
  PROVE  [fn |-> f, left |-> left, started |-> started, n |-> n] # NoJob
  BY DEF NoJob

LEMMA NoneIsNoCode ==
  ASSUME NEW f, NEW n
  PROVE  <<f, n>> # None
  BY DEF None

LEMMA NoneIsNoStub ==
  ASSUME NEW g
  PROVE  NewStub(g) # None
<1> DEFINE k == Cardinality(Stubs(g)) + 1
<1> HIDE DEF k
<1>1. <<"stub", g, k>> # <<"none">>
  OBVIOUS
<1> QED BY <1>1 DEF None, NewStub, k

LEMMA CalleeOfSite ==
  ASSUME NEW g
  PROVE  Callee(Site(g)) = g /\ Callee(NewStub(g)) = g
  BY DEF Callee, Site, NewStub

\* A function whose compilation begins has no code yet and is not pending.
LEMMA JobBegins ==
  ASSUME NEW f \in Functions, job' = Job(f), f \notin pending', Ready(f)' = {}
  PROVE  JobInv' /\ job' # NoJob
<1> DEFINE n == Cardinality({c \in DOMAIN code : c[1] = f}) + 1
<1> HIDE DEF n
<1>1. job' = [fn |-> f, left |-> CallsOf(f), started |-> FALSE, n |-> n]
  BY DEF Job, n
<1>2. CallsOf(f) \subseteq Calls
  BY DEF CallsOf
<1>3. job'.fn = f /\ job'.left \subseteq Calls /\ job'.started = FALSE
  BY <1>1, <1>2
<1>4. job' = [fn |-> job'.fn, left |-> job'.left, started |-> job'.started, n |-> job'.n]
  BY <1>1
<1> QED BY <1>1, <1>3, <1>4, SomeJob DEF JobInv

\* Where there is no new finished code, what is said of finished code remains.
LEMMA NoNewReady ==
  ASSUME ReadyInv, DOMAIN mapping' = Functions,
         \A f \in Functions : mapping'[f] = None => mapping[f] = None,
         \A c \in DOMAIN code' :
            code'[c] = "ready" => c \in DOMAIN code /\ code[c] = "ready"
  PROVE  ReadyInv' /\ \A f : Ready(f)' \subseteq Ready(f)
<1>1. \A f : Ready(f)' \subseteq Ready(f)
  BY DEF Ready
<1>2. \A c, d \in DOMAIN code' :
        code'[c] = "ready" /\ code'[d] = "ready" /\ c[1] = d[1] => c = d
  BY DEF ReadyInv
<1>3. \A f \in Functions : mapping'[f] = None => Ready(f)' = {}
  BY <1>1 DEF ReadyInv
<1> QED BY <1>1, <1>2, <1>3 DEF ReadyInv

LEMMA AcquireStep ==
  ASSUME CInv, NEW t \in Threads, Acquire(t)
  PROVE  CInv'
<1>0. PICK f \in Functions : f = thread[t].fn
  BY DEF Acquire, CInv, ThreadInv
<1>1. CASE mapping[f] # None
  <2>1. Has(t, mapping[f]) /\ UNCHANGED <<lock, job>>
    BY <1>0, <1>1 DEF Acquire
  <2> QED BY <2>1, HasKeeps, OutsideKeeps DEF Acquire, CInv
<1>2. CASE mapping[f] = None
  <2>1. /\ lock' = t /\ job' = Job(f) /\ Asks(t, "compile", thread[t].loc, f)
        /\ UNCHANGED <<pending, mapping, code, known>>
    BY <1>0, <1>2 DEF Acquire
  <2>2. ThreadInv'
    BY <2>1, AsksKeeps DEF CInv
  <2>3. job = NoJob /\ pending = {}
    BY DEF Acquire, Free, CInv, FreeInv
  <2>4. ReadyInv' /\ Ready(f)' = {}
    <3>1. Ready(f) = {}
      BY <1>0, <1>2 DEF CInv, ReadyInv
    <3>2. Ready(f)' = Ready(f)
      BY <2>1 DEF Ready
    <3>3. ReadyInv'
      BY <2>1 DEF CInv, ReadyInv, Ready
    <3> QED BY <3>1, <3>2, <3>3
  <2>5. KnownInv' /\ PendingInv'
    BY <2>1, <2>3 DEF CInv, KnownInv, PendingInv
  <2>6. JobInv' /\ job' # NoJob
    BY <1>0, <2>1, <2>3, <2>4, JobBegins
  <2>7. FreeInv'
    BY <2>1, <2>6, ProgramAssumption DEF FreeInv
  <2> QED BY <2>2, <2>4, <2>5, <2>6, <2>7 DEF CInv
<1> QED BY <1>1, <1>2

LEMMA StartStep ==
  ASSUME CInv, NEW t \in Threads, Start(t)
  PROVE  CInv'
<1>1. /\ lock = t /\ job # NoJob /\ job.fn \in Functions
      /\ job = [fn |-> job.fn, left |-> job.left, started |-> job.started, n |-> job.n]
      /\ UNCHANGED <<thread, lock, pending, known>>
  BY DEF Start, CInv, JobInv
<1> DEFINE c == <<job.fn, job.n>>
<1>2. c # None
  BY NoneIsNoCode
<1> HIDE DEF c
<1>3. job' = [fn |-> job.fn, left |-> job.left, started |-> TRUE, n |-> job.n]
  BY <1>1 DEF Start
<1>4. mapping' = [mapping EXCEPT ![job.fn] = c] /\ code' = With(code, c, "emitting")
  BY DEF Start, c
<1>5. ReadyInv' /\ \A f : Ready(f)' \subseteq Ready(f)
  <2>1. DOMAIN mapping' = Functions /\ \A f \in Functions : mapping'[f] = None => mapping[f] = None
    BY <1>2, <1>4 DEF CInv, ReadyInv
  <2>2. \A d \in DOMAIN code' : code'[d] = "ready" => d \in DOMAIN code /\ code[d] = "ready"
    BY <1>4 DEF With
  <2> QED BY <2>1, <2>2, NoNewReady DEF CInv
<1>6. ThreadInv' /\ KnownInv'
  BY <1>1 DEF CInv, ThreadInv, KnownInv
<1>7. PendingInv'
  BY <1>1, <1>5 DEF CInv, PendingInv
<1>8. FreeInv'
  BY <1>1, <1>3, SomeJob, ProgramAssumption DEF FreeInv
<1>9. JobInv'
  <2>1. mapping'[job.fn] # None
    BY <1>1, <1>2, <1>4 DEF CInv, ReadyInv
  <2> QED BY <1>1, <1>3, <1>5, <2>1 DEF CInv, JobInv
<1> QED BY <1>5, <1>6, <1>7, <1>8, <1>9 DEF CInv

LEMMA RetryStep ==
  ASSUME CInv, NEW t \in Threads, Retry(t)
  PROVE  CInv'
<1>1. PICK f \in Functions :
        /\ f \notin pending /\ Ready(f) = {}
        /\ lock = t /\ job # NoJob /\ job' = Job(f)
        /\ UNCHANGED <<thread, lock, pending, mapping, known>>
  BY DEF Retry, CInv, JobInv
<1>2. ReadyInv' /\ \A g : Ready(g)' \subseteq Ready(g)
  <2>1. \A d \in DOMAIN code' : code'[d] = "ready" => d \in DOMAIN code /\ code[d] = "ready"
    BY DEF Retry
  <2> QED BY <1>1, <2>1, NoNewReady DEF CInv, ReadyInv
<1>3. ThreadInv' /\ KnownInv'
  BY <1>1 DEF CInv, ThreadInv, KnownInv
<1>4. PendingInv'
  BY <1>1, <1>2 DEF CInv, PendingInv
<1>5. JobInv' /\ job' # NoJob
  <2>1. f \notin pending' /\ Ready(f)' = {}
    BY <1>1, <1>2
  <2> QED BY <1>1, <2>1, JobBegins
<1>6. FreeInv'
  BY <1>1, <1>5, ProgramAssumption DEF FreeInv
<1> QED BY <1>2, <1>3, <1>4, <1>5, <1>6 DEF CInv

\* A reference is resolved: a function that gets a stub is none that has code.
LEMMA RelocateStep ==
  ASSUME CInv, NEW t \in Threads, Relocate(t)
  PROVE  CInv'
<1>1. PICK c \in job.left :
        /\ job' = [job EXCEPT !.left = @ \ {c}]
        /\ IF lazy THEN RelocateLazily(c) ELSE RelocateEagerly(c)
  BY DEF Relocate
<1>2. /\ lock = t /\ job # NoJob /\ job.started /\ UNCHANGED <<thread, lock, code>>
      /\ job = [fn |-> job.fn, left |-> job.left, started |-> job.started, n |-> job.n]
      /\ job.fn \in Functions \ pending /\ job.left \subseteq Calls
      /\ mapping[job.fn] # None /\ Ready(job.fn) = {}
  BY DEF Relocate, CInv, JobInv
<1> DEFINE g == c[2]
<1>3. g \in Functions
  BY <1>1, <1>2, ProgramAssumption
<1>4. job' = [fn |-> job.fn, left |-> job.left \ {c}, started |-> job.started, n |-> job.n]
  BY <1>1, <1>2
<1>5. /\ known' \subseteq known \cup {Site(g), NewStub(g)}
      /\ \/ UNCHANGED <<mapping, pending>>
         \/ /\ mapping[g] = None /\ pending' = pending \cup {g}
            /\ mapping' = [mapping EXCEPT ![g] = NewStub(g)]
  <2>1. CASE lazy
    BY <1>1, <2>1 DEF RelocateLazily
  <2>2. CASE ~lazy
    BY <1>1, <2>2 DEF RelocateEagerly
  <2> QED BY <2>1, <2>2
<1>6. KnownInv'
  BY <1>3, <1>5, CalleeOfSite DEF CInv, KnownInv, Callee
<1>7. ThreadInv'
  BY <1>2 DEF CInv, ThreadInv
<1>8. FreeInv'
  BY <1>2, <1>4, SomeJob, ProgramAssumption DEF FreeInv
<1>9. ReadyInv' /\ \A f : Ready(f)' \subseteq Ready(f)
  <2>1. DOMAIN mapping' = Functions /\ \A f \in Functions : mapping'[f] = None => mapping[f] = None
    BY <1>5 DEF CInv, ReadyInv
  <2> QED BY <1>2, <2>1, NoNewReady DEF CInv
<1>10. PendingInv'
  BY <1>3, <1>5, <1>9 DEF CInv, PendingInv, ReadyInv
<1>11. JobInv'
  <2>1. job.fn \notin pending' /\ mapping'[job.fn] # None
    BY <1>2, <1>5 DEF CInv, ReadyInv
  <2> QED BY <1>2, <1>4, <1>9, <2>1 DEF CInv, JobInv
<1> QED BY <1>6, <1>7, <1>8, <1>9, <1>10, <1>11 DEF CInv

\* The code of the job is the only finished code of its function.
LEMMA FinishStep ==
  ASSUME CInv, NEW t \in Threads, Finish(t)
  PROVE  CInv'
<1>1. PICK g \in Functions \ pending :
        /\ g = job.fn /\ mapping[g] # None /\ Ready(g) = {}
        /\ lock = t /\ UNCHANGED <<thread, lock, mapping, known>>
  BY DEF Finish, CInv, JobInv
<1>2. PICK c : code' = [code EXCEPT ![c] = "ready"] /\ c[1] = g
  <2>1. <<job.fn, job.n>>[1] = g
    BY <1>1
  <2> QED BY <2>1 DEF Finish
<1>3. /\ \A f : f # g => Ready(f)' \subseteq Ready(f)
      /\ Ready(g)' \subseteq {c}
  BY <1>1, <1>2 DEF Ready
<1>4. ReadyInv'
  <2>1. \A d, e \in DOMAIN code' :
          code'[d] = "ready" /\ code'[e] = "ready" /\ d[1] = e[1] => d = e
    BY <1>1, <1>2 DEF CInv, ReadyInv, Ready
  <2>2. \A f \in Functions : mapping'[f] = None => Ready(f)' = {}
    BY <1>1, <1>3 DEF CInv, ReadyInv
  <2> QED BY <1>1, <2>1, <2>2 DEF CInv, ReadyInv
<1>5. ThreadInv' /\ KnownInv'
  BY <1>1 DEF CInv, ThreadInv, KnownInv
<1>6. CASE pending = {} /\ job' = NoJob /\ UNCHANGED pending
  BY <1>1, <1>4, <1>5, <1>6, ProgramAssumption DEF CInv, PendingInv, JobInv, FreeInv
<1>7. ASSUME NEW f \in pending, job' = Job(f), pending' = pending \ {f}
      PROVE  CInv'
  <2>1. PendingInv'
    BY <1>1, <1>3, <1>7 DEF CInv, PendingInv
  <2>2. f \in Functions /\ f \notin pending' /\ Ready(f)' = {}
    BY <1>1, <1>3, <1>7 DEF CInv, PendingInv
  <2>3. JobInv' /\ job' # NoJob
    BY <1>7, <2>2, JobBegins
  <2>4. FreeInv'
    BY <1>1, <2>3, ProgramAssumption DEF FreeInv
  <2> QED BY <1>4, <1>5, <2>1, <2>3, <2>4 DEF CInv
<1> QED BY <1>6, <1>7 DEF Finish

LEMMA ReleaseStep ==
  ASSUME CInv, NEW t \in Threads, Release(t)
  PROVE  CInv'
<1>1. Has(t, mapping[thread[t].fn])
  BY DEF Release
<1>2. ThreadInv'
  BY <1>1, HasKeeps DEF CInv
<1>3. job = NoJob /\ UNCHANGED <<job, pending, mapping, code, known>>
  BY DEF Release, jitVars
<1>4. FreeInv'
  BY <1>3 DEF CInv, FreeInv
<1> QED BY <1>2, <1>3, <1>4 DEF CInv, KnownInv, JobInv, PendingInv, ReadyInv, Ready

-----------------------------------------------------------------------------
(***************************************************************************)
(* The theorems.                                                           *)
(***************************************************************************)
LEMMA InitCInv == Init => CInv
<1> SUFFICES ASSUME Init PROVE CInv
  OBVIOUS
<1>1. ThreadInv
  BY DEF Init, ThreadInv, Idle
<1>2. ReadyInv
  BY DEF Init, ReadyInv, Ready
<1> QED BY <1>1, <1>2 DEF Init, CInv, KnownInv, FreeInv, JobInv, PendingInv

LEMMA NextCInv == CInv /\ [Next]_vars => CInv'
<1> SUFFICES ASSUME CInv, [Next]_vars PROVE CInv'
  OBVIOUS
<1>1. CASE UNCHANGED vars
  <2>1. ThreadInv'
    BY <1>1 DEF CInv, ThreadInv, vars
  <2> QED BY <1>1, <2>1, OutsideKeeps DEF vars
<1>2. ASSUME NEW t \in Threads, Resolve(t)
      PROVE  CInv'
  BY <1>2, ExecuteStep, LookupStep, CheckStep, AcquireStep, StartStep, RelocateStep,
     FinishStep, ReleaseStep, EraseStep, PatchStep, BranchStep DEF Resolve
<1>3. ASSUME NEW t \in Threads, Retry(t) \/ Ask(t) \/ Call(t) \/ Return(t)
      PROVE  CInv'
  BY <1>3, RetryStep, AskStep, CallStep, ReturnStep
<1> QED BY <1>1, <1>2, <1>3 DEF Next

\* In every reachable state a function that is compiled, pending or without an
\* address has no finished code, and only the holder of the lock compiles.
THEOREM CompilationInvariance == Spec => []CInv
<1> QED BY InitCInv, NextCInv, PTL DEF Spec

\* Threads that need the same function compile it once (the second look in
\* getPointerToFunction, and the pending functions).
THEOREM FunctionsCompiledOnce == Spec => []CompiledOnce
<1>1. CInv => CompiledOnce
  <2> SUFFICES ASSUME CInv, NEW f \in Functions
               PROVE  Cardinality(Ready(f)) <= 1
    BY DEF CompiledOnce, Ready
  <2>1. CASE Ready(f) = {}
    BY <2>1, FS_EmptySet
  <2>2. ASSUME NEW c \in Ready(f)
        PROVE  Cardinality(Ready(f)) = 1
    <3>1. Ready(f) = {c}
      BY DEF CInv, ReadyInv, Ready
    <3> QED BY <3>1, FS_Singleton
  <2> QED BY <2>1, <2>2
<1> QED BY <1>1, CompilationInvariance, PTL

-----------------------------------------------------------------------------
(***************************************************************************)
(* What the addresses of LazyJIT lead to: proofs that threads run finished *)
(* code and that no instruction is left dangling.                          *)
(***************************************************************************)
Finished == {c \in DOMAIN code : code[c] = "ready"}
AllStubs == {loc \in DOMAIN instr : loc[1] = "stub"}

-----------------------------------------------------------------------------
(***************************************************************************)
(* The inductive invariant: the tables.                                    *)
(***************************************************************************)
ShapeInv ==
  /\ \A c \in DOMAIN code : c = <<c[1], c[2]>>
  /\ \A loc \in DOMAIN instr :
       /\ instr[loc] = [op |-> instr[loc].op, to |-> instr[loc].to]
       /\ loc = <<"stub", loc[2], loc[3]>> \/ loc = <<"site", loc[2], loc[3], loc[4]>>

\* The holder of the lock is in getPointerToFunction, for a function that has an
\* address or is about to get one.
HolderInv ==
  lock # NoThread =>
    /\ thread[lock].at = "compile" /\ thread[lock].fn \in Functions
    /\ mapping[thread[lock].fn] = None => job # NoJob /\ job.fn = thread[lock].fn

InJob(f) == job # NoJob /\ job.fn = f

\* An address in the map is that of finished code, unless its function is still
\* to be compiled.
MappingInv ==
  /\ job # NoJob /\ job.started =>
       <<job.fn, job.n>> \in DOMAIN code /\ mapping[job.fn] = <<job.fn, job.n>>
  /\ \A f \in Functions :
       \/ mapping[f] = None \/ mapping[f] \in Finished \/ InJob(f)
       \/ f \in pending /\ mapping[f] \in AllStubs

\* Compiling eagerly, what has a stub has an address for good.
StubInv ==
  /\ DOMAIN stubOf = Functions
  /\ \A f \in Functions :
       stubOf[f] # None => stubOf[f] \in AllStubs /\ stubOf[f][2] = f
  /\ ~lazy => \A loc \in AllStubs : loc[2] \in Functions /\ mapping[loc[2]] # None

\* An empty stub is that of a function still to be compiled.
TargetInv ==
  \A loc \in DOMAIN instr :
    /\ instr[loc].to = Resolver => lazy /\ loc \in known
    /\ loc[1] = "site" =>
         instr[loc].to \in {Resolver, <<loc[2], loc[3]>>} \cup AllStubs \cup Finished
    /\ loc[1] = "stub" =>
         \/ instr[loc].to \in {Resolver} \cup Finished
         \/ /\ instr[loc].to = None /\ ~lazy /\ loc = stubOf[loc[2]]
            /\ loc[2] \in pending \/ InJob(loc[2])

TablesInv == ShapeInv /\ HolderInv /\ MappingInv /\ StubInv /\ TargetInv

-----------------------------------------------------------------------------
(***************************************************************************)
(* The inductive invariant: what threads may reach.  S is the code that    *)
(* was finished when the lock was last free, and P its instructions and    *)
(* the stubs there were.  Code that was compiled since may still lead to   *)
(* code that is not finished, but nobody has its address.                  *)
(***************************************************************************)
Within(s, S, P) ==
  /\ s.at = "run" => s.code \in S
  /\ s.at = "exec" => s.loc \in P
  /\ s.at \in {"lookup", "check", "erase", "patch", "branch"} => lazy /\ s.loc \in P
  /\ s.at \in {"get", "acquire", "compile"} => s.loc = None \/ (lazy /\ s.loc \in P)
  /\ s.at \in {"erase", "patch"} => s.to \in S

Reaches(S, P) ==
  /\ S \subseteq Finished /\ P \subseteq DOMAIN instr
  /\ lock = NoThread => S = Finished
  /\ \A loc \in DOMAIN instr : loc[1] = "site" => (loc \in P <=> <<loc[2], loc[3]>> \in S)
  /\ \A loc \in P : instr[loc].to \in {Resolver} \cup S \cup P
  /\ ~lazy => \A loc \in P : loc[1] = "stub" => loc[2] \notin pending /\ ~InJob(loc[2])
  /\ \A t \in Threads : Within(thread[t], S, P)

ReachInv == TablesInv /\ \E S, P : Reaches(S, P)

-----------------------------------------------------------------------------
(***************************************************************************)
(* Threads outside the emitter.                                            *)
(***************************************************************************)
LEMMA ThreadsWithin ==
  ASSUME ThreadInv, NEW S, NEW P, NEW S2, NEW P2, S \subseteq S2, P \subseteq P2,
         \A u \in Threads : Within(thread[u], S, P), UNCHANGED lazy,
         NEW t \in Threads, NEW state, Goes(t, state), Within(state, S2, P2)
  PROVE  \A u \in Threads : Within(thread[u], S2, P2)'
<1> SUFFICES ASSUME NEW u \in Threads PROVE Within(thread[u], S2, P2)'
  OBVIOUS
<1>1. CASE u = t
  <2>1. thread'[u] = state
    BY <1>1 DEF ThreadInv, Goes
  <2> QED BY <2>1 DEF Within
<1>2. CASE u # t
  <2>1. thread'[u] = thread[u]
    BY <1>2 DEF ThreadInv, Goes
  <2>2. Within(thread[u], S2, P2)
    BY DEF Within
  <2> QED BY <2>1, <2>2 DEF Within
<1> QED BY <1>1, <1>2

LEMMA OthersWait ==
  ASSUME ThreadInv, HolderInv, NEW t \in Threads, thread[t].at # "compile", NEW state,
         Goes(t, state), UNCHANGED <<lock, mapping, job>>
  PROVE  HolderInv'
<1>1. lock # NoThread => lock # t
  BY DEF HolderInv
<1>2. lock # NoThread => thread'[lock] = thread[lock]
  BY <1>1 DEF Goes
<1> QED BY <1>2 DEF HolderInv

\* A thread goes on to what it may reach.
LEMMA MoveReaches ==
  ASSUME ThreadInv, TablesInv, NEW S, NEW P, Reaches(S, P),
         NEW t \in Threads, thread[t].at # "compile",
         NEW state, Goes(t, state), Within(state, S, P),
         UNCHANGED <<jitVars, lock, instr>>
  PROVE  TablesInv' /\ Reaches(S, P)'
<1>1. HolderInv'
  BY OthersWait DEF TablesInv, jitVars
<1>2. TablesInv'
  BY <1>1 DEF TablesInv, jitVars, ShapeInv, MappingInv, StubInv, TargetInv, InJob,
              AllStubs, Finished
<1>3. \A u \in Threads : Within(thread[u], S, P)'
  BY ThreadsWithin DEF Reaches, jitVars
<1> QED BY <1>2, <1>3 DEF Reaches, jitVars, Finished, InJob

LEMMA AsksReaches ==
  ASSUME ThreadInv, TablesInv, NEW S, NEW P, Reaches(S, P),
         NEW t \in Threads, thread[t].at # "compile", UNCHANGED <<jitVars, lock, instr>>,
         NEW where, NEW loc, NEW fn, Asks(t, where, loc, fn),
         \/ where \in {"lookup", "check"} /\ lazy /\ loc \in P
         \/ where \in {"get", "acquire"} /\ (loc = None \/ (lazy /\ loc \in P))
  PROVE  TablesInv' /\ Reaches(S, P)'
<1> DEFINE state == [at |-> where, loc |-> loc, fn |-> fn]
<1>1. Goes(t, state)
  BY DEF Asks
<1>2. Within(state, S, P)
  BY DEF Within
<1> HIDE DEF state
<1> QED BY <1>1, <1>2, MoveReaches

LEMMA ExecutesReaches ==
  ASSUME ThreadInv, TablesInv, NEW S, NEW P, Reaches(S, P),
         NEW t \in Threads, thread[t].at # "compile", UNCHANGED <<jitVars, lock, instr>>,
         NEW loc \in P, Executes(t, loc)
  PROVE  TablesInv' /\ Reaches(S, P)'
<1> DEFINE state == [at |-> "exec", loc |-> loc]
<1>1. Goes(t, state)
  BY DEF Executes
<1>2. Within(state, S, P)
  BY DEF Within
<1> HIDE DEF state
<1> QED BY <1>1, <1>2, MoveReaches

\* Where a thread with an address goes.
LEMMA HasGoes ==
  ASSUME NEW t \in Threads, NEW c, NEW S, NEW P, c \in S, Has(t, c),
         thread[t].loc = None \/ (lazy /\ thread[t].loc \in P)
  PROVE  \E state : Goes(t, state) /\ Within(state, S, P)
<1>1. CASE thread[t].loc = None
  <2> DEFINE state == [at |-> "run", code |-> c]
  <2>1. Goes(t, state)
    BY <1>1 DEF Has, Runs
  <2>2. Within(state, S, P)
    BY DEF Within
  <2> HIDE DEF state
  <2> QED BY <2>1, <2>2
<1>2. CASE thread[t].loc # None
  <2> DEFINE state == [at |-> "erase", loc |-> thread[t].loc, to |-> c]
  <2>1. Goes(t, state)
    BY <1>2 DEF Has
  <2>2. Within(state, S, P)
    BY <1>2 DEF Within
  <2> HIDE DEF state
  <2> QED BY <2>1, <2>2
<1> QED BY <1>1, <1>2

LEMMA HasReaches ==
  ASSUME ThreadInv, TablesInv, NEW S, NEW P, Reaches(S, P),
         NEW t \in Threads, thread[t].at # "compile", UNCHANGED <<jitVars, lock, instr>>,
         NEW c \in S, Has(t, c),
         thread[t].loc = None \/ (lazy /\ thread[t].loc \in P)
  PROVE  TablesInv' /\ Reaches(S, P)'
BY HasGoes, MoveReaches

LEMMA AskReaches ==
  ASSUME CInv, TablesInv, NEW S, NEW P, Reaches(S, P), NEW t \in Threads, Ask(t)
  PROVE  TablesInv' /\ Reaches(S, P)'
<1>1. PICK f \in Functions : Asks(t, "get", None, f)
  BY DEF Ask
<1>2. thread[t].at # "compile"
  BY DEF Ask, Idle
<1> QED BY <1>1, <1>2, AsksReaches DEF Ask, CInv

LEMMA ReturnReaches ==
  ASSUME CInv, TablesInv, NEW S, NEW P, Reaches(S, P), NEW t \in Threads, Return(t)
  PROVE  TablesInv' /\ Reaches(S, P)'
<1>1. Within(Idle, S, P)
  BY DEF Within, Idle
<1>2. thread[t].at # "compile"
  BY DEF Return
<1> QED BY <1>1, <1>2, MoveReaches DEF Return, CInv

LEMMA CallReaches ==
  ASSUME CInv, TablesInv, NEW S, NEW P, Reaches(S, P), NEW t \in Threads, Call(t)
  PROVE  TablesInv' /\ Reaches(S, P)'
<1>1. PICK loc \in DOMAIN instr :
        loc[1] = "site" /\ <<loc[2], loc[3]>> = thread[t].code /\ Executes(t, loc)
  BY DEF Call
<1>2. thread[t].code \in S /\ thread[t].at # "compile"
  BY DEF Call, Reaches, Within
<1>3. loc \in P
  BY <1>1, <1>2 DEF Reaches
<1> QED BY <1>1, <1>2, <1>3, ExecutesReaches DEF Call, CInv

LEMMA CodeIsNoPlace ==
  ASSUME ShapeInv, NEW c \in DOMAIN code
  PROVE  c \notin DOMAIN instr
<1> SUFFICES ASSUME NEW loc \in DOMAIN instr, c = loc PROVE FALSE
  OBVIOUS
<1>1. c = <<c[1], c[2]>>
  BY DEF ShapeInv
<1>2. CASE loc = <<"stub", loc[2], loc[3]>>
  BY <1>1, <1>2
<1>3. CASE loc = <<"site", loc[2], loc[3], loc[4]>>
  BY <1>1, <1>3
<1> QED BY <1>2, <1>3 DEF ShapeInv

\* What is called is the resolver, a stub or finished code.
LEMMA ExecuteReaches ==
  ASSUME CInv, TablesInv, NEW S, NEW P, Reaches(S, P), NEW t \in Threads, Execute(t)
  PROVE  TablesInv' /\ Reaches(S, P)'
<1>1. PICK loc \in P : loc = thread[t].loc
  BY DEF Execute, Reaches, Within
<1>2. PICK to \in {Resolver} \cup S \cup P : to = instr[loc].to
  BY DEF Reaches
<1>3. thread[t].at # "compile" /\ ThreadInv /\ UNCHANGED <<jitVars, lock, instr>>
  BY DEF Execute, CInv
<1>4. CASE to = Resolver
  <2>1. Asks(t, "lookup", loc, None)
    BY <1>1, <1>2, <1>4 DEF Execute
  <2>2. lazy
    BY <1>2, <1>4 DEF Reaches, TablesInv, TargetInv
  <2> QED BY <1>3, <2>1, <2>2, AsksReaches
<1>5. CASE to # Resolver /\ to \in DOMAIN instr
  <2>1. Executes(t, to)
    BY <1>1, <1>2, <1>5 DEF Execute
  <2>2. to \in P
    BY <1>5, CodeIsNoPlace DEF Reaches, Finished, TablesInv
  <2> QED BY <1>3, <2>1, <2>2, ExecutesReaches
<1>6. CASE to # Resolver /\ to \notin DOMAIN instr
  <2> DEFINE state == [at |-> "run", code |-> to]
  <2>1. Goes(t, state)
    BY <1>1, <1>2, <1>6 DEF Execute, Runs
  <2>2. Within(state, S, P)
    BY <1>2, <1>6 DEF Within, Reaches
  <2> HIDE DEF state
  <2> QED BY <1>3, <2>1, <2>2, MoveReaches
<1> QED BY <1>4, <1>5, <1>6

LEMMA LookupReaches ==
  ASSUME CInv, TablesInv, NEW S, NEW P, Reaches(S, P), NEW t \in Threads, Lookup(t)
  PROVE  TablesInv' /\ Reaches(S, P)'
<1>1. PICK loc : loc = thread[t].loc
  OBVIOUS
<1>2. /\ Asks(t, "check", loc, Callee(loc)) /\ thread[t].at = "lookup"
      /\ UNCHANGED <<jitVars, lock, instr>>
  BY <1>1 DEF Lookup
<1>3. lazy /\ loc \in P
  BY <1>1, <1>2 DEF Reaches, Within
<1>4. PICK f : f = Callee(loc)
  OBVIOUS
<1> QED BY <1>2, <1>3, <1>4, AsksReaches DEF CInv

\* While the lock is free an address in the map is that of code in S.
LEMMA FreeMapping ==
  ASSUME CInv, TablesInv, NEW S, NEW P, Reaches(S, P), lock = NoThread,
         NEW f \in Functions, mapping[f] # None
  PROVE  mapping[f] \in S
BY DEF TablesInv, MappingInv, CInv, FreeInv, InJob, Reaches

LEMMA CheckReaches ==
  ASSUME CInv, TablesInv, NEW S, NEW P, Reaches(S, P), NEW t \in Threads, Check(t)
  PROVE  TablesInv' /\ Reaches(S, P)'
<1>1. PICK f \in Functions : f = thread[t].fn
  BY DEF Check, CInv, ThreadInv
<1>2. PICK loc : loc = thread[t].loc
  OBVIOUS
<1>3. /\ thread[t].at \in {"check", "get"} /\ lock = NoThread
      /\ UNCHANGED <<jitVars, lock, instr>> /\ ThreadInv
  BY DEF Check, Looks, Free, CInv
<1>4. /\ loc = None \/ (lazy /\ loc \in P)
      /\ thread[t].at = "check" => lazy /\ loc \in P
  BY <1>2, <1>3 DEF Reaches, Within
<1>5. CASE mapping[f] # None
  <2>1. Has(t, mapping[f])
    BY <1>1, <1>5 DEF Check
  <2>2. PICK c \in S : c = mapping[f]
    BY <1>3, <1>5, FreeMapping
  <2> QED BY <1>2, <1>3, <1>4, <2>1, <2>2, HasReaches
<1>6. CASE mapping[f] = None
  <2>1. PICK where \in {"get", "acquire"} : Asks(t, where, loc, f)
    BY <1>1, <1>2, <1>6 DEF Check
  <2> QED BY <1>3, <1>4, <2>1, AsksReaches
<1> QED BY <1>5, <1>6

LEMMA EraseReaches ==
  ASSUME CInv, TablesInv, NEW S, NEW P, Reaches(S, P), NEW t \in Threads, Erase(t)
  PROVE  TablesInv' /\ Reaches(S, P)'
<1> DEFINE state == [thread[t] EXCEPT !.at = "patch"]
<1>1. thread[t] = [at |-> "erase", loc |-> thread[t].loc, to |-> thread[t].to]
  BY DEF Erase, CInv, ThreadInv
<1>2. state.at = "patch" /\ state.loc = thread[t].loc /\ state.to = thread[t].to
  BY <1>1
<1>3. /\ Goes(t, state) /\ thread[t].at = "erase" /\ ThreadInv
      /\ UNCHANGED <<lazy, lock, job, pending, mapping, code, known, instr>>
  BY DEF Erase, CInv
<1>4. lazy /\ thread[t].loc \in P /\ thread[t].to \in S
  BY <1>3 DEF Reaches, Within
<1>5. Within(state, S, P)
  BY <1>2, <1>4 DEF Within
<1> HIDE DEF state
<1>6. HolderInv'
  BY <1>3, OthersWait DEF TablesInv
<1>7. ShapeInv' /\ MappingInv'
  BY <1>3 DEF TablesInv, ShapeInv, MappingInv, InJob, AllStubs, Finished
<1>8. StubInv'
  <2>1. PICK g : stubOf' = [stubOf EXCEPT ![g] = None]
    BY DEF Erase
  <2> QED BY <1>3, <1>4, <2>1 DEF TablesInv, StubInv, AllStubs
<1>9. TargetInv'
  BY <1>3, <1>4 DEF TablesInv, TargetInv, InJob, AllStubs, Finished
<1>10. \A u \in Threads : Within(thread[u], S, P)'
  BY <1>3, <1>5, ThreadsWithin DEF Reaches
<1> QED BY <1>3, <1>6, <1>7, <1>8, <1>9, <1>10 DEF TablesInv, Reaches, Finished, InJob

\* An instruction that threads may reach is rewritten while compiling lazily.
LEMMA RewriteReaches ==
  ASSUME CInv, TablesInv, NEW S, NEW P, Reaches(S, P),
         NEW t \in Threads, thread[t].at # "compile",
         NEW state, Goes(t, state), Within(state, S, P),
         NEW loc \in P, NEW i, instr' = [instr EXCEPT ![loc] = i], lazy,
         i = [op |-> i.op, to |-> i.to], i.to \in S \/ i.to = instr[loc].to,
         UNCHANGED <<jitVars, lock>>
  PROVE  TablesInv' /\ Reaches(S, P)'
<1>1. /\ DOMAIN instr' = DOMAIN instr /\ AllStubs' = AllStubs /\ Finished' = Finished
      /\ loc \in DOMAIN instr /\ instr'[loc] = i
      /\ \A l \in DOMAIN instr : l # loc => instr'[l] = instr[l]
  BY DEF AllStubs, Finished, Reaches, jitVars
<1>2. HolderInv'
  BY OthersWait DEF TablesInv, CInv, jitVars
<1>3. ShapeInv'
  <2>1. \A l \in DOMAIN instr : instr'[l] = [op |-> instr'[l].op, to |-> instr'[l].to]
    BY <1>1 DEF TablesInv, ShapeInv
  <2> QED BY <1>1, <2>1 DEF TablesInv, ShapeInv, jitVars
<1>4. MappingInv' /\ StubInv'
  BY <1>1 DEF TablesInv, MappingInv, StubInv, InJob, jitVars
<1>5. \A l \in DOMAIN instr : instr'[l].to = instr[l].to \/ (l = loc /\ instr'[l].to \in S)
  BY <1>1
<1>6. TargetInv'
  <2>1. S \subseteq Finished /\ Resolver \notin Finished
    <3>1. \A c \in Finished : c = <<c[1], c[2]>>
      BY DEF TablesInv, ShapeInv, Finished
    <3> QED BY <3>1 DEF Reaches, Resolver
  <2> QED BY <1>1, <1>5, <2>1 DEF TablesInv, TargetInv, InJob, jitVars
<1>7. \A u \in Threads : Within(thread[u], S, P)'
  BY ThreadsWithin DEF Reaches, jitVars, CInv
<1>8. \A l \in P : instr'[l].to \in {Resolver} \cup S \cup P
  BY <1>5 DEF Reaches
<1> QED BY <1>1, <1>2, <1>3, <1>4, <1>6, <1>7, <1>8 DEF TablesInv, Reaches, InJob, jitVars

LEMMA PatchReaches ==
  ASSUME CInv, TablesInv, NEW S, NEW P, Reaches(S, P), NEW t \in Threads, Patch(t)
  PROVE  TablesInv' /\ Reaches(S, P)'
<1>1. PICK loc \in P : loc = thread[t].loc
  BY DEF Patch, Reaches, Within
<1>2. PICK to \in S : to = thread[t].to
  BY DEF Patch, Reaches, Within
<1>3. thread[t].at # "compile" /\ lazy /\ UNCHANGED <<jitVars, lock>>
  BY DEF Patch, Reaches, Within
<1>4. PICK i : /\ instr' = [instr EXCEPT ![loc] = i]
               /\ i = [op |-> i.op, to |-> i.to] /\ i.to = to
  <2> DEFINE j == [instr[loc] EXCEPT !.to = to]
  <2>1. instr[loc] = [op |-> instr[loc].op, to |-> instr[loc].to]
    BY DEF TablesInv, ShapeInv, Reaches
  <2>2. j = [op |-> instr[loc].op, to |-> to]
    BY <2>1
  <2>3. instr' = [instr EXCEPT ![loc] = j]
    BY <1>1, <1>2 DEF Patch
  <2>4. j = [op |-> j.op, to |-> j.to] /\ j.to = to
    BY <2>2
  <2> HIDE DEF j
  <2> QED BY <2>3, <2>4
<1>5. PICK state : Goes(t, state) /\ Within(state, S, P)
  <2>1. CASE loc[1] = "stub"
    <3> DEFINE branch == [at |-> "branch", loc |-> loc]
    <3>1. Goes(t, branch)
      BY <1>1, <2>1 DEF Patch
    <3>2. Within(branch, S, P)
      BY <1>3 DEF Within
    <3> HIDE DEF branch
    <3> QED BY <3>1, <3>2
  <2>2. CASE loc[1] # "stub"
    <3> DEFINE exec == [at |-> "exec", loc |-> loc]
    <3>1. Goes(t, exec)
      BY <1>1, <2>2 DEF Patch, Executes
    <3>2. Within(exec, S, P)
      BY DEF Within
    <3> HIDE DEF exec
    <3> QED BY <3>1, <3>2
  <2> QED BY <2>1, <2>2
<1> QED BY <1>3, <1>4, <1>5, RewriteReaches

LEMMA BranchReaches ==
  ASSUME CInv, TablesInv, NEW S, NEW P, Reaches(S, P), NEW t \in Threads, Branch(t)
  PROVE  TablesInv' /\ Reaches(S, P)'
<1>1. PICK loc \in P : loc = thread[t].loc
  BY DEF Branch, Reaches, Within
<1>2. thread[t].at # "compile" /\ lazy /\ UNCHANGED <<jitVars, lock>>
  BY DEF Branch, Reaches, Within
<1>3. PICK i : /\ instr' = [instr EXCEPT ![loc] = i]
               /\ i = [op |-> i.op, to |-> i.to] /\ i.to = instr[loc].to
  <2> DEFINE j == [instr[loc] EXCEPT !.op = "jmp"]
  <2>1. instr[loc] = [op |-> instr[loc].op, to |-> instr[loc].to]
    BY DEF TablesInv, ShapeInv, Reaches
  <2>2. j = [op |-> "jmp", to |-> instr[loc].to]
    BY <2>1
  <2>3. instr' = [instr EXCEPT ![loc] = j]
    BY <1>1 DEF Branch
  <2>4. j = [op |-> j.op, to |-> j.to] /\ j.to = instr[loc].to
    BY <2>2
  <2> HIDE DEF j
  <2> QED BY <2>3, <2>4
<1> DEFINE exec == [at |-> "exec", loc |-> loc]
<1>4. Goes(t, exec)
  BY <1>1 DEF Branch, Executes
<1>5. Within(exec, S, P)
  BY DEF Within
<1> HIDE DEF exec
<1> QED BY <1>2, <1>3, <1>4, <1>5, RewriteReaches

-----------------------------------------------------------------------------
(***************************************************************************)
(* The lock and the emitter.                                               *)
(***************************************************************************)
LEMMA JobOf ==
  ASSUME NEW f, job' = Job(f)
  PROVE  /\ job' # NoJob /\ job'.fn = f /\ job'.started = FALSE
         /\ \A g : InJob(g)' <=> g = f
<1> DEFINE n == Cardinality({c \in DOMAIN code : c[1] = f}) + 1
<1> HIDE DEF n
<1>1. job' = [fn |-> f, left |-> CallsOf(f), started |-> FALSE, n |-> n]
  BY DEF Job, n
<1>2. job' # NoJob /\ job'.fn = f /\ job'.started = FALSE
  BY <1>1, SomeJob
<1> QED BY <1>2 DEF InJob

LEMMA AcquireReaches ==
  ASSUME CInv, TablesInv, NEW S, NEW P, Reaches(S, P), NEW t \in Threads, Acquire(t)
  PROVE  TablesInv' /\ Reaches(S, P)'
<1>1. PICK f \in Functions : f = thread[t].fn
  BY DEF Acquire, CInv, ThreadInv
<1>2. PICK loc : loc = thread[t].loc
  OBVIOUS
<1>3. /\ thread[t].at = "acquire" /\ lock = NoThread /\ ThreadInv
      /\ UNCHANGED <<lazy, pending, mapping, code, stubOf, known, instr>>
  BY DEF Acquire, Free, CInv
<1>4. loc = None \/ (lazy /\ loc \in P)
  BY <1>2, <1>3 DEF Reaches, Within
<1>5. CASE mapping[f] # None
  <2>1. Has(t, mapping[f]) /\ UNCHANGED <<lock, job>>
    BY <1>1, <1>5 DEF Acquire
  <2>2. PICK c \in S : c = mapping[f]
    BY <1>3, <1>5, FreeMapping
  <2> QED BY <1>2, <1>3, <1>4, <2>1, <2>2, HasReaches DEF jitVars
<1>6. CASE mapping[f] = None
  <2> DEFINE state == [at |-> "compile", loc |-> loc, fn |-> f]
  <2>1. lock' = t /\ job' = Job(f) /\ Goes(t, state)
    BY <1>1, <1>2, <1>6 DEF Acquire, Asks
  <2>2. state.at = "compile" /\ state.fn = f /\ Within(state, S, P)
    BY <1>4 DEF Within
  <2> HIDE DEF state
  <2>3. thread'[t] = state
    BY <1>3, <2>1 DEF ThreadInv, Goes
  <2>4. job' # NoJob /\ job'.fn = f /\ job'.started = FALSE
    BY <2>1, JobOf
  <2>5. \A g : InJob(g)' <=> g = f
    BY <2>1, JobOf
  <2>6. pending = {} /\ \A g : ~InJob(g)
    BY <1>3 DEF CInv, FreeInv, InJob
  <2>7. HolderInv'
    BY <1>1, <2>1, <2>2, <2>3, <2>4 DEF HolderInv
  <2>8. ShapeInv' /\ StubInv'
    BY <1>3 DEF TablesInv, ShapeInv, StubInv, AllStubs
  <2>9. MappingInv'
    BY <1>3, <2>4, <2>6 DEF TablesInv, MappingInv, Finished, InJob
  <2>10. TargetInv'
    BY <1>3, <2>6 DEF TablesInv, TargetInv, Finished, AllStubs
  <2>11. \A u \in Threads : Within(thread[u], S, P)'
    BY <1>3, <2>1, <2>2, ThreadsWithin DEF Reaches
  <2>12. ~lazy' => \A l \in P : l[1] = "stub" => l[2] \notin pending' /\ ~InJob(l[2])'
    BY <1>3, <1>6, <2>5, <2>6 DEF Reaches, TablesInv, StubInv, AllStubs
  <2>13. lock' # NoThread
    BY <2>1, ProgramAssumption
  <2> QED BY <1>3, <2>7, <2>8, <2>9, <2>10, <2>11, <2>12, <2>13 DEF TablesInv, Reaches, Finished
<1> QED BY <1>5, <1>6

LEMMA StartReaches ==
  ASSUME CInv, TablesInv, NEW S, NEW P, Reaches(S, P), NEW t \in Threads, Start(t)
  PROVE  TablesInv' /\ Reaches(S, P)'
<1>1. /\ lock = t /\ job # NoJob /\ job.fn \in Functions \ pending /\ Ready(job.fn) = {}
      /\ job = [fn |-> job.fn, left |-> job.left, started |-> job.started, n |-> job.n]
      /\ UNCHANGED <<lazy, thread, lock, pending, instr, stubOf, known>>
  BY DEF Start, CInv, JobInv
<1> DEFINE c == <<job.fn, job.n>>
<1>2. c # None /\ c = <<c[1], c[2]>> /\ c[1] = job.fn
  BY NoneIsNoCode
<1> HIDE DEF c
<1>3. job' = [fn |-> job.fn, left |-> job.left, started |-> TRUE, n |-> job.n]
  BY <1>1 DEF Start
<1>4. job' # NoJob /\ job'.fn = job.fn /\ job'.n = job.n
  BY <1>3, SomeJob
<1>5. mapping' = [mapping EXCEPT ![job.fn] = c] /\ code' = With(code, c, "emitting")
  BY DEF Start, c
<1>6. Finished' = Finished /\ DOMAIN code' = DOMAIN code \cup {c}
  BY <1>1, <1>2, <1>5 DEF Finished, Ready, With
<1>7. \A g : InJob(g)' <=> InJob(g)
  BY <1>1, <1>4 DEF InJob
<1>8. AllStubs' = AllStubs
  BY <1>1 DEF AllStubs
<1>9. ShapeInv'
  BY <1>1, <1>2, <1>6 DEF TablesInv, ShapeInv
<1>10. /\ DOMAIN mapping' = Functions /\ mapping'[job.fn] = c
       /\ \A g \in Functions : g # job.fn => mapping'[g] = mapping[g]
  BY <1>1, <1>5 DEF CInv, ReadyInv
<1>11. HolderInv'
  BY <1>1, <1>2, <1>4, <1>10 DEF TablesInv, HolderInv
<1>12. MappingInv'
  <2>1. <<job'.fn, job'.n>> = c
    BY <1>4 DEF c
  <2>2. \A f \in Functions :
           mapping'[f] = None \/ mapping'[f] \in Finished \/ InJob(f)'
             \/ (f \in pending' /\ mapping'[f] \in AllStubs)
    BY <1>1, <1>7, <1>10 DEF TablesInv, MappingInv, InJob
  <2> QED BY <1>4, <1>6, <1>8, <1>10, <2>1, <2>2 DEF MappingInv
<1>13. StubInv'
  BY <1>1, <1>2, <1>8, <1>10 DEF TablesInv, StubInv
<1>14. TargetInv'
  BY <1>1, <1>6, <1>7, <1>8 DEF TablesInv, TargetInv
<1>15. Reaches(S, P)'
  BY <1>1, <1>6, <1>7 DEF Reaches, Within
<1> QED BY <1>9, <1>11, <1>12, <1>13, <1>14, <1>15 DEF TablesInv

LEMMA RetryReaches ==
  ASSUME CInv, TablesInv, NEW S, NEW P, Reaches(S, P), NEW t \in Threads, Retry(t)
  PROVE  TablesInv' /\ Reaches(S, P)'
<1>1. PICK f \in Functions \ pending :
        /\ f = job.fn /\ job # NoJob /\ lock = t /\ Ready(f) = {} /\ job' = Job(f)
        /\ mapping[f] # None
        /\ UNCHANGED <<lazy, thread, lock, pending, mapping, instr, stubOf, known>>
  BY DEF Retry, CInv, JobInv
<1>2. job' # NoJob /\ job'.fn = f /\ job'.started = FALSE
  BY <1>1, JobOf
<1>3. \A g : InJob(g)' <=> InJob(g)
  BY <1>1, <1>2 DEF InJob
<1>4. PICK c : code' = [code EXCEPT ![c] = "freed"] /\ c[1] = f
  <2>1. <<job.fn, job.n>>[1] = f
    BY <1>1
  <2> QED BY <2>1 DEF Retry
<1>5. Finished' = Finished /\ DOMAIN code' = DOMAIN code
  BY <1>1, <1>4 DEF Finished, Ready
<1>6. AllStubs' = AllStubs
  BY <1>1 DEF AllStubs
<1>7. ShapeInv' /\ StubInv'
  BY <1>1, <1>5, <1>6 DEF TablesInv, ShapeInv, StubInv
<1>8. HolderInv'
  BY <1>1, <1>2 DEF TablesInv, HolderInv
<1>9. MappingInv' /\ TargetInv'
  BY <1>1, <1>2, <1>3, <1>5, <1>6 DEF TablesInv, MappingInv, TargetInv
<1>10. Reaches(S, P)'
  BY <1>1, <1>3, <1>5 DEF Reaches, Within
<1> QED BY <1>7, <1>8, <1>9, <1>10 DEF TablesInv

\* What a job is said to be, without the references it has left.
LEMMA SameJob ==
  ASSUME job # NoJob, NEW c, job' = [job EXCEPT !.left = @ \ {c}],
         job = [fn |-> job.fn, left |-> job.left, started |-> job.started, n |-> job.n]
  PROVE  /\ job' # NoJob /\ job'.fn = job.fn /\ job'.n = job.n /\ job'.started = job.started
         /\ \A f : InJob(f)' <=> InJob(f)
<1>1. job' = [fn |-> job.fn, left |-> job.left \ {c}, started |-> job.started, n |-> job.n]
  OBVIOUS
<1>2. job' # NoJob /\ job'.fn = job.fn /\ job'.n = job.n /\ job'.started = job.started
  BY <1>1, SomeJob
<1> QED BY <1>2 DEF InJob

LEMMA SiteShape ==
  ASSUME NEW g
  PROVE  /\ Site(g)[1] = "site" /\ Site(g)[2] = job.fn /\ Site(g)[3] = job.n
         /\ Site(g) = <<"site", Site(g)[2], Site(g)[3], Site(g)[4]>>
  BY DEF Site

LEMMA StubShape ==
  ASSUME NEW g
  PROVE  /\ NewStub(g)[1] = "stub" /\ NewStub(g)[2] = g
         /\ NewStub(g) = <<"stub", NewStub(g)[2], NewStub(g)[3]>>
<1> DEFINE k == Cardinality(Stubs(g)) + 1
<1> HIDE DEF k
<1>1. NewStub(g) = <<"stub", g, k>>
  BY DEF NewStub, k
<1> QED BY <1>1

\* The resolver is neither code nor a stub, and neither is an address that is missing.
LEMMA ResolverShape ==
  ASSUME ShapeInv
  PROVE  /\ Resolver \notin Finished \cup AllStubs /\ None \notin Finished \cup AllStubs
         /\ Resolver # None
<1>1. \A c \in Finished : c = <<c[1], c[2]>>
  BY DEF ShapeInv, Finished
<1>2. \A loc \in AllStubs :
        loc = <<"stub", loc[2], loc[3]>> \/ loc = <<"site", loc[2], loc[3], loc[4]>>
  BY DEF ShapeInv, AllStubs
<1>3. Resolver \notin Finished /\ None \notin Finished
  BY <1>1 DEF Resolver, None
<1>4. Resolver \notin AllStubs /\ None \notin AllStubs
  BY <1>2 DEF Resolver, None
<1> QED BY <1>3, <1>4 DEF Resolver, None

\* The site of the job leads to something there is.
LEMMA RefersReaches ==
  ASSUME CInv, TablesInv, NEW S, NEW P, Reaches(S, P),
         job # NoJob, job.started, NEW g, NEW to, Refers(g, to),
         to \in {Resolver, <<job.fn, job.n>>} \cup AllStubs \cup Finished,
         to = Resolver => lazy /\ Site(g) \in known', known \subseteq known',
         job'.fn = job.fn, job'.n = job.n, job'.started, job' # NoJob,
         \A f : InJob(f)' <=> InJob(f),
         UNCHANGED <<lazy, thread, lock, pending, mapping, code, stubOf>>
  PROVE  TablesInv' /\ Reaches(S, P)'
<1>1. PICK site : /\ site = Site(g) /\ site[1] = "site" /\ site[2] = job.fn /\ site[3] = job.n
                  /\ site = <<"site", site[2], site[3], site[4]>>
  BY SiteShape
<1> DEFINE i == [op |-> "call", to |-> to]
<1>2. i.to = to /\ i = [op |-> i.op, to |-> i.to]
  OBVIOUS
<1>3. instr' = With(instr, site, i)
  BY <1>1 DEF Refers
<1> HIDE DEF i
<1>4. /\ DOMAIN instr' = DOMAIN instr \cup {site} /\ instr'[site] = i
      /\ \A l \in DOMAIN instr : l # site => instr'[l] = instr[l]
  BY <1>3 DEF With
<1>5. AllStubs' = AllStubs /\ Finished' = Finished
  BY <1>1, <1>4 DEF AllStubs, Finished
<1>6. ShapeInv'
  BY <1>1, <1>2, <1>4 DEF TablesInv, ShapeInv
<1>7. HolderInv'
  BY DEF TablesInv, HolderInv
<1>8. MappingInv'
  BY <1>5 DEF TablesInv, MappingInv
<1>9. StubInv'
  BY <1>5 DEF TablesInv, StubInv
<1>10. TargetInv'
  <2> SUFFICES ASSUME NEW l \in DOMAIN instr'
               PROVE  /\ instr'[l].to = Resolver => lazy' /\ l \in known'
                      /\ l[1] = "site" =>
                           instr'[l].to \in {Resolver, <<l[2], l[3]>>} \cup AllStubs' \cup Finished'
                      /\ l[1] = "stub" =>
                           \/ instr'[l].to \in {Resolver} \cup Finished'
                           \/ /\ instr'[l].to = None /\ ~lazy' /\ l = stubOf'[l[2]]
                              /\ l[2] \in pending' \/ InJob(l[2])'
    BY DEF TargetInv
  <2>1. CASE l = site
    BY <1>1, <1>2, <1>4, <1>5, <2>1
  <2>2. CASE l # site
    BY <1>4, <1>5, <2>2 DEF TablesInv, TargetInv
  <2> QED BY <2>1, <2>2
<1>11. <<job.fn, job.n>> \notin S
  <2>1. Ready(job.fn) = {}
    BY DEF CInv, JobInv
  <2>2. <<job.fn, job.n>>[1] = job.fn
    OBVIOUS
  <2> QED BY <2>1, <2>2 DEF Reaches, Finished, Ready
<1>12. site \notin P
  BY <1>1, <1>11 DEF Reaches
<1>13. \A l \in P : instr'[l].to \in {Resolver} \cup S \cup P
  BY <1>4, <1>12 DEF Reaches
<1>14. \A l \in DOMAIN instr' : l[1] = "site" => (l \in P <=> <<l[2], l[3]>> \in S)
  BY <1>1, <1>4, <1>11, <1>12 DEF Reaches
<1>15. \A u \in Threads : Within(thread[u], S, P)'
  BY DEF Reaches, Within
<1>16. Reaches(S, P)'
  BY <1>4, <1>5, <1>13, <1>14, <1>15 DEF Reaches
<1> QED BY <1>6, <1>7, <1>8, <1>9, <1>10, <1>16 DEF TablesInv

\* The site of the job leads to a new stub.
LEMMA StubbedReaches ==
  ASSUME CInv, TablesInv, NEW S, NEW P, Reaches(S, P),
         job # NoJob, job.started, NEW g \in Functions,
         NEW i, Stubbed(g, i), i = [op |-> i.op, to |-> i.to],
         known' = known \cup {NewStub(g)}, stubOf' = [stubOf EXCEPT ![g] = NewStub(g)],
         \/ lazy /\ i.to = Resolver /\ UNCHANGED <<mapping, pending>>
         \/ /\ ~lazy /\ i.to = None /\ mapping[g] = None
            /\ mapping' = [mapping EXCEPT ![g] = NewStub(g)] /\ pending' = pending \cup {g},
         job'.fn = job.fn, job'.n = job.n, job'.started, job' # NoJob,
         \A f : InJob(f)' <=> InJob(f),
         UNCHANGED <<lazy, thread, lock, code>>
  PROVE  TablesInv' /\ Reaches(S, P)'
<1>1. PICK site : /\ site = Site(g) /\ site[1] = "site" /\ site[2] = job.fn /\ site[3] = job.n
                  /\ site = <<"site", site[2], site[3], site[4]>>
  BY SiteShape
<1>2. PICK stub : /\ stub = NewStub(g) /\ stub[1] = "stub" /\ stub[2] = g
                  /\ stub = <<"stub", stub[2], stub[3]>>
  BY StubShape
<1>3. site # stub /\ stub # None
  BY <1>1, <1>2, NoneIsNoStub
<1> DEFINE j == [op |-> "call", to |-> stub]
<1>4. j.to = stub /\ j = [op |-> j.op, to |-> j.to]
  OBVIOUS
<1>5. instr' = With(With(instr, stub, i), site, j)
  BY <1>1, <1>2 DEF Stubbed
<1> HIDE DEF j
<1>6. /\ DOMAIN instr' = DOMAIN instr \cup {site, stub}
      /\ instr'[site] = j /\ instr'[stub] = i
      /\ \A l \in DOMAIN instr : l # site /\ l # stub => instr'[l] = instr[l]
  BY <1>3, <1>5 DEF With
<1>7. AllStubs' = AllStubs \cup {stub} /\ Finished' = Finished
  BY <1>1, <1>2, <1>6 DEF AllStubs, Finished
<1>8. ShapeInv'
  BY <1>1, <1>2, <1>4, <1>6 DEF TablesInv, ShapeInv
<1>9. /\ DOMAIN mapping' = Functions
      /\ \A f \in Functions : f # g => mapping'[f] = mapping[f]
      /\ \/ lazy /\ mapping'[g] = mapping[g]
         \/ ~lazy /\ mapping[g] = None /\ mapping'[g] = stub /\ g \in pending'
      /\ pending \subseteq pending' /\ pending' \subseteq pending \cup {g}
  BY <1>2 DEF CInv, ReadyInv
<1>10. HolderInv'
  BY <1>3, <1>9 DEF TablesInv, HolderInv
<1>11. MappingInv'
  <2>1. mapping[job.fn] # None /\ job.fn \in Functions
    BY DEF CInv, JobInv
  <2>2. mapping'[job.fn] = mapping[job.fn]
    BY <1>9, <2>1
  <2>3. \A f \in Functions :
           mapping'[f] = None \/ mapping'[f] \in Finished \/ InJob(f)'
             \/ (f \in pending' /\ mapping'[f] \in AllStubs')
    BY <1>7, <1>9 DEF TablesInv, MappingInv
  <2> QED BY <1>7, <2>2, <2>3 DEF TablesInv, MappingInv
<1>12. /\ DOMAIN stubOf' = Functions /\ stubOf'[g] = stub
       /\ \A f \in Functions : f # g => stubOf'[f] = stubOf[f]
  BY <1>2 DEF TablesInv, StubInv
<1>13. ~lazy => \A l \in AllStubs : l[2] # g /\ l[2] \in Functions
  BY <1>9 DEF TablesInv, StubInv
<1>14. StubInv'
  <2>1. \A f \in Functions :
          stubOf'[f] # None => stubOf'[f] \in AllStubs' /\ stubOf'[f][2] = f
    BY <1>2, <1>7, <1>12 DEF TablesInv, StubInv
  <2>2. ~lazy => mapping'[g] # None
    BY <1>3, <1>9
  <2>3. ~lazy => \A l \in AllStubs' : l[2] \in Functions /\ mapping'[l[2]] # None
    BY <1>2, <1>7, <1>9, <2>2 DEF TablesInv, StubInv
  <2> QED BY <1>12, <2>1, <2>3 DEF StubInv
<1>15. TargetInv'
  <2> SUFFICES ASSUME NEW l \in DOMAIN instr'
               PROVE  /\ instr'[l].to = Resolver => lazy' /\ l \in known'
                      /\ l[1] = "site" =>
                           instr'[l].to \in {Resolver, <<l[2], l[3]>>} \cup AllStubs' \cup Finished'
                      /\ l[1] = "stub" =>
                           \/ instr'[l].to \in {Resolver} \cup Finished'
                           \/ /\ instr'[l].to = None /\ ~lazy' /\ l = stubOf'[l[2]]
                              /\ l[2] \in pending' \/ InJob(l[2])'
    BY DEF TargetInv
  <2>1. CASE l = site
    <3>1. AllStubs' = AllStubs \cup {stub} /\ stub # Resolver
      BY <1>2, <1>7 DEF Resolver
    <3> QED BY <1>1, <1>4, <1>6, <2>1, <3>1
  <2>2. CASE l = stub
    <3>1. instr'[l] = i /\ l[1] = "stub" /\ l[2] = g /\ l = stubOf'[l[2]] /\ l \in known'
      BY <1>2, <1>6, <1>12, <2>2
    <3>2. CASE lazy
      BY <3>1, <3>2
    <3>3. CASE ~lazy
      <4>1. i.to = None /\ g \in pending'
        BY <3>3
      <4>2. None # Resolver
        BY ResolverShape DEF TablesInv
      <4> QED BY <3>1, <3>3, <4>1, <4>2
    <3> QED BY <3>2, <3>3
  <2>3. CASE l # site /\ l # stub
    <3>1. l \in DOMAIN instr /\ instr'[l] = instr[l] /\ known \subseteq known'
      BY <1>6, <2>3
    <3>2. ~lazy /\ l[1] = "stub" => stubOf'[l[2]] = stubOf[l[2]]
      BY <1>12, <1>13, <3>1 DEF AllStubs
    <3> QED BY <1>7, <1>9, <3>1, <3>2 DEF TablesInv, TargetInv
  <2> QED BY <2>1, <2>2, <2>3
<1>16. <<job.fn, job.n>> \notin S
  <2>1. Ready(job.fn) = {}
    BY DEF CInv, JobInv
  <2>2. <<job.fn, job.n>>[1] = job.fn
    OBVIOUS
  <2> QED BY <2>1, <2>2 DEF Reaches, Finished, Ready
<1>17. site \notin P
  BY <1>1, <1>16 DEF Reaches
<1>18. \A l \in P : instr'[l].to \in {Resolver} \cup S \cup P
  <2> SUFFICES ASSUME NEW l \in P PROVE instr'[l].to \in {Resolver} \cup S \cup P
    OBVIOUS
  <2>1. CASE l = stub /\ lazy
    BY <1>6, <2>1
  <2>2. CASE l = stub /\ ~lazy
    BY <1>2, <1>13, <2>2 DEF Reaches, AllStubs
  <2>3. CASE l # stub
    BY <1>6, <1>17, <2>3 DEF Reaches
  <2> QED BY <2>1, <2>2, <2>3
<1>19. \A l \in DOMAIN instr' : l[1] = "site" => (l \in P <=> <<l[2], l[3]>> \in S)
  BY <1>1, <1>2, <1>6, <1>16, <1>17 DEF Reaches
<1>20. ~lazy' => \A l \in P : l[1] = "stub" => l[2] \notin pending' /\ ~InJob(l[2])'
  BY <1>9, <1>13 DEF Reaches, AllStubs
<1>21. \A u \in Threads : Within(thread[u], S, P)'
  BY DEF Reaches, Within
<1>22. Reaches(S, P)'
  BY <1>6, <1>7, <1>18, <1>19, <1>20, <1>21 DEF Reaches
<1> QED BY <1>8, <1>10, <1>11, <1>14, <1>15, <1>22 DEF TablesInv

\* Whatever a function is mapped to while another is emitted, a call may lead to.
LEMMA MappedTarget ==
  ASSUME CInv, TablesInv, job # NoJob, job.started, NEW g \in Functions, mapping[g] # None
  PROVE  /\ mapping[g] \in {Resolver, <<job.fn, job.n>>} \cup AllStubs \cup Finished
         /\ mapping[g] # Resolver
<1>1. mapping[g] \in Finished \cup AllStubs \/ mapping[g] = <<job.fn, job.n>>
  BY DEF TablesInv, MappingInv, InJob
<1>2. <<job.fn, job.n>> # Resolver
  BY DEF Resolver
<1> QED BY <1>1, <1>2, ResolverShape DEF TablesInv

LEMMA RelocateReaches ==
  ASSUME CInv, TablesInv, NEW S, NEW P, Reaches(S, P), NEW t \in Threads, Relocate(t)
  PROVE  TablesInv' /\ Reaches(S, P)'
<1>1. PICK c \in job.left :
        /\ job' = [job EXCEPT !.left = @ \ {c}]
        /\ IF lazy THEN RelocateLazily(c) ELSE RelocateEagerly(c)
  BY DEF Relocate
<1>2. /\ job # NoJob /\ job.started /\ UNCHANGED <<lazy, thread, lock, code>>
      /\ job = [fn |-> job.fn, left |-> job.left, started |-> job.started, n |-> job.n]
  BY DEF Relocate, CInv, JobInv
<1>3. PICK g \in Functions : g = c[2]
  BY <1>1, ProgramAssumption DEF CInv, JobInv, Relocate
<1>4. job' # NoJob /\ job'.fn = job.fn /\ job'.n = job.n /\ job'.started
  BY <1>1, <1>2, SameJob
<1>5. \A f : InJob(f)' <=> InJob(f)
  BY <1>1, <1>2, SameJob
<1>6. ASSUME mapping[g] # None, Refers(g, mapping[g]), UNCHANGED <<mapping, pending, stubOf, known>>
      PROVE  TablesInv' /\ Reaches(S, P)'
  <2>1. PICK to : to = mapping[g]
    OBVIOUS
  <2> QED BY <1>2, <1>4, <1>5, <1>6, <2>1, MappedTarget, RefersReaches
<1>7. CASE lazy
  <2>1. RelocateLazily(c) /\ UNCHANGED <<mapping, pending>>
    BY <1>1, <1>7 DEF RelocateLazily
  <2>2. ASSUME mapping[g] = None, Refers(g, Resolver), known' = known \cup {Site(g)},
               UNCHANGED stubOf
        PROVE  TablesInv' /\ Reaches(S, P)'
    BY <1>2, <1>4, <1>5, <1>7, <2>1, <2>2, RefersReaches
  <2>3. ASSUME stubOf[g] # None, Refers(g, stubOf[g]), UNCHANGED <<stubOf, known>>
        PROVE  TablesInv' /\ Reaches(S, P)'
    <3>1. PICK to \in AllStubs : to = stubOf[g]
      BY <2>3 DEF TablesInv, StubInv
    <3>2. to # Resolver
      BY ResolverShape DEF TablesInv
    <3> QED BY <1>2, <1>4, <1>5, <2>1, <2>3, <3>1, <3>2, RefersReaches
  <2>4. ASSUME Stubbed(g, [op |-> "call", to |-> Resolver]),
               known' = known \cup {NewStub(g)}, stubOf' = [stubOf EXCEPT ![g] = NewStub(g)]
        PROVE  TablesInv' /\ Reaches(S, P)'
    <3> DEFINE i == [op |-> "call", to |-> Resolver]
    <3>1. Stubbed(g, i) /\ i.to = Resolver /\ i = [op |-> i.op, to |-> i.to]
      BY <2>4
    <3> HIDE DEF i
    <3> QED BY <1>2, <1>4, <1>5, <1>7, <2>1, <2>4, <3>1, StubbedReaches
  <2> QED BY <1>3, <1>6, <2>1, <2>2, <2>3, <2>4 DEF RelocateLazily
<1>8. CASE ~lazy
  <2>1. RelocateEagerly(c)
    BY <1>1, <1>8
  <2>2. CASE mapping[g] # None
    BY <1>3, <1>6, <2>1, <2>2 DEF RelocateEagerly
  <2>3. CASE mapping[g] = None
    <3> DEFINE i == [op |-> "jmp", to |-> None]
    <3>1. /\ Stubbed(g, i) /\ known' = known \cup {NewStub(g)}
          /\ stubOf' = [stubOf EXCEPT ![g] = NewStub(g)]
          /\ mapping' = [mapping EXCEPT ![g] = NewStub(g)] /\ pending' = pending \cup {g}
      BY <1>3, <2>1, <2>3 DEF RelocateEagerly
    <3>2. i.to = None /\ i = [op |-> i.op, to |-> i.to]
      OBVIOUS
    <3> HIDE DEF i
    <3> QED BY <1>2, <1>4, <1>5, <1>8, <2>3, <3>1, <3>2, StubbedReaches
  <2> QED BY <2>2, <2>3
<1> QED BY <1>7, <1>8

\* The code of the job is finished; what has no address then is in the next job.
LEMMA FinishReaches ==
  ASSUME CInv, TablesInv, NEW S, NEW P, Reaches(S, P), NEW t \in Threads, Finish(t)
  PROVE  TablesInv' /\ Reaches(S, P)'
<1>1. PICK g \in Functions \ pending :
        /\ g = job.fn /\ job # NoJob /\ job.started /\ lock = t
        /\ UNCHANGED <<lazy, thread, lock, mapping, stubOf, known>>
  BY DEF Finish, CInv, JobInv
<1>2. PICK c \in DOMAIN code :
        c = mapping[g] /\ c = <<job.fn, job.n>> /\ code' = [code EXCEPT ![c] = "ready"]
  BY <1>1 DEF Finish, TablesInv, MappingInv
<1>3. Finished' = Finished \cup {c} /\ DOMAIN code' = DOMAIN code
  BY <1>2 DEF Finished
<1>4. \A f : InJob(f) <=> f = g
  BY <1>1 DEF InJob
<1>5. /\ pending' \subseteq pending
      /\ job' # NoJob => job'.started = FALSE /\ job'.fn \in pending
      /\ \A f \in pending : f \in pending' \/ InJob(f)'
      /\ \A f : InJob(f)' => f \in pending
  <2>1. CASE pending = {} /\ job' = NoJob /\ UNCHANGED pending
    BY <2>1 DEF InJob
  <2>2. ASSUME NEW f \in pending, job' = Job(f), pending' = pending \ {f}
        PROVE  /\ pending' \subseteq pending
               /\ job' # NoJob => job'.started = FALSE /\ job'.fn \in pending
               /\ \A h \in pending : h \in pending' \/ InJob(h)'
               /\ \A h : InJob(h)' => h \in pending
    <3>1. job'.started = FALSE /\ job'.fn = f
      BY <2>2, JobOf
    <3>2. \A h : InJob(h)' <=> h = f
      BY <2>2, JobOf
    <3> QED BY <2>2, <3>1, <3>2
  <2> QED BY <2>1, <2>2 DEF Finish
<1>6. /\ DOMAIN instr' = DOMAIN instr
      /\ \A l \in DOMAIN instr :
           \/ instr'[l] = instr[l] /\ (~lazy => l # stubOf[g])
           \/ /\ ~lazy /\ l = stubOf[g] /\ l[1] = "stub" /\ l[2] = g /\ instr'[l].to = c
              /\ instr'[l] = [op |-> instr'[l].op, to |-> instr'[l].to]
  <2> DEFINE i == [op |-> "jmp", to |-> c]
  <2>1. i.to = c /\ i = [op |-> i.op, to |-> i.to]
    OBVIOUS
  <2>2. IF ~lazy /\ stubOf[g] # None THEN instr' = [instr EXCEPT ![stubOf[g]] = i]
        ELSE UNCHANGED instr
    BY <1>1, <1>2 DEF Finish
  <2> HIDE DEF i
  <2>3. stubOf[g] # None => stubOf[g] \in AllStubs /\ stubOf[g][2] = g
    BY DEF TablesInv, StubInv
  <2>4. CASE ~lazy /\ stubOf[g] # None
    BY <2>1, <2>2, <2>3, <2>4 DEF AllStubs
  <2>5. CASE ~lazy /\ stubOf[g] = None
    <3>1. \A l \in DOMAIN instr : l # None
      BY DEF TablesInv, ShapeInv, None
    <3> QED BY <2>2, <2>5, <3>1
  <2>6. CASE lazy
    BY <2>2, <2>6
  <2> QED BY <2>4, <2>5, <2>6
<1>7. AllStubs' = AllStubs
  BY <1>6 DEF AllStubs
<1>8. ShapeInv'
  BY <1>3, <1>6 DEF TablesInv, ShapeInv
<1>9. HolderInv'
  <2>1. thread[lock].fn \in Functions => mapping[thread[lock].fn] # None
    BY <1>1, <1>2, NoneIsNoCode, ProgramAssumption DEF TablesInv, HolderInv
  <2> QED BY <1>1, <2>1 DEF TablesInv, HolderInv
<1>10. MappingInv'
  <2>1. \A f \in Functions :
          mapping[f] = None \/ mapping[f] \in Finished' \/ InJob(f)'
            \/ (f \in pending' /\ mapping[f] \in AllStubs)
    BY <1>2, <1>3, <1>4, <1>5 DEF TablesInv, MappingInv
  <2> QED BY <1>1, <1>5, <1>7, <2>1 DEF MappingInv
<1>11. StubInv'
  BY <1>1, <1>7 DEF TablesInv, StubInv
<1>12. TargetInv'
  <2> SUFFICES ASSUME NEW l \in DOMAIN instr
               PROVE  /\ instr'[l].to = Resolver => lazy /\ l \in known
                      /\ l[1] = "site" =>
                           instr'[l].to \in {Resolver, <<l[2], l[3]>>} \cup AllStubs \cup Finished'
                      /\ l[1] = "stub" =>
                           \/ instr'[l].to \in {Resolver} \cup Finished'
                           \/ /\ instr'[l].to = None /\ ~lazy /\ l = stubOf[l[2]]
                              /\ l[2] \in pending' \/ InJob(l[2])'
    BY <1>1, <1>6, <1>7 DEF TargetInv
  <2>1. CASE instr'[l] = instr[l] /\ (~lazy => l # stubOf[g])
    BY <1>3, <1>4, <1>5, <2>1 DEF TablesInv, TargetInv
  <2>2. CASE l[1] = "stub" /\ instr'[l].to = c
    <3>1. c # Resolver
      BY <1>2 DEF Resolver
    <3> QED BY <1>3, <2>2, <3>1
  <2> QED BY <1>6, <2>1, <2>2
<1>13. \A l \in P : instr'[l].to \in {Resolver} \cup S \cup P
  BY <1>4, <1>6 DEF Reaches
<1>14. \A u \in Threads : Within(thread[u], S, P)'
  BY <1>1 DEF Reaches, Within
<1>15. lock' # NoThread
  BY <1>1, ProgramAssumption
<1>16. ~lazy' => \A l \in P : l[1] = "stub" => l[2] \notin pending' /\ ~InJob(l[2])'
  BY <1>1, <1>5 DEF Reaches
<1>17. Reaches(S, P)'
  BY <1>3, <1>6, <1>13, <1>14, <1>15, <1>16 DEF Reaches
<1> QED BY <1>8, <1>9, <1>10, <1>11, <1>12, <1>17 DEF TablesInv

\* With the lock, the holder lets go of all finished code and of every stub.
LEMMA ReleaseReaches ==
  ASSUME CInv, TablesInv, NEW S, NEW P, Reaches(S, P), NEW t \in Threads, Release(t)
  PROVE  TablesInv' /\ \E S2, P2 : Reaches(S2, P2)'
<1>1. /\ lock = t /\ job = NoJob /\ lock' = NoThread /\ pending = {} /\ ThreadInv
      /\ UNCHANGED <<lazy, job, pending, mapping, code, stubOf, known, instr>>
  BY DEF Release, jitVars, CInv, FreeInv
<1>2. PICK f \in Functions : f = thread[t].fn /\ mapping[f] # None /\ thread[t].at = "compile"
  BY <1>1, ProgramAssumption DEF TablesInv, HolderInv
<1>3. PICK c \in Finished : c = mapping[f]
  BY <1>1, <1>2 DEF TablesInv, MappingInv, InJob
<1>4. Has(t, c)
  BY <1>2, <1>3 DEF Release
<1>5. PICK S2 : S2 = Finished
  OBVIOUS
<1>6. PICK P2 :
        P2 = AllStubs \cup {loc \in DOMAIN instr : loc[1] = "site" /\ <<loc[2], loc[3]>> \in S2}
  OBVIOUS
<1>7. \A loc \in DOMAIN instr : loc[1] = "stub" \/ (loc[1] = "site" /\ loc[1] # "stub")
  <2>1. \A loc \in DOMAIN instr :
          loc = <<"stub", loc[2], loc[3]>> \/ loc = <<"site", loc[2], loc[3], loc[4]>>
    BY DEF TablesInv, ShapeInv
  <2> QED BY <2>1
<1>8. S \subseteq S2 /\ P \subseteq P2 /\ P2 \subseteq DOMAIN instr
  BY <1>5, <1>6, <1>7 DEF Reaches, AllStubs
<1>9. \A loc \in DOMAIN instr : loc[1] = "site" => (loc \in P2 <=> <<loc[2], loc[3]>> \in S2)
  BY <1>6, <1>7 DEF AllStubs
<1>10. \A loc \in P2 : instr[loc].to \in {Resolver} \cup S2 \cup P2
  BY <1>1, <1>5, <1>6 DEF TablesInv, TargetInv, AllStubs, InJob
<1>11. thread[t].loc = None \/ (lazy /\ thread[t].loc \in P2)
  BY <1>2, <1>8 DEF Reaches, Within
<1>12. PICK state : Goes(t, state) /\ Within(state, S2, P2)
  BY <1>3, <1>4, <1>5, <1>11, HasGoes
<1>13. \A u \in Threads : Within(thread[u], S2, P2)'
  BY <1>1, <1>8, <1>12, ThreadsWithin DEF Reaches
<1>14. Finished' = Finished /\ AllStubs' = AllStubs /\ \A g : ~InJob(g)'
  BY <1>1 DEF Finished, AllStubs, InJob
<1>15. Reaches(S2, P2)'
  BY <1>1, <1>5, <1>8, <1>9, <1>10, <1>13, <1>14 DEF Reaches
<1>16. HolderInv'
  BY <1>1 DEF HolderInv
<1>17. ShapeInv' /\ MappingInv' /\ StubInv' /\ TargetInv'
  BY <1>1, <1>14 DEF TablesInv, ShapeInv, MappingInv, StubInv, TargetInv, InJob
<1> QED BY <1>15, <1>16, <1>17 DEF TablesInv

-----------------------------------------------------------------------------
(***************************************************************************)
(* The theorems.                                                           *)
(***************************************************************************)
LEMMA InitReachInv == Init => ReachInv
<1> SUFFICES ASSUME Init PROVE ReachInv
  OBVIOUS
<1>1. Finished = {} /\ AllStubs = {} /\ DOMAIN instr = {} /\ DOMAIN code = {} /\ \A f : ~InJob(f)
  BY DEF Init, Finished, AllStubs, InJob
<1>2. ShapeInv /\ HolderInv /\ MappingInv /\ StubInv /\ TargetInv
  BY <1>1 DEF Init, ShapeInv, HolderInv, MappingInv, StubInv, TargetInv
<1>3. \A t \in Threads : thread[t].at = "idle"
  BY DEF Init, Idle
<1>4. Reaches({}, {})
  BY <1>1, <1>3 DEF Init, Reaches, Within
<1> QED BY <1>2, <1>4 DEF ReachInv, TablesInv

LEMMA NextReachInv == CInv /\ ReachInv /\ [Next]_vars => ReachInv'
<1> SUFFICES ASSUME CInv, TablesInv, [Next]_vars, NEW S, NEW P, Reaches(S, P)
             PROVE  TablesInv' /\ \E S2, P2 : Reaches(S2, P2)'
  BY DEF ReachInv
<1>1. CASE UNCHANGED vars
  <2>1. TablesInv'
    BY <1>1 DEF vars, TablesInv, ShapeInv, HolderInv, MappingInv, StubInv, TargetInv, InJob,
                AllStubs, Finished
  <2>2. Reaches(S, P)'
    BY <1>1 DEF vars, Reaches, Within, Finished, InJob
  <2> QED BY <2>1, <2>2
<1>2. ASSUME NEW t \in Threads, Resolve(t)
      PROVE  TablesInv' /\ \E S2, P2 : Reaches(S2, P2)'
  <2>1. CASE Release(t)
    BY <2>1, ReleaseReaches
  <2>2. CASE ~Release(t)
    <3>1. TablesInv' /\ Reaches(S, P)'
      BY <1>2, <2>2, ExecuteReaches, LookupReaches, CheckReaches, AcquireReaches, StartReaches,
         RelocateReaches, FinishReaches, EraseReaches, PatchReaches, BranchReaches DEF Resolve
    <3> QED BY <3>1
  <2> QED BY <2>1, <2>2
<1>3. ASSUME NEW t \in Threads, Retry(t) \/ Ask(t) \/ Call(t) \/ Return(t)
      PROVE  TablesInv' /\ \E S2, P2 : Reaches(S2, P2)'
  <2>1. TablesInv' /\ Reaches(S, P)'
    BY <1>3, RetryReaches, AskReaches, CallReaches, ReturnReaches
  <2> QED BY <2>1
<1> QED BY <1>1, <1>2, <1>3 DEF Next

\* In every reachable state there are code and places that threads are confined to and
\* that lead to no others: all of it finished, whatever is being compiled.
THEOREM ReachInvariance == Spec => []ReachInv
<1> QED BY InitCInv, NextCInv, InitReachInv, NextReachInv, PTL DEF Spec

\* No thread runs code that is not finished, was freed by a retry or belongs to nobody,
\* although getPointerToFunction and the emitter publish addresses before there is code.
THEOREM OnlyFinishedCodeRuns == Spec => []RunsFinishedCode
<1>1. ReachInv => RunsFinishedCode
  BY DEF ReachInv, Reaches, Within, Finished, RunsFinishedCode
<1> QED BY <1>1, ReachInvariance, PTL

\* When the lock is free no instruction of finished code is empty, not over a stub either,
\* and JITCompilerFn knows whatever leads to the resolver.
THEOREM NothingLeftDangling == Spec => []NothingDangles
<1>1. CInv /\ ReachInv => NothingDangles
  <2> SUFFICES ASSUME CInv, TablesInv, lock = NoThread, NEW loc \in DOMAIN instr
               PROVE  instr[loc].to # None /\ (instr[loc].to = Resolver => loc \in known)
    BY DEF ReachInv, NothingDangles, Free
  <2>1. job = NoJob /\ pending = {} /\ \A f : ~InJob(f)
    BY DEF CInv, FreeInv, InJob
  <2>2. loc[1] = "site" \/ loc[1] = "stub"
    BY DEF TablesInv, ShapeInv
  <2>3. <<loc[2], loc[3]>> # None
    BY DEF None
  <2>4. instr[loc].to # None
    BY <2>1, <2>2, <2>3, ResolverShape DEF TablesInv, TargetInv
  <2> QED BY <2>4 DEF TablesInv, TargetInv
<1> QED BY <1>1, CompilationInvariance, ReachInvariance, PTL

-----------------------------------------------------------------------------
(***************************************************************************)
(* Code memory: the inductive invariant.  H are the addresses of the       *)
(* headers in the memory m, and e is the end of the last slab.             *)
(***************************************************************************)
Cell == [ta : {0, 1}, pa : {0, 1}, n : Nat, by : {NoBody} \cup (Kind \X Function)]

\* The blocks lie one behind the other.
Tiled(m, H, e) ==
  /\ m \in [Addr -> Cell] /\ H \subseteq Addr /\ 1 \in H /\ e \in Nat /\ e <= MaxWords + 1
  /\ \A b \in H : /\ m[b].n >= 1 /\ BlockAfter(m, b) <= e
                  /\ BlockAfter(m, b) # e => BlockAfter(m, b) \in H
  /\ \A b, c \in H : b < c => BlockAfter(m, b) <= c

\* What a block says of itself it says at its end too, and the next says of it.
Marked(m, H) ==
  /\ m[1].pa = 1
  /\ \A b \in H : BlockAfter(m, b) \in H => m[BlockAfter(m, b)].pa = m[b].ta
  /\ \A b \in H : m[b].ta = 0 =>
       /\ m[b].n >= MinBlock
       /\ BlockAfter(m, b) \in H /\ m[BlockAfter(m, b)].ta = 1
       /\ m[BlockAfter(m, b) - 1].n = m[b].n

Heap(m, H, e) == Tiled(m, H, e) /\ Marked(m, H)

FreeIn(m, H) == {b \in H : m[b].ta = 0}

\* The blocks F are a doubly linked ring, and not several.
Ring(F, nx, pv) ==
  /\ \A b \in F : nx[b] \in F /\ pv[b] \in F /\ pv[nx[b]] = b /\ nx[pv[b]] = b
  /\ \A S \in SUBSET F : S # {} /\ (\A b \in S : nx[b] \in S) => S = F

Linked(m, F) == Ring(F, [b \in F |-> NextOf(m, b)], [b \in F |-> PrevOf(m, b)])

\* The tiny block.
Tomb(m, H) == Mem2 \in H /\ m[Mem2].ta = 0 /\ m[Mem2].n = MinBlock

Sane(m, list, H, e) ==
  /\ Heap(m, H, e) /\ Linked(m, FreeIn(m, H)) /\ list \in FreeIn(m, H) /\ Tomb(m, H)

\* The allocated blocks K of m are in t as they were.
Kept(m, t, J, K) ==
  \A c \in K : /\ c \in J /\ t[c].ta = 1 /\ t[c].n = m[c].n
               /\ \A x \in (c + 1)..(BlockAfter(m, c) - 1) : t[x] = m[x]

TakenIn(m, H) == {c \in H : m[c].ta = 1}

-----------------------------------------------------------------------------
(***************************************************************************)
(* Code memory: where words are.                                           *)
(***************************************************************************)
LEMMA AddrIs == Addr \subseteq Nat /\ MaxWords \in Nat /\ \A x \in Addr : x >= 1 /\ x <= MaxWords
BY CodeMemoryAssumption DEF Addr

LEMMA BlockAfterIs ==
  ASSUME NEW m, NEW H, NEW e, Tiled(m, H, e), NEW b \in H
  PROVE  /\ b \in Addr /\ b \in Nat /\ b >= 1 /\ m[b] \in Cell /\ m[b].n \in Nat /\ m[b].n >= 1
         /\ BlockAfter(m, b) = b + m[b].n /\ BlockAfter(m, b) \in Nat
         /\ BlockAfter(m, b) <= e /\ e \in Nat /\ e <= MaxWords + 1
BY AddrIs DEF Tiled, Cell, BlockAfter

LEMMA NoHeaderInside ==
  ASSUME NEW m, NEW H, NEW e, Tiled(m, H, e), NEW b \in H, NEW x \in H, b < x
  PROVE  x >= BlockAfter(m, b)
<1>1. BlockAfter(m, b) <= x
  BY DEF Tiled
<1>2. BlockAfter(m, b) \in Nat /\ x \in Nat
  BY BlockAfterIs
<1> QED BY <1>1, <1>2

\* A word is in one block.
LEMMA OneBlock ==
  ASSUME NEW m, NEW H, NEW e, Tiled(m, H, e), NEW b \in H, NEW c \in H, NEW x \in Nat,
         b <= x, x < BlockAfter(m, b), c <= x, x < BlockAfter(m, c)
  PROVE  b = c
<1>1. /\ b \in Nat /\ c \in Nat /\ BlockAfter(m, b) \in Nat /\ BlockAfter(m, c) \in Nat
  BY BlockAfterIs
<1>2. ~(b < c)
  BY <1>1, NoHeaderInside
<1>3. ~(c < b)
  BY <1>1, NoHeaderInside
<1> QED BY <1>1, <1>2, <1>3

\* A block but the first has one before it.
LEMMA BlockBefore ==
  ASSUME NEW m, NEW H, NEW e, Tiled(m, H, e), NEW b \in H, b # 1
  PROVE  \E c \in H : BlockAfter(m, c) = b /\ c < b
<1>1. PICK T : T = {b - c : c \in {c \in H : c < b}}
  OBVIOUS
<1>2. H \subseteq Nat /\ 1 \in H /\ b \in Nat /\ b >= 1
  BY BlockAfterIs, AddrIs DEF Tiled
<1>3. T \subseteq Nat /\ T # {}
  BY <1>1, <1>2
<1>4. PICK d \in T : \A k \in T : d <= k
  BY <1>3, LeastNat
<1>5. PICK c \in H : c < b /\ d = b - c
  BY <1>1, <1>4
<1>6. /\ BlockAfter(m, c) <= b /\ BlockAfter(m, c) = c + m[c].n /\ m[c].n >= 1 /\ m[c].n \in Nat
      /\ c \in Nat
  BY <1>2, <1>5, BlockAfterIs DEF Tiled
<1>7. b < BlockAfter(m, b) /\ BlockAfter(m, b) <= e /\ e \in Nat /\ BlockAfter(m, b) \in Nat
  BY BlockAfterIs
<1>8. BlockAfter(m, c) \in H
  <2>1. BlockAfter(m, c) # e
    BY <1>2, <1>6, <1>7
  <2> QED BY <2>1 DEF Tiled
<1>9. ~(BlockAfter(m, c) < b)
  <2>1. SUFFICES ASSUME BlockAfter(m, c) < b PROVE FALSE
    OBVIOUS
  <2>2. b - BlockAfter(m, c) \in T
    BY <1>1, <1>8, <2>1
  <2>3. d <= b - BlockAfter(m, c)
    BY <1>4, <2>2
  <2> QED BY <1>2, <1>5, <1>6, <2>1, <2>3
<1> QED BY <1>2, <1>5, <1>6, <1>9

\* The links of the blocks F are in the memory, each in a word of its own.
Apart(F) ==
  /\ F \subseteq Addr
  /\ \A b \in F : b + 1 \in Addr /\ b + 2 \in Addr
  /\ \A b, c \in F : b + 1 # c + 2

LinkWords(F) == {b + 1 : b \in F} \cup {b + 2 : b \in F}

\* Between m and t nothing is written but links of the blocks F.
OnlyLinks(m, t, F) == \A x \in Addr : x \notin LinkWords(F) => t[x] = m[x]

\* The blocks that have room for links.
Big(m, H) == {c \in H : m[c].n >= 4}

LEMMA BigBlockIs ==
  ASSUME NEW m, NEW H, NEW e, Tiled(m, H, e), NEW b \in Big(m, H)
  PROVE  /\ b \in H /\ b \in Addr /\ b \in Nat /\ b >= 1 /\ m[b] \in Cell
         /\ m[b].n \in Nat /\ m[b].n >= 4 /\ BlockAfter(m, b) = b + m[b].n
         /\ BlockAfter(m, b) - 1 \in Addr
         /\ \A x \in Nat : b <= x /\ x < BlockAfter(m, b) => x \in Addr
<1>1. /\ b \in H /\ m[b].n >= 4 /\ b \in Addr /\ b \in Nat /\ b >= 1 /\ m[b] \in Cell
      /\ m[b].n \in Nat /\ BlockAfter(m, b) = b + m[b].n /\ BlockAfter(m, b) \in Nat
      /\ BlockAfter(m, b) <= e /\ e \in Nat /\ e <= MaxWords + 1
  BY BlockAfterIs DEF Big
<1>2. \A x \in Nat : b <= x /\ x < BlockAfter(m, b) => x \in Addr
  BY <1>1, AddrIs DEF Addr
<1>3. PICK x \in Nat : x = BlockAfter(m, b) - 1
  BY <1>1
<1>4. b <= x /\ x < BlockAfter(m, b)
  BY <1>1, <1>3
<1> QED BY <1>1, <1>2, <1>3, <1>4

LEMMA BigLinkWordIn ==
  ASSUME NEW m, NEW H, NEW e, Tiled(m, H, e), NEW F, F \subseteq Big(m, H), NEW b \in H,
         NEW x \in LinkWords(F), b <= x, x < BlockAfter(m, b)
  PROVE  b \in F /\ (x = b + 1 \/ x = b + 2)
<1>1. PICK c \in F : x = c + 1 \/ x = c + 2
  BY DEF LinkWords
<1>2. /\ c \in H /\ c \in Nat /\ m[c].n \in Nat /\ m[c].n >= 4 /\ BlockAfter(m, c) = c + m[c].n
  BY BigBlockIs
<1>3. x \in Nat /\ c <= x /\ x < BlockAfter(m, c)
  BY <1>1, <1>2
<1>4. b = c
  BY <1>2, <1>3, OneBlock
<1> QED BY <1>1, <1>4

LEMMA BigApart ==
  ASSUME NEW m, NEW H, NEW e, Tiled(m, H, e), NEW F, F \subseteq Big(m, H)
  PROVE  Apart(F) /\ \A x \in LinkWords(F) : x \notin H
<1>1. ASSUME NEW b \in F
      PROVE  /\ b \in Addr /\ b + 1 \in Addr /\ b + 2 \in Addr
             /\ b + 1 \notin H /\ b + 2 \notin H
  <2>1. /\ b \in H /\ b \in Nat /\ b \in Addr /\ m[b].n \in Nat /\ m[b].n >= 4
        /\ BlockAfter(m, b) = b + m[b].n
        /\ \A x \in Nat : b <= x /\ x < BlockAfter(m, b) => x \in Addr
    BY BigBlockIs
  <2>2. ASSUME NEW x \in H, x = b + 1 \/ x = b + 2 PROVE FALSE
    <3>1. x >= BlockAfter(m, b)
      BY <2>1, <2>2, NoHeaderInside
    <3> QED BY <2>1, <2>2, <3>1
  <2>3. b + 1 \in Addr /\ b + 2 \in Addr
    BY <2>1
  <2> QED BY <2>1, <2>2, <2>3
<1>2. ASSUME NEW b \in F, NEW c \in F, b + 1 = c + 2 PROVE FALSE
  <2>1. b \in H /\ b \in Nat /\ m[b].n \in Nat /\ m[b].n >= 4 /\ BlockAfter(m, b) = b + m[b].n
    BY BigBlockIs
  <2>2. PICK x \in Nat : x = b + 1
    BY <2>1
  <2>3. x \in LinkWords({c}) /\ {c} \subseteq Big(m, H)
    BY <1>2, <2>2 DEF LinkWords
  <2>4. b \in {c}
    BY <2>1, <2>2, <2>3, BigLinkWordIn
  <2> QED BY <1>2, <2>1, <2>4
<1>3. Apart(F)
  BY <1>1, <1>2 DEF Apart
<1> QED BY <1>1, <1>3 DEF LinkWords

LEMMA FreeBlockIs ==
  ASSUME NEW m, NEW H, NEW e, Heap(m, H, e), NEW b \in FreeIn(m, H)
  PROVE  /\ b \in H /\ m[b].ta = 0 /\ b \in Addr /\ b \in Nat /\ b >= 1 /\ m[b] \in Cell
         /\ m[b].n \in Nat /\ m[b].n >= 4 /\ BlockAfter(m, b) = b + m[b].n
         /\ BlockAfter(m, b) \in H /\ BlockAfter(m, b) \in Addr /\ m[BlockAfter(m, b)].ta = 1
         /\ m[BlockAfter(m, b)].pa = 0 /\ m[BlockAfter(m, b) - 1].n = m[b].n
         /\ b + 1 \in Addr /\ b + 2 \in Addr /\ BlockAfter(m, b) - 1 \in Addr
<1>1. /\ Tiled(m, H, e) /\ b \in H /\ m[b].ta = 0
  BY DEF Heap, FreeIn
<1>2. /\ m[b].n >= 4 /\ BlockAfter(m, b) \in H /\ m[BlockAfter(m, b)].ta = 1
      /\ m[BlockAfter(m, b)].pa = m[b].ta /\ m[BlockAfter(m, b) - 1].n = m[b].n
  BY <1>1 DEF Heap, Marked, MinBlock
<1>3. /\ b \in Addr /\ b \in Nat /\ b >= 1 /\ m[b] \in Cell /\ m[b].n \in Nat
      /\ BlockAfter(m, b) = b + m[b].n
  BY <1>1, BlockAfterIs
<1>4. BlockAfter(m, b) \in Addr
  BY <1>1, <1>2, BlockAfterIs
<1>5. \A x \in Nat : x >= b /\ x <= BlockAfter(m, b) => x \in Addr
  BY <1>3, <1>4, CodeMemoryAssumption DEF Addr
<1>6. b + 1 \in Addr /\ b + 2 \in Addr /\ BlockAfter(m, b) - 1 \in Addr
  BY <1>2, <1>3, <1>5
<1> QED BY <1>1, <1>2, <1>3, <1>4, <1>6

LEMMA FreeIsBig ==
  ASSUME NEW m, NEW H, NEW e, Heap(m, H, e)
  PROVE  FreeIn(m, H) \subseteq Big(m, H)
BY FreeBlockIs DEF Big

LEMMA FreeApart ==
  ASSUME NEW m, NEW H, NEW e, Heap(m, H, e)
  PROVE  /\ Apart(FreeIn(m, H))
         /\ \A x \in LinkWords(FreeIn(m, H)) : x \notin H
BY FreeIsBig, BigApart DEF Heap

-----------------------------------------------------------------------------
(***************************************************************************)
(* Code memory: the free list.                                             *)
(***************************************************************************)
Bypasses(F, nx, pv, b, ny, pw) ==
  \A c \in F \ {b} : /\ ny[c] = IF c = pv[b] THEN nx[b] ELSE nx[c]
                     /\ pw[c] = IF c = nx[b] THEN pv[b] ELSE pv[c]

LEMMA RingLeaves ==
  ASSUME NEW F, NEW nx, NEW pv, Ring(F, nx, pv), NEW b \in F, F # {b}, NEW ny, NEW pw,
         Bypasses(F, nx, pv, b, ny, pw)
  PROVE  Ring(F \ {b}, ny, pw) /\ nx[b] \in F \ {b} /\ pv[b] \in F \ {b}
<1>0. \A c \in F \ {b} : /\ ny[c] = IF c = pv[b] THEN nx[b] ELSE nx[c]
                         /\ pw[c] = IF c = nx[b] THEN pv[b] ELSE pv[c]
  BY DEF Bypasses
<1>1. \A c \in F : nx[c] \in F /\ pv[c] \in F /\ pv[nx[c]] = c /\ nx[pv[c]] = c
  BY DEF Ring
<1>2. nx[b] # b
  <2>1. SUFFICES ASSUME nx[b] = b PROVE FALSE
    OBVIOUS
  <2>2. {b} \in SUBSET F /\ {b} # {} /\ \A c \in {b} : nx[c] \in {b}
    BY <2>1
  <2>3. {b} = F
    BY <2>2 DEF Ring
  <2> QED BY <2>3
<1>3. pv[b] # b
  BY <1>1, <1>2
<1>4. ASSUME NEW c \in F \ {b}
      PROVE  ny[c] \in F \ {b} /\ pw[c] \in F \ {b} /\ pw[ny[c]] = c /\ ny[pw[c]] = c
  <2>1. CASE c = pv[b]
    <3>1. ny[c] = nx[b] /\ pw[nx[b]] = pv[b]
      BY <1>0, <1>1, <1>2, <2>1
    <3>2. ny[pw[c]] = c
      <4>1. CASE c = nx[b]
        BY <1>0, <1>1, <1>2, <1>3, <2>1, <4>1
      <4>2. CASE c # nx[b]
        <5>1. pw[c] = pv[c] /\ pv[c] # pv[b] /\ pv[c] # b /\ pv[c] \in F
          BY <1>0, <1>1, <2>1, <4>2
        <5> QED BY <1>0, <1>1, <5>1
      <4> QED BY <4>1, <4>2
    <3>3. pw[c] \in F \ {b}
      BY <1>0, <1>1, <1>2, <1>3, <2>1
    <3> QED BY <1>0, <1>1, <1>2, <2>1, <3>1, <3>2, <3>3
  <2>2. CASE c # pv[b]
    <3>1. ny[c] = nx[c] /\ nx[c] \in F /\ nx[c] # b
      BY <1>0, <1>1, <2>2
    <3>2. nx[c] # nx[b]
      BY <1>1
    <3>3. pw[nx[c]] = c
      BY <1>0, <1>1, <3>1, <3>2
    <3>4. CASE c = nx[b]
      <4>1. pw[c] = pv[b] /\ ny[pv[b]] = nx[b]
        BY <1>0, <1>1, <1>3, <3>4
      <4> QED BY <1>0, <1>1, <1>3, <3>1, <3>3, <3>4, <4>1
    <3>5. CASE c # nx[b]
      <4>1. pw[c] = pv[c] /\ pv[c] \in F /\ pv[c] # b /\ pv[c] # pv[b]
        BY <1>0, <1>1, <3>5
      <4> QED BY <1>0, <1>1, <3>1, <3>3, <4>1
    <3> QED BY <3>4, <3>5
  <2> QED BY <2>1, <2>2
<1>5. ASSUME NEW S \in SUBSET (F \ {b}), S # {}, \A c \in S : ny[c] \in S PROVE S = F \ {b}
  <2>1. CASE pv[b] \in S
    <3>1. nx[b] \in S
      BY <1>0, <1>3, <1>5, <2>1
    <3>2. \A c \in S \cup {b} : nx[c] \in S \cup {b}
      BY <1>0, <1>1, <1>5, <3>1
    <3>3. S \cup {b} \in SUBSET F /\ S \cup {b} # {}
      OBVIOUS
    <3>4. S \cup {b} = F
      BY <3>2, <3>3 DEF Ring
    <3> QED BY <3>4
  <2>2. CASE pv[b] \notin S
    <3>1. \A c \in S : nx[c] \in S
      BY <1>0, <1>5, <2>2
    <3>2. S = F
      BY <1>5, <3>1 DEF Ring
    <3> QED BY <1>1, <2>2, <3>2
  <2> QED BY <2>1, <2>2
<1>6. Ring(F \ {b}, ny, pw)
  BY <1>4, <1>5 DEF Ring
<1> QED BY <1>0, <1>1, <1>2, <1>3, <1>6

LEMMA RingEnters ==
  ASSUME NEW F, NEW nx, NEW pv, Ring(F, nx, pv), NEW list \in F, NEW b, b \notin F, NEW ny, NEW pw,
         \A c \in F \cup {b} : ny[c] = IF c = b THEN list ELSE IF c = pv[list] THEN b ELSE nx[c],
         \A c \in F \cup {b} : pw[c] = IF c = b THEN pv[list] ELSE IF c = list THEN b ELSE pv[c]
  PROVE  Ring(F \cup {b}, ny, pw)
<1>1. \A c \in F : nx[c] \in F /\ pv[c] \in F /\ pv[nx[c]] = c /\ nx[pv[c]] = c
  BY DEF Ring
<1>2. /\ ny[b] = list /\ pw[b] = pv[list] /\ pv[list] \in F
      /\ pw[list] = b /\ ny[pv[list]] = b
  BY <1>1
<1>3. ASSUME NEW c \in F, c # pv[list] PROVE ny[c] = nx[c] /\ nx[c] \in F /\ pw[nx[c]] = c
  <2>1. ny[c] = nx[c] /\ nx[c] \in F /\ nx[c] # list
    BY <1>1, <1>3
  <2> QED BY <1>1, <2>1
<1>4. ASSUME NEW c \in F, c # list PROVE pw[c] = pv[c] /\ pv[c] \in F /\ ny[pv[c]] = c
  <2>1. pw[c] = pv[c] /\ pv[c] \in F /\ pv[c] # pv[list]
    BY <1>1, <1>4
  <2> QED BY <1>1, <2>1
<1>5. \A c \in F \cup {b} : /\ ny[c] \in F \cup {b} /\ pw[c] \in F \cup {b}
                            /\ pw[ny[c]] = c /\ ny[pw[c]] = c
  BY <1>2, <1>3, <1>4
<1>6. ASSUME NEW S \in SUBSET (F \cup {b}), S # {}, \A c \in S : ny[c] \in S PROVE S = F \cup {b}
  <2>1. CASE b \in S
    <3>1. list \in S
      BY <1>2, <1>6, <2>1
    <3>2. \A c \in S \ {b} : nx[c] \in S \ {b}
      BY <1>1, <1>3, <1>6, <3>1
    <3>3. S \ {b} \in SUBSET F /\ S \ {b} # {}
      BY <3>1
    <3>4. S \ {b} = F
      BY <3>2, <3>3 DEF Ring
    <3> QED BY <2>1, <3>4
  <2>2. CASE b \notin S
    <3>1. \A c \in S : c \in F /\ c # pv[list]
      BY <1>2, <1>6, <2>2
    <3>2. \A c \in S : nx[c] \in S
      BY <1>3, <1>6, <3>1
    <3>3. S = F
      BY <1>6, <3>1, <3>2 DEF Ring
    <3> QED BY <1>1, <3>1, <3>3
  <2> QED BY <2>1, <2>2
<1> QED BY <1>5, <1>6 DEF Ring

LEMMA LinkedSame ==
  ASSUME NEW m, NEW t, NEW F, Linked(m, F),
         \A c \in F : t[c + 1].n = m[c + 1].n /\ t[c + 2].n = m[c + 2].n
  PROVE  Linked(t, F)
<1>1. /\ [c \in F |-> NextOf(t, c)] = [c \in F |-> NextOf(m, c)]
      /\ [c \in F |-> PrevOf(t, c)] = [c \in F |-> PrevOf(m, c)]
  BY DEF NextOf, PrevOf
<1> QED BY <1>1 DEF Linked

LEMMA LinkedLinks ==
  ASSUME NEW m, NEW F, Linked(m, F), NEW b \in F
  PROVE  /\ NextOf(m, b) \in F /\ PrevOf(m, b) \in F
         /\ PrevOf(m, NextOf(m, b)) = b /\ NextOf(m, PrevOf(m, b)) = b
<1>1. PICK nx : nx = [c \in F |-> NextOf(m, c)]
  OBVIOUS
<1>2. PICK pv : pv = [c \in F |-> PrevOf(m, c)]
  OBVIOUS
<1>3. Ring(F, nx, pv)
  BY <1>1, <1>2 DEF Linked
<1>4. nx[b] \in F /\ pv[b] \in F /\ pv[nx[b]] = b /\ nx[pv[b]] = b
  BY <1>3 DEF Ring
<1> QED BY <1>1, <1>2, <1>4

\* RemoveFromFreeList.
LEMMA Unlinks ==
  ASSUME NEW m \in [Addr -> Cell], NEW F, Apart(F), Linked(m, F), NEW b \in F, F # {b},
         NEW t, t = RemoveFromFreeList(m, b)
  PROVE  /\ t \in [Addr -> Cell] /\ Linked(t, F \ {b})
         /\ NextOf(m, b) \in F \ {b} /\ PrevOf(m, b) \in F \ {b}
         /\ OnlyLinks(m, t, F \ {b})
<1>1. PICK nx : nx = [c \in F |-> NextOf(m, c)]
  OBVIOUS
<1>2. PICK pv : pv = [c \in F |-> PrevOf(m, c)]
  OBVIOUS
<1>3. Ring(F, nx, pv)
  BY <1>1, <1>2 DEF Linked
<1>4. PICK s : s = nx[b]
  OBVIOUS
<1>5. PICK p : p = pv[b]
  OBVIOUS
<1>6. s \in F /\ p \in F /\ s = NextOf(m, b) /\ p = PrevOf(m, b)
  BY <1>1, <1>2, <1>3, <1>4, <1>5 DEF Ring
<1>7. /\ \A c \in F : c \in Addr /\ c \in Nat /\ c + 1 \in Addr /\ c + 2 \in Addr
      /\ \A c, d \in F : c + 1 # d + 2
  BY AddrIs DEF Apart
<1>8. t = [m EXCEPT ![s + 1] = Word(p), ![p + 2] = Word(s)]
  BY <1>6 DEF RemoveFromFreeList
<1>9. Word(p) \in Cell /\ Word(s) \in Cell /\ Word(p).n = p /\ Word(s).n = s
  BY <1>6, <1>7 DEF Word, Cell
<1>10. t \in [Addr -> Cell]
  BY <1>6, <1>7, <1>8, <1>9
<1>11. /\ t[s + 1].n = p /\ t[p + 2].n = s
       /\ \A x \in Addr : x # s + 1 /\ x # p + 2 => t[x] = m[x]
  BY <1>6, <1>7, <1>8, <1>9
<1>12. PICK ny : ny = [c \in F \ {b} |-> NextOf(t, c)]
  OBVIOUS
<1>13. PICK pw : pw = [c \in F \ {b} |-> PrevOf(t, c)]
  OBVIOUS
<1>14. ASSUME NEW c \in F \ {b} PROVE ny[c] = IF c = p THEN s ELSE nx[c]
  <2>1. c + 2 \in Addr /\ c + 2 # s + 1 /\ (c + 2 = p + 2 => c = p)
    BY <1>6, <1>7
  <2>2. c # p => t[c + 2] = m[c + 2]
    BY <1>11, <2>1
  <2> QED BY <1>1, <1>11, <1>12, <2>2 DEF NextOf
<1>15. ASSUME NEW c \in F \ {b} PROVE pw[c] = IF c = s THEN p ELSE pv[c]
  <2>1. c + 1 \in Addr /\ c + 1 # p + 2 /\ (c + 1 = s + 1 => c = s)
    BY <1>6, <1>7
  <2>2. c # s => t[c + 1] = m[c + 1]
    BY <1>11, <2>1
  <2> QED BY <1>2, <1>11, <1>13, <2>2 DEF PrevOf
<1>16. Ring(F \ {b}, ny, pw) /\ s \in F \ {b} /\ p \in F \ {b}
  <2>1. Bypasses(F, nx, pv, b, ny, pw)
    BY <1>4, <1>5, <1>14, <1>15 DEF Bypasses
  <2>3. Ring(F \ {b}, ny, pw) /\ nx[b] \in F \ {b} /\ pv[b] \in F \ {b}
    BY <1>3, <2>1, RingLeaves
  <2> QED BY <1>4, <1>5, <2>3
<1>17. OnlyLinks(m, t, F \ {b})
  BY <1>11, <1>16 DEF LinkWords, OnlyLinks
<1> QED BY <1>6, <1>10, <1>12, <1>13, <1>16, <1>17 DEF Linked

\* AddToFreeList.
LEMMA Links ==
  ASSUME NEW m \in [Addr -> Cell], NEW F, NEW b, b \notin F, Apart(F \cup {b}), Linked(m, F),
         NEW list \in F, NEW t, t = AddToFreeList(m, b, list)
  PROVE  /\ t \in [Addr -> Cell] /\ Linked(t, F \cup {b})
         /\ OnlyLinks(m, t, F \cup {b})
<1>1. PICK nx : nx = [c \in F |-> NextOf(m, c)]
  OBVIOUS
<1>2. PICK pv : pv = [c \in F |-> PrevOf(m, c)]
  OBVIOUS
<1>3. Ring(F, nx, pv)
  BY <1>1, <1>2 DEF Linked
<1>4. PICK p : p = pv[list]
  OBVIOUS
<1>5. p \in F /\ p = PrevOf(m, list)
  BY <1>2, <1>3, <1>4 DEF Ring
<1>6. /\ \A c \in F \cup {b} : c \in Addr /\ c \in Nat /\ c + 1 \in Addr /\ c + 2 \in Addr
      /\ \A c, d \in F \cup {b} : c + 1 # d + 2
  BY AddrIs DEF Apart
<1>7. t = [m EXCEPT ![b + 1] = Word(p), ![b + 2] = Word(list), ![p + 2] = Word(b),
                    ![list + 1] = Word(b)]
  BY <1>5 DEF AddToFreeList
<1>8. /\ Word(p) \in Cell /\ Word(list) \in Cell /\ Word(b) \in Cell
      /\ Word(p).n = p /\ Word(list).n = list /\ Word(b).n = b
  BY <1>5, <1>6 DEF Word, Cell
<1>9. t \in [Addr -> Cell]
  BY <1>5, <1>6, <1>7, <1>8
<1>10. b # p /\ b # list /\ b + 1 # list + 1 /\ b + 2 # p + 2
  BY <1>5, <1>6
<1>11. /\ t[b + 1].n = p /\ t[b + 2].n = list /\ t[p + 2].n = b /\ t[list + 1].n = b
       /\ \A x \in Addr : x # b + 1 /\ x # b + 2 /\ x # p + 2 /\ x # list + 1 => t[x] = m[x]
  BY <1>5, <1>6, <1>7, <1>8, <1>10
<1>12. PICK ny : ny = [c \in F \cup {b} |-> NextOf(t, c)]
  OBVIOUS
<1>13. PICK pw : pw = [c \in F \cup {b} |-> PrevOf(t, c)]
  OBVIOUS
<1>14. ASSUME NEW c \in F \cup {b}
       PROVE  ny[c] = IF c = b THEN list ELSE IF c = p THEN b ELSE nx[c]
  <2>1. CASE c = b
    BY <1>11, <1>12, <2>1 DEF NextOf
  <2>2. CASE c = p
    BY <1>10, <1>11, <1>12, <2>2 DEF NextOf
  <2>3. CASE c # b /\ c # p
    <3>1. c \in F
      BY <2>3
    <3>2. c + 2 \in Addr /\ c + 2 # b + 1 /\ c + 2 # list + 1 /\ c + 2 # b + 2 /\ c + 2 # p + 2
      BY <1>5, <1>6, <2>3
    <3>3. t[c + 2] = m[c + 2]
      BY <1>11, <3>2
    <3> QED BY <1>1, <1>12, <2>3, <3>1, <3>3 DEF NextOf
  <2> QED BY <2>1, <2>2, <2>3
<1>15. ASSUME NEW c \in F \cup {b}
       PROVE  pw[c] = IF c = b THEN p ELSE IF c = list THEN b ELSE pv[c]
  <2>1. CASE c = b
    BY <1>11, <1>13, <2>1 DEF PrevOf
  <2>2. CASE c = list
    BY <1>10, <1>11, <1>13, <2>2 DEF PrevOf
  <2>3. CASE c # b /\ c # list
    <3>1. c \in F
      BY <2>3
    <3>2. c + 1 \in Addr /\ c + 1 # b + 2 /\ c + 1 # p + 2 /\ c + 1 # b + 1 /\ c + 1 # list + 1
      BY <1>5, <1>6, <2>3
    <3>3. t[c + 1] = m[c + 1]
      BY <1>11, <3>2
    <3> QED BY <1>2, <1>13, <2>3, <3>1, <3>3 DEF PrevOf
  <2> QED BY <2>1, <2>2, <2>3
<1>16. Ring(F \cup {b}, ny, pw)
  BY <1>3, <1>4, <1>14, <1>15, RingEnters
<1>17. OnlyLinks(m, t, F \cup {b})
  BY <1>5, <1>11 DEF LinkWords, OnlyLinks
<1> QED BY <1>9, <1>12, <1>13, <1>16, <1>17 DEF Linked

-----------------------------------------------------------------------------
(***************************************************************************)
(* Code memory: what the operations on blocks do.                          *)
(***************************************************************************)
LEMMA HeapSame ==
  ASSUME NEW m, NEW H, NEW e, Heap(m, H, e), NEW t \in [Addr -> Cell],
         \A b \in H : t[b].ta = m[b].ta /\ t[b].pa = m[b].pa /\ t[b].n = m[b].n,
         \A b \in FreeIn(m, H) : t[BlockAfter(m, b) - 1].n = m[BlockAfter(m, b) - 1].n
  PROVE  Heap(t, H, e) /\ FreeIn(t, H) = FreeIn(m, H)
<1>1. \A b \in H : BlockAfter(t, b) = BlockAfter(m, b)
  BY DEF BlockAfter
<1>2. Tiled(m, H, e) /\ Marked(m, H)
  BY DEF Heap
<1>3. Tiled(t, H, e)
  BY <1>1, <1>2 DEF Tiled
<1>4. FreeIn(t, H) = FreeIn(m, H)
  BY DEF FreeIn
<1>5. \A b \in H : BlockAfter(t, b) \in H => t[BlockAfter(t, b)].pa = t[b].ta
  BY <1>1, <1>2 DEF Marked
<1>6. ASSUME NEW b \in H, t[b].ta = 0
      PROVE  /\ t[b].n >= MinBlock
             /\ BlockAfter(t, b) \in H /\ t[BlockAfter(t, b)].ta = 1
             /\ t[BlockAfter(t, b) - 1].n = t[b].n
  <2>1. b \in FreeIn(m, H)
    BY <1>6 DEF FreeIn
  <2> QED BY <1>1, <1>2, <1>6, <2>1 DEF Marked
<1>7. t[1].pa = 1
  BY <1>2 DEF Marked, Tiled
<1> QED BY <1>3, <1>4, <1>5, <1>6, <1>7 DEF Heap, Marked

LEMMA LinkWordIn ==
  ASSUME NEW m, NEW H, NEW e, Heap(m, H, e), NEW b \in H, NEW x \in LinkWords(FreeIn(m, H)),
         b <= x, x < BlockAfter(m, b)
  PROVE  b \in FreeIn(m, H) /\ (x = b + 1 \/ x = b + 2)
BY FreeIsBig, BigLinkWordIn DEF Heap

\* Links may be written without harm.
LEMMA Relinks ==
  ASSUME NEW m, NEW H, NEW e, Heap(m, H, e), NEW t \in [Addr -> Cell],
         NEW L, L \subseteq FreeIn(m, H), OnlyLinks(m, t, L)
  PROVE  /\ Heap(t, H, e) /\ FreeIn(t, H) = FreeIn(m, H)
         /\ \A b \in H : t[b] = m[b]
         /\ Kept(m, t, H, TakenIn(m, H))
<1>0. \A x \in Addr : x \notin LinkWords(FreeIn(m, H)) => t[x] = m[x]
  BY DEF LinkWords, OnlyLinks
<1>1. H \subseteq Addr
  BY DEF Heap, Tiled
<1>2. \A b \in H : t[b] = m[b]
  BY <1>0, <1>1, FreeApart
<1>3. ASSUME NEW b \in FreeIn(m, H)
      PROVE  t[BlockAfter(m, b) - 1].n = m[BlockAfter(m, b) - 1].n
  <2>1. PICK x : x = BlockAfter(m, b) - 1
    OBVIOUS
  <2>2. /\ b \in H /\ b \in Nat /\ m[b].n \in Nat /\ m[b].n >= 4 /\ BlockAfter(m, b) = b + m[b].n
        /\ BlockAfter(m, b) - 1 \in Addr
    BY FreeBlockIs
  <2>3. b <= x /\ x < BlockAfter(m, b) /\ x # b + 1 /\ x # b + 2 /\ x \in Addr
    BY <2>1, <2>2
  <2>4. x \notin LinkWords(FreeIn(m, H))
    BY <2>2, <2>3, LinkWordIn
  <2> QED BY <1>0, <2>1, <2>3, <2>4
<1>4. Heap(t, H, e) /\ FreeIn(t, H) = FreeIn(m, H)
  BY <1>2, <1>3, HeapSame
<1>5. ASSUME NEW b \in TakenIn(m, H), NEW x \in (b + 1)..(BlockAfter(m, b) - 1) PROVE t[x] = m[x]
  <2>1. b \in H /\ b \notin FreeIn(m, H) /\ Tiled(m, H, e)
    BY DEF TakenIn, FreeIn, Heap
  <2>2. /\ b \in Nat /\ b >= 1 /\ BlockAfter(m, b) \in Nat /\ BlockAfter(m, b) <= e
        /\ e \in Nat /\ e <= MaxWords + 1
    BY <2>1, BlockAfterIs
  <2>3. x \in Addr /\ b <= x /\ x < BlockAfter(m, b)
    BY <2>2, AddrIs DEF Addr
  <2>4. x \notin LinkWords(FreeIn(m, H))
    BY <2>1, <2>3, LinkWordIn
  <2> QED BY <1>0, <2>3, <2>4
<1>6. \A b \in TakenIn(m, H) : b \in H /\ m[b].ta = 1
  BY DEF TakenIn
<1>7. Kept(m, t, H, TakenIn(m, H))
  BY <1>2, <1>5, <1>6 DEF Kept
<1> QED BY <1>2, <1>4, <1>7

LEMMA KeptKept ==
  ASSUME NEW m, NEW s, NEW t, NEW H, NEW J, NEW K, NEW L, Kept(m, s, H, K), Kept(s, t, J, L),
         K \subseteq L
  PROVE  Kept(m, t, J, K)
<1>1. \A c \in K : s[c].n = m[c].n /\ BlockAfter(s, c) = BlockAfter(m, c)
  BY DEF Kept, BlockAfter
<1> QED BY <1>1 DEF Kept

\* A free block is marked as allocated, here and in the next.
Took(m, b) == [m EXCEPT ![b].ta = 1, ![BlockAfter(m, b)].pa = 1]

LEMMA Takes ==
  ASSUME NEW m, NEW H, NEW e, Heap(m, H, e), NEW b \in FreeIn(m, H),
         NEW t, t = Took(m, b)
  PROVE  /\ Heap(t, H, e) /\ FreeIn(t, H) = FreeIn(m, H) \ {b}
         /\ t[b].ta = 1 /\ \A x \in Addr : t[x].n = m[x].n
         /\ \A x \in Addr : x \notin H => t[x] = m[x]
         /\ \A x \in H : x # b => t[x].ta = m[x].ta
<1>1. PICK d : d = BlockAfter(m, b)
  OBVIOUS
<1>2. /\ b \in H /\ m[b].ta = 0 /\ b \in Addr /\ b \in Nat
      /\ m[b].n \in Nat /\ m[b].n >= 4 /\ d = b + m[b].n
      /\ d \in H /\ d \in Addr /\ m[d].ta = 1
  BY <1>1, FreeBlockIs
<1>3. /\ m \in [Addr -> Cell] /\ H \subseteq Addr /\ 1 \in H /\ Tiled(m, H, e) /\ Marked(m, H)
  BY DEF Heap, Tiled
<1>4. b # d
  BY <1>2
<1>5. /\ t \in [Addr -> Cell] /\ t[b].ta = 1 /\ t[b].pa = m[b].pa /\ t[d].pa = 1 /\ t[d].ta = 1
      /\ \A x \in Addr : x # b /\ x # d => t[x] = m[x]
      /\ \A x \in Addr : t[x].n = m[x].n
  BY <1>1, <1>2, <1>3, <1>4 DEF Cell, Took
<1>6. \A c \in H : BlockAfter(t, c) = BlockAfter(m, c)
  BY <1>3, <1>5 DEF BlockAfter
<1>7. Tiled(t, H, e)
  BY <1>3, <1>5, <1>6 DEF Tiled
<1>8. FreeIn(t, H) = FreeIn(m, H) \ {b}
  <2>1. \A c \in H : c # b => t[c].ta = m[c].ta
    BY <1>2, <1>3, <1>5
  <2> QED BY <1>5, <2>1 DEF FreeIn
<1>9. \A c \in H : BlockAfter(t, c) = d => c = b
  <2>1. SUFFICES ASSUME NEW c \in H, BlockAfter(m, c) = d PROVE c = b
    BY <1>6
  <2>2. /\ c \in Nat /\ m[c].n \in Nat /\ m[c].n >= 1 /\ BlockAfter(m, c) = c + m[c].n
    BY <1>3, BlockAfterIs
  <2>3. PICK x \in Nat : x = d - 1
    BY <1>2
  <2>4. c <= x /\ x < BlockAfter(m, c) /\ b <= x /\ x < BlockAfter(m, b)
    BY <1>1, <1>2, <2>1, <2>2, <2>3
  <2> QED BY <1>2, <1>3, <2>4, OneBlock
<1>10. ASSUME NEW c \in H, BlockAfter(t, c) \in H PROVE t[BlockAfter(t, c)].pa = t[c].ta
  <2>1. CASE c = b
    BY <1>1, <1>5, <1>6, <2>1
  <2>2. CASE c # b
    <3>1. BlockAfter(t, c) # d
      BY <1>9, <2>2
    <3>2. t[BlockAfter(t, c)].pa = m[BlockAfter(t, c)].pa
      BY <1>3, <1>5, <1>10, <3>1
    <3>3. t[c].ta = m[c].ta
      BY <1>2, <1>3, <1>5, <2>2
    <3> QED BY <1>3, <1>6, <1>10, <3>2, <3>3 DEF Marked
  <2> QED BY <2>1, <2>2
<1>11. ASSUME NEW c \in H, t[c].ta = 0
       PROVE  /\ t[c].n >= MinBlock
              /\ BlockAfter(t, c) \in H /\ t[BlockAfter(t, c)].ta = 1
              /\ t[BlockAfter(t, c) - 1].n = t[c].n
  <2>1. c \in FreeIn(m, H)
    BY <1>2, <1>3, <1>5, <1>11 DEF FreeIn
  <2>2. /\ m[c].n >= 4 /\ BlockAfter(m, c) \in H /\ m[BlockAfter(m, c)].ta = 1
        /\ m[BlockAfter(m, c) - 1].n = m[c].n /\ BlockAfter(m, c) - 1 \in Addr
    BY <2>1, FreeBlockIs
  <2>3. t[BlockAfter(m, c)].ta = 1
    BY <1>2, <1>3, <1>5, <2>2
  <2>4. t[c].n = m[c].n /\ t[BlockAfter(m, c) - 1].n = m[BlockAfter(m, c) - 1].n
    BY <1>3, <1>5, <2>2
  <2> QED BY <1>6, <2>2, <2>3, <2>4 DEF MinBlock
<1>12. t[1].pa = 1
  BY <1>2, <1>3, <1>5 DEF Marked
<1>13. Heap(t, H, e)
  BY <1>7, <1>10, <1>11, <1>12 DEF Heap, Marked
<1>14. \A x \in Addr : x \notin H => t[x] = m[x]
  BY <1>2, <1>5
<1>15. \A x \in H : x # b => t[x].ta = m[x].ta
  BY <1>2, <1>3, <1>5
<1> QED BY <1>5, <1>8, <1>13, <1>14, <1>15

\* AllocateBlock.
LEMMA Allocates ==
  ASSUME NEW m, NEW list, NEW H, NEW e, Sane(m, list, H, e), NEW b \in FreeIn(m, H), b # Mem2,
         NEW g, g = AllocateBlock(m, b)
  PROVE  /\ Sane(g.mem, g.list, H, e) /\ FreeIn(g.mem, H) = FreeIn(m, H) \ {b}
         /\ Kept(m, g.mem, H, TakenIn(m, H))
         /\ b \in TakenIn(g.mem, H) /\ g.mem[b].n = m[b].n
<1>1. PICK s : s = Took(m, b)
  OBVIOUS
<1>2. /\ g.mem = RemoveFromFreeList(s, b) /\ g.list = NextOf(m, b)
  BY <1>1 DEF AllocateBlock, Took
<1>3. /\ Heap(m, H, e) /\ Linked(m, FreeIn(m, H)) /\ Mem2 \in FreeIn(m, H)
      /\ Mem2 \in H /\ m[Mem2].n = MinBlock /\ b \in H /\ m \in [Addr -> Cell] /\ H \subseteq Addr
  BY DEF Sane, Tomb, FreeIn, Heap, Tiled
<1>4. /\ Heap(s, H, e) /\ FreeIn(s, H) = FreeIn(m, H) \ {b}
      /\ s[b].ta = 1 /\ \A x \in Addr : s[x].n = m[x].n
      /\ \A x \in Addr : x \notin H => s[x] = m[x]
      /\ \A x \in H : x # b => s[x].ta = m[x].ta
  BY <1>1, <1>3, Takes
<1>5. s \in [Addr -> Cell]
  BY <1>4 DEF Heap, Tiled
<1>6. Apart(FreeIn(m, H))
  BY <1>3, FreeApart
<1>7. Linked(s, FreeIn(m, H))
  <2>1. \A c \in FreeIn(m, H) : s[c + 1].n = m[c + 1].n /\ s[c + 2].n = m[c + 2].n
    BY <1>4, <1>6 DEF Apart
  <2> QED BY <1>3, <2>1, LinkedSame
<1>8. FreeIn(m, H) # {b}
  BY <1>3
<1>9. PICK t : t = g.mem
  OBVIOUS
<1>10. /\ t \in [Addr -> Cell] /\ Linked(t, FreeIn(m, H) \ {b})
       /\ NextOf(s, b) \in FreeIn(m, H) \ {b}
       /\ OnlyLinks(s, t, FreeIn(m, H) \ {b})
  <2>1. t = RemoveFromFreeList(s, b)
    BY <1>2, <1>9
  <2> QED BY <1>5, <1>6, <1>7, <1>8, <2>1, Unlinks
<1>11. /\ Heap(t, H, e) /\ FreeIn(t, H) = FreeIn(s, H)
       /\ \A x \in H : t[x] = s[x]
       /\ Kept(s, t, H, TakenIn(s, H))
  BY <1>4, <1>10, Relinks
<1>12. NextOf(s, b) = NextOf(m, b)
  BY <1>3, <1>4, <1>6 DEF NextOf, Apart
<1>13. Tomb(t, H)
  BY <1>3, <1>4, <1>11 DEF Tomb, FreeIn
<1>14. Sane(t, g.list, H, e)
  BY <1>2, <1>4, <1>10, <1>11, <1>12, <1>13 DEF Sane
<1>15. Kept(m, s, H, TakenIn(m, H))
  <2>1. ASSUME NEW c \in TakenIn(m, H), NEW x \in (c + 1)..(BlockAfter(m, c) - 1) PROVE s[x] = m[x]
    <3>1. c \in H /\ c \notin FreeIn(m, H) /\ Tiled(m, H, e)
      BY <1>3 DEF TakenIn, FreeIn, Heap
    <3>2. /\ c \in Nat /\ c >= 1 /\ BlockAfter(m, c) \in Nat /\ BlockAfter(m, c) <= e
          /\ e \in Nat /\ e <= MaxWords + 1
      BY <3>1, BlockAfterIs
    <3>3. x \in Addr /\ c < x /\ x < BlockAfter(m, c)
      BY <3>2, AddrIs DEF Addr
    <3>4. x \notin H
      BY <3>1, <3>2, <3>3, NoHeaderInside
    <3> QED BY <1>4, <3>3, <3>4
  <2>2. \A c \in TakenIn(m, H) : c \in H /\ s[c].ta = 1 /\ s[c].n = m[c].n
    BY <1>3, <1>4 DEF TakenIn
  <2> QED BY <2>1, <2>2 DEF Kept
<1>16. TakenIn(m, H) \subseteq TakenIn(s, H)
  BY <1>4 DEF TakenIn
<1>17. Kept(m, t, H, TakenIn(m, H))
  BY <1>11, <1>15, <1>16, KeptKept
<1>18. b \in TakenIn(t, H) /\ t[b].n = m[b].n
  BY <1>3, <1>4, <1>11 DEF TakenIn
<1> QED BY <1>4, <1>9, <1>11, <1>14, <1>17, <1>18

LEMMA OneBefore ==
  ASSUME NEW m, NEW H, NEW e, Tiled(m, H, e), NEW b \in H, NEW c \in H,
         BlockAfter(m, b) = BlockAfter(m, c)
  PROVE  b = c
<1>1. /\ b \in Nat /\ m[b].n \in Nat /\ m[b].n >= 1 /\ BlockAfter(m, b) = b + m[b].n
      /\ c \in Nat /\ m[c].n \in Nat /\ m[c].n >= 1 /\ BlockAfter(m, c) = c + m[c].n
  BY BlockAfterIs
<1>2. PICK j \in Nat : j = m[b].n
  BY <1>1
<1>3. PICK k \in Nat : k = m[c].n
  BY <1>1
<1>4. BlockAfter(m, b) = b + j /\ BlockAfter(m, b) = c + k /\ j >= 1 /\ k >= 1
  BY <1>1, <1>2, <1>3
<1>5. PICK x \in Nat : x = (b + j) - 1
  BY <1>1, <1>4
<1>6. b <= x /\ x < BlockAfter(m, b) /\ c <= x /\ x < BlockAfter(m, c)
  BY <1>1, <1>4, <1>5
<1> QED BY <1>6, OneBlock

LEMMA MarkerNoHeader ==
  ASSUME NEW m, NEW H, NEW e, Heap(m, H, e), NEW b \in FreeIn(m, H)
  PROVE  BlockAfter(m, b) - 1 \notin H
<1>1. /\ b \in H /\ b \in Nat /\ m[b].n \in Nat /\ m[b].n >= 4 /\ BlockAfter(m, b) = b + m[b].n
  BY FreeBlockIs
<1>2. ASSUME NEW x \in H, x = BlockAfter(m, b) - 1 PROVE FALSE
  <2>1. x >= BlockAfter(m, b)
    BY <1>1, <1>2, NoHeaderInside DEF Heap
  <2> QED BY <1>1, <1>2, <2>1
<1> QED BY <1>2

\* Between m and t only headers, links of F and the block at b are written.
Elsewhere(m, t, H, F, b) ==
  \A x \in Addr : x \notin H /\ x \notin LinkWords(F) /\ ~(b <= x /\ x < BlockAfter(m, b))
                => t[x] = m[x]

LEMMA KeepsOthers ==
  ASSUME NEW m, NEW H, NEW e, Tiled(m, H, e), NEW b \in H, NEW t, NEW J, NEW K, NEW F,
         F \subseteq Big(m, H), K \subseteq TakenIn(m, H) \ ({b} \cup F),
         \A c \in K : c \in J /\ t[c].ta = 1 /\ t[c].n = m[c].n,
         Elsewhere(m, t, H, F, b)
  PROVE  Kept(m, t, J, K)
<1>1. ASSUME NEW c \in K, NEW x \in (c + 1)..(BlockAfter(m, c) - 1) PROVE t[x] = m[x]
  <2>1. c \in H /\ c # b /\ c \notin F
    BY DEF TakenIn
  <2>2. /\ c \in Nat /\ c >= 1 /\ BlockAfter(m, c) \in Nat /\ BlockAfter(m, c) <= e
        /\ e \in Nat /\ e <= MaxWords + 1
    BY <2>1, BlockAfterIs
  <2>3. x \in Addr /\ x \in Nat /\ c < x /\ c <= x /\ x < BlockAfter(m, c)
    BY <2>2, AddrIs DEF Addr
  <2>4. x \notin H
    BY <2>1, <2>2, <2>3, NoHeaderInside
  <2>5. ~(b <= x /\ x < BlockAfter(m, b))
    BY <2>1, <2>3, OneBlock
  <2>6. x \notin LinkWords(F)
    BY <2>1, <2>3, BigLinkWordIn
  <2> QED BY <2>3, <2>4, <2>5, <2>6 DEF Elsewhere
<1> QED BY <1>1 DEF Kept

\* An allocated block takes in the block behind it, which is free.
Joined(m, b) ==
  [m EXCEPT ![b].n = m[b].n + m[BlockAfter(m, b)].n,
            ![b + m[b].n + m[BlockAfter(m, b)].n].pa = 1]

LEMMA Joins ==
  ASSUME NEW m, NEW H, NEW e, Heap(m, H, e), NEW b \in TakenIn(m, H),
         NEW c \in FreeIn(m, H), c = BlockAfter(m, b), NEW t, t = Joined(m, b)
  PROVE  /\ Heap(t, H \ {c}, e) /\ FreeIn(t, H \ {c}) = FreeIn(m, H) \ {c}
         /\ b \in TakenIn(t, H \ {c}) /\ t[b].n = m[b].n + m[c].n /\ t[b].pa = m[b].pa
         /\ BlockAfter(t, b) = BlockAfter(m, c)
         /\ \A x \in Addr : x \notin H => t[x] = m[x]
         /\ \A x \in H : x # b => t[x].ta = m[x].ta /\ t[x].n = m[x].n
<1>1. PICK d : d = BlockAfter(m, c)
  OBVIOUS
<1>2. /\ c \in H /\ m[c].ta = 0 /\ c \in Addr /\ c \in Nat
      /\ m[c].n \in Nat /\ m[c].n >= 4 /\ d = c + m[c].n
      /\ d \in H /\ d \in Addr /\ m[d].ta = 1
  BY <1>1, FreeBlockIs
<1>3. /\ m \in [Addr -> Cell] /\ H \subseteq Addr /\ 1 \in H /\ Tiled(m, H, e) /\ Marked(m, H)
      /\ b \in H /\ m[b].ta = 1
  BY DEF Heap, Tiled, TakenIn
<1>4. /\ b \in Addr /\ b \in Nat /\ b >= 1 /\ m[b].n \in Nat /\ m[b].n >= 1 /\ c = b + m[b].n
      /\ d \in Nat /\ d <= e
  BY <1>2, <1>3, BlockAfterIs
<1>5. b # c /\ b # d /\ c # d /\ c # 1 /\ d # 1
  BY <1>2, <1>4
<1>6. t = [m EXCEPT ![b].n = m[b].n + m[c].n, ![d].pa = 1]
  <2>1. b + m[b].n + m[c].n = d
    BY <1>2, <1>4
  <2> QED BY <2>1 DEF Joined
<1>7. m[b].n + m[c].n \in Nat
  BY <1>2, <1>4
<1>8. /\ t \in [Addr -> Cell] /\ t[b].ta = 1 /\ t[b].pa = m[b].pa /\ t[b].n = m[b].n + m[c].n
      /\ t[d].pa = 1 /\ t[d].ta = m[d].ta /\ t[d].n = m[d].n
      /\ \A x \in Addr : x # b /\ x # d => t[x] = m[x]
  <2>1. PICK s : s = [m EXCEPT ![b].n = m[b].n + m[c].n]
    OBVIOUS
  <2>2. /\ s \in [Addr -> Cell] /\ s[b].ta = m[b].ta /\ s[b].pa = m[b].pa
        /\ s[b].n = m[b].n + m[c].n /\ \A x \in Addr : x # b => s[x] = m[x]
    BY <1>3, <1>4, <1>7, <2>1 DEF Cell
  <2>3. t = [s EXCEPT ![d].pa = 1]
    BY <1>6, <2>1
  <2>4. /\ t \in [Addr -> Cell] /\ t[d].pa = 1 /\ t[d].ta = s[d].ta /\ t[d].n = s[d].n
        /\ \A x \in Addr : x # d => t[x] = s[x]
    BY <1>2, <2>2, <2>3 DEF Cell
  <2> QED BY <1>2, <1>3, <1>4, <1>5, <2>2, <2>4
<1>9. PICK J : J = H \ {c}
  OBVIOUS
<1>10. /\ \A x \in H : t[x].ta = m[x].ta
       /\ \A x \in H : x # b => t[x].n = m[x].n
       /\ \A x \in H : x # d => t[x].pa = m[x].pa
  BY <1>3, <1>8
<1>11. /\ BlockAfter(t, b) = d
       /\ \A x \in H : x # b => BlockAfter(t, x) = BlockAfter(m, x) /\ BlockAfter(t, x) # c
  <2>1. BlockAfter(t, b) = d
    BY <1>2, <1>4, <1>8 DEF BlockAfter
  <2>2. \A x \in H : x # b => BlockAfter(t, x) = BlockAfter(m, x)
    BY <1>10 DEF BlockAfter
  <2>3. \A x \in H : BlockAfter(m, x) = c => x = b
    BY <1>3, OneBefore
  <2> QED BY <2>1, <2>2, <2>3
<1>12. Tiled(t, J, e)
  <2>1. J \subseteq Addr /\ 1 \in J /\ e \in Nat /\ e <= MaxWords + 1
    BY <1>3, <1>5, <1>9 DEF Tiled
  <2>2. ASSUME NEW x \in J
        PROVE  /\ t[x].n >= 1 /\ BlockAfter(t, x) <= e
               /\ BlockAfter(t, x) # e => BlockAfter(t, x) \in J
    <3>1. CASE x = b
      BY <1>2, <1>4, <1>5, <1>8, <1>9, <1>11, <3>1
    <3>2. CASE x # b
      <4>1. x \in H /\ t[x].n = m[x].n /\ BlockAfter(t, x) = BlockAfter(m, x) /\ BlockAfter(t, x) # c
        BY <1>9, <1>10, <1>11, <3>2
      <4> QED BY <1>3, <1>9, <4>1 DEF Tiled
    <3> QED BY <3>1, <3>2
  <2>3. ASSUME NEW x \in J, NEW y \in J, x < y PROVE BlockAfter(t, x) <= y
    <3>1. CASE x = b
      <4>1. y \in H /\ y # c /\ y \in Nat /\ b < y
        BY <1>3, <1>9, <2>3, <3>1, BlockAfterIs
      <4>2. y >= c
        BY <1>3, <4>1, NoHeaderInside
      <4>3. y >= d
        <5>1. c < y
          BY <1>2, <4>1, <4>2
        <5> QED BY <1>1, <1>2, <1>3, <4>1, <5>1, NoHeaderInside
      <4> QED BY <1>4, <1>11, <3>1, <4>1, <4>3
    <3>2. CASE x # b
      <4>1. x \in H /\ y \in H /\ BlockAfter(t, x) = BlockAfter(m, x)
        BY <1>9, <1>11, <3>2
      <4> QED BY <1>3, <2>3, <4>1 DEF Tiled
    <3> QED BY <3>1, <3>2
  <2> QED BY <1>8, <2>1, <2>2, <2>3 DEF Tiled
<1>13. ASSUME NEW x \in J, BlockAfter(t, x) \in J PROVE t[BlockAfter(t, x)].pa = t[x].ta
  <2>1. CASE x = b
    BY <1>8, <1>11, <2>1
  <2>2. CASE x # b
    <3>1. x \in H /\ x # c /\ BlockAfter(t, x) = BlockAfter(m, x) /\ BlockAfter(m, x) \in H
      BY <1>9, <1>11, <1>13, <2>2
    <3>2. BlockAfter(m, x) # d
      BY <1>1, <1>2, <1>3, <3>1, OneBefore
    <3> QED BY <1>3, <1>10, <3>1, <3>2 DEF Marked
  <2> QED BY <2>1, <2>2
<1>14. ASSUME NEW x \in J, t[x].ta = 0
       PROVE  /\ t[x].n >= MinBlock
              /\ BlockAfter(t, x) \in J /\ t[BlockAfter(t, x)].ta = 1
              /\ t[BlockAfter(t, x) - 1].n = t[x].n
  <2>1. x # b /\ x \in H /\ x \in FreeIn(m, H)
    BY <1>8, <1>9, <1>10, <1>14 DEF FreeIn
  <2>2. /\ m[x].n >= 4 /\ BlockAfter(m, x) \in H /\ m[BlockAfter(m, x)].ta = 1
        /\ m[BlockAfter(m, x) - 1].n = m[x].n /\ BlockAfter(m, x) - 1 \in Addr
        /\ BlockAfter(m, x) - 1 \notin H
    BY <2>1, FreeBlockIs, MarkerNoHeader
  <2>3. BlockAfter(t, x) = BlockAfter(m, x) /\ BlockAfter(t, x) # c /\ t[x].n = m[x].n
    BY <1>10, <1>11, <2>1
  <2>4. t[BlockAfter(m, x) - 1] = m[BlockAfter(m, x) - 1]
    BY <1>2, <1>3, <1>8, <2>2
  <2> QED BY <1>9, <1>10, <2>2, <2>3, <2>4 DEF MinBlock
<1>15. t[1].pa = 1
  BY <1>3, <1>5, <1>10 DEF Marked
<1>16. Heap(t, J, e)
  BY <1>12, <1>13, <1>14, <1>15 DEF Heap, Marked
<1>17. FreeIn(t, J) = FreeIn(m, H) \ {c}
  BY <1>9, <1>10 DEF FreeIn
<1>18. b \in TakenIn(t, J)
  BY <1>3, <1>5, <1>8, <1>9 DEF TakenIn
<1>19. \A x \in Addr : x \notin H => t[x] = m[x]
  BY <1>2, <1>3, <1>8
<1> QED BY <1>1, <1>8, <1>9, <1>10, <1>11, <1>16, <1>17, <1>18, <1>19

\* In t the free block c is part of the allocated block b before it.
Merged(m, t, H, e, b, c) ==
  /\ Heap(t, H \ {c}, e) /\ Tomb(t, H \ {c}) /\ Linked(t, FreeIn(m, H) \ {c})
  /\ FreeIn(t, H \ {c}) = FreeIn(m, H) \ {c} /\ NextOf(m, c) \in FreeIn(m, H) \ {c}
  /\ b \in TakenIn(t, H \ {c}) /\ t[b].n = m[b].n + m[c].n /\ t[b].pa = m[b].pa
  /\ BlockAfter(t, b) = BlockAfter(m, c)
  /\ Kept(m, t, H \ {c}, TakenIn(m, H) \ {b})

\* MergedAfter.
LEMMA Merging ==
  ASSUME NEW m, NEW list, NEW H, NEW e, Sane(m, list, H, e), NEW b \in TakenIn(m, H),
         NEW c \in FreeIn(m, H), c = BlockAfter(m, b), c # Mem2,
         NEW t, t = MergedAfter(m, b)
  PROVE  Merged(m, t, H, e, b, c)
<1>1. PICK r : r = RemoveFromFreeList(m, c)
  OBVIOUS
<1>2. /\ Heap(m, H, e) /\ Linked(m, FreeIn(m, H)) /\ Mem2 \in FreeIn(m, H)
      /\ Mem2 \in H /\ m[Mem2].n = MinBlock /\ m[Mem2].ta = 0
      /\ c \in H /\ b \in H /\ m[b].ta = 1 /\ m \in [Addr -> Cell] /\ H \subseteq Addr
  BY DEF Sane, Tomb, FreeIn, TakenIn, Heap, Tiled
<1>3. Apart(FreeIn(m, H)) /\ FreeIn(m, H) # {c}
  BY <1>2, FreeApart
<1>4. /\ r \in [Addr -> Cell] /\ Linked(r, FreeIn(m, H) \ {c})
      /\ NextOf(m, c) \in FreeIn(m, H) \ {c}
      /\ OnlyLinks(m, r, FreeIn(m, H) \ {c})
  BY <1>1, <1>2, <1>3, Unlinks
<1>5. FreeIn(m, H) \ {c} \subseteq FreeIn(m, H)
  OBVIOUS
<1>6. /\ Heap(r, H, e) /\ FreeIn(r, H) = FreeIn(m, H)
      /\ \A x \in H : r[x] = m[x]
      /\ Kept(m, r, H, TakenIn(m, H))
  BY <1>2, <1>4, <1>5, Relinks
<1>7. b \in TakenIn(r, H) /\ BlockAfter(r, b) = c /\ BlockAfter(r, c) = BlockAfter(m, c)
  BY <1>2, <1>6 DEF TakenIn, BlockAfter
<1>8. t = Joined(r, b)
  <2>1. c # b
    <3>1. c \in Nat /\ b \in Nat /\ m[b].n \in Nat /\ m[b].n >= 1 /\ c = b + m[b].n
      BY <1>2, BlockAfterIs, FreeBlockIs DEF Heap
    <3> QED BY <3>1
  <2>2. PICK s : s = [r EXCEPT ![b].n = r[b].n + m[c].n]
    OBVIOUS
  <2>3. BlockAfter(s, b) = b + r[b].n + m[c].n
    <3>1. s[b].n = r[b].n + m[c].n
      BY <1>2, <1>4, <2>2 DEF Cell
    <3>2. b \in Nat /\ r[b].n \in Nat /\ m[c].n \in Nat
      BY <1>2, <1>4, AddrIs DEF Cell
    <3> QED BY <3>1, <3>2 DEF BlockAfter
  <2>4. t = [s EXCEPT ![BlockAfter(s, b)].pa = 1]
    BY <1>1, <2>2 DEF MergedAfter
  <2>5. m[c].n = r[c].n
    BY <1>2, <1>6
  <2> QED BY <1>7, <2>2, <2>3, <2>4, <2>5 DEF Joined
<1>9. /\ Heap(t, H \ {c}, e) /\ FreeIn(t, H \ {c}) = FreeIn(r, H) \ {c}
      /\ b \in TakenIn(t, H \ {c}) /\ t[b].n = r[b].n + r[c].n /\ t[b].pa = r[b].pa
      /\ BlockAfter(t, b) = BlockAfter(r, c)
      /\ \A x \in Addr : x \notin H => t[x] = r[x]
      /\ \A x \in H : x # b => t[x].ta = r[x].ta /\ t[x].n = r[x].n
  <2>1. c \in FreeIn(r, H) /\ c = BlockAfter(r, b)
    BY <1>6, <1>7
  <2> QED BY <1>6, <1>7, <1>8, <2>1, Joins
<1>10. Linked(t, FreeIn(m, H) \ {c})
  <2>1. \A x \in FreeIn(m, H) : /\ x + 1 \in Addr /\ x + 1 \notin H
                                /\ x + 2 \in Addr /\ x + 2 \notin H
    BY <1>2, FreeApart DEF Apart, LinkWords
  <2>2. \A x \in FreeIn(m, H) \ {c} : t[x + 1].n = r[x + 1].n /\ t[x + 2].n = r[x + 2].n
    BY <1>9, <2>1
  <2> QED BY <1>4, <2>2, LinkedSame
<1>11. Tomb(t, H \ {c})
  BY <1>2, <1>6, <1>9 DEF Tomb
<1>12. Kept(r, t, H \ {c}, TakenIn(m, H) \ {b})
  <2>1. TakenIn(m, H) \ {b} \subseteq TakenIn(r, H) \ ({b} \cup {}) /\ {} \subseteq Big(r, H)
    BY <1>6 DEF TakenIn
  <2>2. \A x \in TakenIn(m, H) \ {b} : x \in H \ {c} /\ t[x].ta = 1 /\ t[x].n = r[x].n
    BY <1>6, <1>9 DEF TakenIn, FreeIn
  <2>3. Elsewhere(r, t, H, {}, b)
    BY <1>9 DEF Elsewhere
  <2>4. Tiled(r, H, e) /\ b \in H
    BY <1>2, <1>6 DEF Heap
  <2> QED BY <2>1, <2>2, <2>3, <2>4, KeepsOthers
<1>13. Kept(m, r, H, TakenIn(m, H) \ {b})
  BY <1>6 DEF Kept
<1>14. Kept(m, t, H \ {c}, TakenIn(m, H) \ {b})
  BY <1>12, <1>13, KeptKept
<1>15. t[b].n = m[b].n + m[c].n /\ t[b].pa = m[b].pa
  BY <1>2, <1>6, <1>9
<1> QED BY <1>4, <1>6, <1>7, <1>9, <1>10, <1>11, <1>14, <1>15 DEF Merged

-----------------------------------------------------------------------------
(***************************************************************************)
(* Code memory: a block is freed.                                          *)
(***************************************************************************)
\* Between m and t nothing is written but words from a to z.
OnlyWithin(m, t, a, z) == \A x \in Addr : ~(a <= x /\ x <= z) => t[x] = m[x]

LEMMA Fills ==
  ASSUME NEW m \in [Addr -> Cell], NEW a, NEW z, NEW w \in Cell, NEW t, t = Fill(m, a, z, w)
  PROVE  /\ t \in [Addr -> Cell] /\ OnlyWithin(m, t, a, z)
         /\ \A x \in Addr : a <= x /\ x <= z => t[x] = w
<1>1. t = [x \in Addr |-> IF a <= x /\ x <= z THEN w ELSE m[x]]
  BY DEF Fill
<1> QED BY <1>1 DEF OnlyWithin

LEMMA WordsAreCells ==
  /\ \A n \in Nat : Word(n) \in Cell
  /\ \A ta \in {0, 1}, pa \in {0, 1}, n \in Nat : Header(ta, pa, n) \in Cell
  /\ \A k \in Kind, f \in Function : Emitted(k, f) \in Cell
  /\ Poison \in Cell
BY DEF Word, Header, Emitted, Poison, Cell

\* SetEndOfBlockSizeMarker.
LEMMA Marks ==
  ASSUME NEW m \in [Addr -> Cell], NEW b \in Addr, m[b].n >= 4, BlockAfter(m, b) - 1 \in Addr,
         NEW t, t = SetEndOfBlockSizeMarker(m, b)
  PROVE  /\ t \in [Addr -> Cell] /\ t[BlockAfter(m, b) - 1].n = m[b].n
         /\ OnlyWithin(m, t, b + 3, BlockAfter(m, b) - 1)
<1>1. /\ b \in Nat /\ m[b].n \in Nat /\ BlockAfter(m, b) = b + m[b].n
      /\ BlockAfter(m, b) \in Nat
  BY AddrIs DEF Cell, BlockAfter
<1>2. PICK s : s = Fill(m, b + 3, BlockAfter(m, b) - 2, Poison)
  OBVIOUS
<1>3. s \in [Addr -> Cell] /\ OnlyWithin(m, s, b + 3, BlockAfter(m, b) - 2)
  BY <1>2, Fills, WordsAreCells
<1>4. PICK d : d = BlockAfter(m, b) - 1
  OBVIOUS
<1>5. t = [s EXCEPT ![d] = Word(m[b].n)]
  BY <1>2, <1>4 DEF SetEndOfBlockSizeMarker
<1>6. t \in [Addr -> Cell] /\ t[d] = Word(m[b].n) /\ \A x \in Addr : x # d => t[x] = s[x]
  BY <1>1, <1>3, <1>4, <1>5, WordsAreCells
<1>7. ASSUME NEW x \in Addr, ~(b + 3 <= x /\ x <= BlockAfter(m, b) - 1) PROVE t[x] = m[x]
  <2>1. x \in Nat
    BY AddrIs
  <2>2. x # d /\ ~(b + 3 <= x /\ x <= BlockAfter(m, b) - 2)
    BY <1>1, <1>4, <1>7, <2>1
  <2> QED BY <1>3, <1>6, <2>2 DEF OnlyWithin
<1>8. t[d].n = m[b].n
  BY <1>6 DEF Word
<1> QED BY <1>4, <1>6, <1>7, <1>8 DEF OnlyWithin

\* What is inside an allocated block is nobody else's.
LEMMA WritesInside ==
  ASSUME NEW m, NEW list, NEW H, NEW e, Sane(m, list, H, e), NEW b \in TakenIn(m, H),
         NEW t \in [Addr -> Cell], OnlyWithin(m, t, b + 1, BlockAfter(m, b) - 1)
  PROVE  /\ Sane(t, list, H, e) /\ FreeIn(t, H) = FreeIn(m, H) /\ TakenIn(t, H) = TakenIn(m, H)
         /\ \A x \in H : t[x] = m[x]
         /\ Kept(m, t, H, TakenIn(m, H) \ {b})
<1>1. /\ Heap(m, H, e) /\ Tiled(m, H, e) /\ Linked(m, FreeIn(m, H)) /\ list \in FreeIn(m, H)
      /\ Tomb(m, H) /\ b \in H /\ m[b].ta = 1 /\ H \subseteq Addr
  BY DEF Sane, TakenIn, Heap, Tiled
<1>2. b \in Nat /\ m[b].n \in Nat /\ m[b].n >= 1 /\ BlockAfter(m, b) = b + m[b].n
      /\ BlockAfter(m, b) \in Nat
  BY <1>1, BlockAfterIs
<1>3. ASSUME NEW x \in Addr, NEW c \in H, c # b, c <= x, x < BlockAfter(m, c) PROVE t[x] = m[x]
  <2>1. x \in Nat
    BY AddrIs
  <2>2. ~(b <= x /\ x < BlockAfter(m, b))
    BY <1>1, <1>3, <2>1, OneBlock
  <2>3. ~(b + 1 <= x /\ x <= BlockAfter(m, b) - 1)
    BY <1>2, <2>1, <2>2
  <2> QED BY <2>3 DEF OnlyWithin
<1>4. ASSUME NEW x \in H PROVE t[x] = m[x]
  <2>1. /\ x \in Addr /\ x \in Nat /\ m[x].n \in Nat /\ m[x].n >= 1
        /\ BlockAfter(m, x) = x + m[x].n
    BY <1>1, BlockAfterIs
  <2>2. CASE x = b
    BY <1>2, <2>1, <2>2 DEF OnlyWithin
  <2>3. CASE x # b
    BY <1>3, <2>1, <2>3
  <2> QED BY <2>2, <2>3
<1>5. ASSUME NEW c \in FreeIn(m, H)
      PROVE  /\ t[BlockAfter(m, c) - 1] = m[BlockAfter(m, c) - 1]
             /\ t[c + 1] = m[c + 1] /\ t[c + 2] = m[c + 2]
  <2>1. /\ c \in H /\ c # b /\ c \in Nat /\ m[c].n \in Nat /\ m[c].n >= 4
        /\ BlockAfter(m, c) = c + m[c].n
        /\ c + 1 \in Addr /\ c + 2 \in Addr /\ BlockAfter(m, c) - 1 \in Addr
    BY <1>1, FreeBlockIs
  <2>2. c <= c + 1 /\ c + 1 < BlockAfter(m, c) /\ c <= c + 2 /\ c + 2 < BlockAfter(m, c)
        /\ c <= BlockAfter(m, c) - 1 /\ BlockAfter(m, c) - 1 < BlockAfter(m, c)
    BY <2>1
  <2> QED BY <1>3, <2>1, <2>2
<1>6. Heap(t, H, e) /\ FreeIn(t, H) = FreeIn(m, H)
  BY <1>1, <1>4, <1>5, HeapSame
<1>7. Linked(t, FreeIn(m, H))
  BY <1>1, <1>5, LinkedSame
<1>8. Tomb(t, H)
  BY <1>1, <1>4 DEF Tomb
<1>9. TakenIn(t, H) = TakenIn(m, H)
  BY <1>4 DEF TakenIn
<1>10. ASSUME NEW c \in TakenIn(m, H) \ {b}
       PROVE  /\ c \in H /\ t[c].ta = 1 /\ t[c].n = m[c].n
              /\ \A x \in (c + 1)..(BlockAfter(m, c) - 1) : t[x] = m[x]
  <2>1. c \in H /\ c # b /\ t[c] = m[c] /\ m[c].ta = 1
    BY <1>4 DEF TakenIn
  <2>2. c \in Nat /\ c >= 1 /\ BlockAfter(m, c) \in Nat /\ BlockAfter(m, c) <= MaxWords + 1
    <3>1. /\ c \in Nat /\ c >= 1 /\ BlockAfter(m, c) \in Nat /\ BlockAfter(m, c) <= e
          /\ e \in Nat /\ e <= MaxWords + 1
      BY <1>1, <2>1, BlockAfterIs
    <3> QED BY <3>1, AddrIs
  <2>3. ASSUME NEW x \in (c + 1)..(BlockAfter(m, c) - 1) PROVE t[x] = m[x]
    <3>1. x \in Addr /\ c <= x /\ x < BlockAfter(m, c)
      BY <2>2, AddrIs DEF Addr
    <3> QED BY <1>3, <2>1, <3>1
  <2> QED BY <2>1, <2>3
<1>11. Kept(m, t, H, TakenIn(m, H) \ {b})
  BY <1>10 DEF Kept
<1> QED BY <1>1, <1>4, <1>6, <1>7, <1>8, <1>9, <1>11 DEF Sane

\* t is m, but that the allocated block b is free.
Loose(m, t, H, F, b) ==
  /\ t \in [Addr -> Cell] /\ Linked(t, F \cup {b}) /\ Elsewhere(m, t, H, F \cup {b}, b)
  /\ \A x \in H : t[x].n = m[x].n
  /\ \A x \in H : x # b => t[x].ta = m[x].ta
  /\ \A x \in H : x # BlockAfter(m, b) => t[x].pa = m[x].pa
  /\ t[b].ta = 0 /\ t[BlockAfter(m, b)].pa = 0 /\ t[BlockAfter(m, b) - 1].n = m[b].n

\* What goes on the free list without joining a neighbour.
Alone(m, H, b) ==
  /\ b \in TakenIn(m, H) /\ m[b].n >= 4 /\ m[b].pa = 1 /\ BlockAfter(m, b) \in TakenIn(m, H)

\* In t the block b is on the free list, and the list begins with it.
Loosened(m, t, H, e, b) ==
  /\ Sane(t, b, H, e) /\ FreeIn(t, H) = FreeIn(m, H) \cup {b}
  /\ t[b].n = m[b].n /\ Kept(m, t, H, TakenIn(m, H) \ {b})

LEMMA Loosens ==
  ASSUME NEW m, NEW list, NEW H, NEW e, Sane(m, list, H, e), NEW b, Alone(m, H, b),
         NEW t, Loose(m, t, H, FreeIn(m, H), b)
  PROVE  Loosened(m, t, H, e, b)
<1> DEFINE F == FreeIn(m, H)
<1>0. PICK d : d = BlockAfter(m, b)
  OBVIOUS
<1>1. /\ Heap(m, H, e) /\ Tiled(m, H, e) /\ Marked(m, H) /\ Linked(m, F) /\ Tomb(m, H)
      /\ b \in H /\ m[b].ta = 1 /\ d \in H /\ m[d].ta = 1 /\ m[b].n >= 4 /\ m[b].pa = 1
      /\ H \subseteq Addr /\ m \in [Addr -> Cell] /\ b \notin F /\ d = BlockAfter(m, b)
  BY <1>0 DEF Sane, Alone, TakenIn, FreeIn, Heap, Tiled
<1>2. /\ b \in Nat /\ b \in Addr /\ m[b].n \in Nat /\ BlockAfter(m, b) = b + m[b].n
      /\ d \in Nat /\ d \in Addr /\ d = b + m[b].n
  BY <1>1, BlockAfterIs
<1>5. F \cup {b} \subseteq Big(m, H)
  BY <1>1, FreeIsBig DEF Big
<1>15. t \in [Addr -> Cell] /\ t[d - 1].n = m[b].n
  BY <1>0 DEF Loose
<1>18. /\ \A x \in H : t[x].n = m[x].n /\ BlockAfter(t, x) = BlockAfter(m, x)
       /\ \A x \in H : x # b => t[x].ta = m[x].ta
       /\ \A x \in H : x # d => t[x].pa = m[x].pa
       /\ t[b].ta = 0 /\ t[d].pa = 0
  BY <1>0, <1>1 DEF Loose, BlockAfter
<1>19. Elsewhere(m, t, H, F \cup {b}, b)
  BY DEF Loose
<1>20. FreeIn(t, H) = F \cup {b}
  BY <1>1, <1>18 DEF FreeIn
<1>21. Linked(t, F \cup {b})
  BY DEF Loose
<1>22. Tomb(t, H)
  <2>1. Mem2 # b
    BY <1>1 DEF Tomb
  <2> QED BY <1>1, <1>18, <2>1 DEF Tomb
<1>23. Tiled(t, H, e)
  BY <1>1, <1>15, <1>18 DEF Tiled
<1>24. ASSUME NEW x \in H, BlockAfter(t, x) \in H PROVE t[BlockAfter(t, x)].pa = t[x].ta
  <2>1. CASE x = b
    BY <1>0, <1>1, <1>2, <1>18, <2>1
  <2>2. CASE x # b
    <3>1. BlockAfter(m, x) # d /\ BlockAfter(m, x) \in H
      BY <1>1, <1>18, <1>24, <2>2, OneBefore
    <3> QED BY <1>1, <1>18, <2>2, <3>1 DEF Marked
  <2> QED BY <2>1, <2>2
<1>25. ASSUME NEW x \in H, t[x].ta = 0
       PROVE  /\ t[x].n >= MinBlock
              /\ BlockAfter(t, x) \in H /\ t[BlockAfter(t, x)].ta = 1
              /\ t[BlockAfter(t, x) - 1].n = t[x].n
  <2>1. CASE x = b
    <3>1. d # b
      BY <1>0, <1>1, <1>2
    <3> QED BY <1>1, <1>15, <1>18, <2>1, <3>1 DEF MinBlock
  <2>2. CASE x # b
    <3>1. x \in FreeIn(m, H)
      BY <1>18, <1>25, <2>2 DEF FreeIn
    <3>2. /\ m[x].n >= 4 /\ BlockAfter(m, x) \in H /\ m[BlockAfter(m, x)].ta = 1
          /\ m[BlockAfter(m, x)].pa = 0 /\ x \in Nat /\ m[x].n \in Nat
          /\ BlockAfter(m, x) = x + m[x].n
          /\ m[BlockAfter(m, x) - 1].n = m[x].n /\ BlockAfter(m, x) - 1 \in Addr
          /\ BlockAfter(m, x) - 1 \notin H
      BY <1>1, <3>1, FreeBlockIs, MarkerNoHeader
    <3>3. BlockAfter(m, x) # b
      BY <1>0, <1>1, <1>2, <3>2
    <3>4. PICK z \in Nat : z = BlockAfter(m, x) - 1
      BY <3>2
    <3>5. x <= z /\ x < BlockAfter(m, x) /\ z < BlockAfter(m, x) /\ z # x + 1 /\ z # x + 2
          /\ z \in Addr /\ z \notin H
      BY <3>2, <3>4
    <3>6. z \notin LinkWords(F \cup {b})
      BY <1>1, <1>5, <3>5, BigLinkWordIn
    <3>7. ~(b <= z /\ z < BlockAfter(m, b))
      BY <1>1, <2>2, <3>5, OneBlock
    <3>8. t[z] = m[z]
      BY <1>19, <3>5, <3>6, <3>7 DEF Elsewhere
    <3> QED BY <1>18, <3>2, <3>3, <3>4, <3>8 DEF MinBlock
  <2> QED BY <2>1, <2>2
<1>26. t[1].pa = 1
  <2>1. d # 1 /\ 1 \in H
    BY <1>1, <1>2, BlockAfterIs, AddrIs DEF Tiled
  <2> QED BY <1>1, <1>18, <2>1 DEF Marked
<1>27. Heap(t, H, e)
  BY <1>23, <1>24, <1>25, <1>26 DEF Heap, Marked
<1>28. Kept(m, t, H, TakenIn(m, H) \ {b})
  <2>1. TakenIn(m, H) \ {b} \subseteq TakenIn(m, H) \ ({b} \cup (F \cup {b}))
    BY DEF TakenIn, FreeIn
  <2>2. \A x \in TakenIn(m, H) \ {b} : x \in H /\ t[x].ta = 1 /\ t[x].n = m[x].n
    BY <1>18 DEF TakenIn
  <2> QED BY <1>1, <1>5, <1>19, <2>1, <2>2, KeepsOthers
<1> QED BY <1>1, <1>18, <1>20, <1>21, <1>22, <1>27, <1>28 DEF Sane, Loosened

\* The block b goes on the free list, by itself.
Untaken(m, b) == [m EXCEPT ![BlockAfter(m, b)].pa = 0, ![b].ta = 0]

FreedAlone(m, b, from) == SetEndOfBlockSizeMarker(AddToFreeList(Untaken(m, b), b, from), b)

\* t differs from m in words of b, of headers of H and of links of F.
LEMMA FreesAlone ==
  ASSUME NEW m, NEW list, NEW H, NEW e, Sane(m, list, H, e), NEW b, Alone(m, H, b),
         NEW from \in FreeIn(m, H), NEW t, t = FreedAlone(m, b, from)
  PROVE  Loosened(m, t, H, e, b)
<1> DEFINE F == FreeIn(m, H)
<1>0. PICK d : d = BlockAfter(m, b)
  OBVIOUS
<1>1. /\ Heap(m, H, e) /\ Tiled(m, H, e) /\ Marked(m, H) /\ Linked(m, F) /\ Tomb(m, H)
      /\ b \in H /\ m[b].ta = 1 /\ d \in H /\ m[d].ta = 1 /\ m[b].n >= 4 /\ m[b].pa = 1
      /\ H \subseteq Addr /\ m \in [Addr -> Cell] /\ b \notin F /\ d = BlockAfter(m, b)
  BY <1>0 DEF Sane, Alone, TakenIn, FreeIn, Heap, Tiled
<1>2. /\ b \in Nat /\ b \in Addr /\ m[b].n \in Nat /\ BlockAfter(m, b) = b + m[b].n
      /\ d \in Nat /\ d \in Addr /\ d = b + m[b].n
  BY <1>1, BlockAfterIs
<1>3. PICK c : c = Untaken(m, b)
  OBVIOUS
<1>4. /\ c \in [Addr -> Cell] /\ c[b].ta = 0 /\ c[d].pa = 0
      /\ \A x \in Addr : c[x].n = m[x].n
      /\ \A x \in Addr : x # b => c[x].ta = m[x].ta
      /\ \A x \in Addr : x # d => c[x].pa = m[x].pa
      /\ \A x \in Addr : x # b /\ x # d => c[x] = m[x]
  <2>1. b # d
    BY <1>0, <1>1, <1>2
  <2>2. PICK u : u = [m EXCEPT ![d].pa = 0]
    OBVIOUS
  <2>3. /\ u \in [Addr -> Cell] /\ u[d].pa = 0
        /\ \A x \in Addr : u[x].n = m[x].n /\ u[x].ta = m[x].ta
        /\ \A x \in Addr : x # d => u[x] = m[x]
    BY <1>1, <1>2, <2>2 DEF Cell
  <2>4. c = [u EXCEPT ![b].ta = 0]
    BY <1>0, <1>1, <1>2, <1>3, <2>2 DEF Untaken
  <2>5. /\ c \in [Addr -> Cell] /\ c[b].ta = 0
        /\ \A x \in Addr : c[x].n = u[x].n /\ c[x].pa = u[x].pa
        /\ \A x \in Addr : x # b => c[x] = u[x]
    BY <1>2, <2>3, <2>4 DEF Cell
  <2> QED BY <1>2, <2>1, <2>3, <2>5
<1>5. F \cup {b} \subseteq Big(m, H)
  BY <1>1, FreeIsBig DEF Big
<1>6. Apart(F \cup {b}) /\ \A x \in LinkWords(F \cup {b}) : x \notin H
  BY <1>1, <1>5, BigApart
<1>7. \A x \in F \cup {b} : /\ x + 1 \in Addr /\ x + 2 \in Addr /\ x + 1 \notin H /\ x + 2 \notin H
                            /\ x + 1 \in LinkWords(F \cup {b}) /\ x + 2 \in LinkWords(F \cup {b})
  BY <1>6 DEF Apart, LinkWords
<1>8. Linked(c, F)
  <2>1. \A x \in F : c[x + 1].n = m[x + 1].n /\ c[x + 2].n = m[x + 2].n
    BY <1>4, <1>7
  <2> QED BY <1>1, <2>1, LinkedSame
<1>9. PICK a : a = AddToFreeList(c, b, from)
  OBVIOUS
<1>10. a \in [Addr -> Cell] /\ Linked(a, F \cup {b}) /\ OnlyLinks(c, a, F \cup {b})
  BY <1>1, <1>4, <1>6, <1>8, <1>9, Links
<1>11. \A x \in H : a[x] = c[x]
  BY <1>1, <1>6, <1>10 DEF OnlyLinks
<1>12. a[b].n = m[b].n /\ BlockAfter(a, b) = d
  BY <1>1, <1>2, <1>4, <1>11 DEF BlockAfter
<1>13. t = SetEndOfBlockSizeMarker(a, b)
  BY <1>3, <1>9 DEF FreedAlone
<1>14. d - 1 \in Addr /\ \A x \in Nat : b <= x /\ x < d => x \in Addr
  <2>1. b \in Big(m, H)
    BY <1>5
  <2>2. BlockAfter(m, b) - 1 \in Addr
        /\ \A x \in Nat : b <= x /\ x < BlockAfter(m, b) => x \in Addr
    BY <1>1, <2>1, BigBlockIs
  <2> QED BY <1>0, <1>1, <1>2, <2>2
<1>15. t \in [Addr -> Cell] /\ t[d - 1].n = m[b].n /\ OnlyWithin(a, t, b + 3, d - 1)
  <2>1. a[b].n >= 4 /\ BlockAfter(a, b) - 1 \in Addr
    BY <1>0, <1>1, <1>2, <1>12, <1>14
  <2>2. /\ t \in [Addr -> Cell] /\ t[BlockAfter(a, b) - 1].n = a[b].n
        /\ OnlyWithin(a, t, b + 3, BlockAfter(a, b) - 1)
    BY <1>2, <1>10, <1>13, <2>1, Marks
  <2> QED BY <1>12, <2>2
<1>16. ASSUME NEW y \in H, NEW x \in Nat, y <= x, x < BlockAfter(m, y), b + 3 <= x, x <= d - 1
       PROVE  y = b /\ x # b
  BY <1>1, <1>2, <1>16, OneBlock
<1>17. ASSUME NEW x \in H PROVE t[x] = c[x]
  <2>1. x \in Nat /\ x \in Addr /\ m[x].n \in Nat /\ m[x].n >= 1 /\ BlockAfter(m, x) = x + m[x].n
    BY <1>1, BlockAfterIs
  <2>2. x <= x /\ x < BlockAfter(m, x)
    BY <2>1
  <2>3. ~(b + 3 <= x /\ x <= d - 1)
    BY <1>16, <2>1, <2>2
  <2> QED BY <1>11, <1>15, <2>1, <2>3 DEF OnlyWithin
<1>18. /\ \A x \in H : t[x].n = m[x].n
       /\ \A x \in H : x # b => t[x].ta = m[x].ta
       /\ \A x \in H : x # d => t[x].pa = m[x].pa
       /\ t[b].ta = 0 /\ t[d].pa = 0
  BY <1>1, <1>4, <1>17
<1>19. Elsewhere(m, t, H, F \cup {b}, b)
  <2>1. ASSUME NEW x \in Addr, x \notin H, x \notin LinkWords(F \cup {b}),
               ~(b <= x /\ x < BlockAfter(m, b))
        PROVE  t[x] = m[x]
    <3>1. x \in Nat
      BY AddrIs
    <3>2. ~(b + 3 <= x /\ x <= d - 1) /\ x # b /\ x # d
      BY <1>1, <1>2, <2>1, <3>1
    <3> QED BY <1>4, <1>10, <1>15, <2>1, <3>2 DEF OnlyWithin, OnlyLinks
  <2> QED BY <2>1 DEF Elsewhere
<1>21. Linked(t, F \cup {b})
  <2>1. ASSUME NEW x \in F \cup {b}, NEW i \in {1, 2} PROVE t[x + i] = a[x + i]
    <3>1. /\ x \in H /\ x \in Nat /\ m[x].n \in Nat /\ m[x].n >= 4
          /\ BlockAfter(m, x) = x + m[x].n
      BY <1>1, <1>5, BigBlockIs
    <3>2. x <= x + i /\ x + i < BlockAfter(m, x) /\ x + i \in Nat /\ x + i \in Addr
      BY <1>7, <3>1
    <3>3. ~(b + 3 <= x + i /\ x + i <= d - 1)
      <4>1. SUFFICES ASSUME b + 3 <= x + i, x + i <= d - 1 PROVE FALSE
        OBVIOUS
      <4>2. PICK z \in Nat : z = x + i
        BY <3>2
      <4>3. x = b
        BY <1>16, <3>1, <3>2, <4>1, <4>2
      <4> QED BY <3>1, <4>1, <4>3
    <3> QED BY <1>15, <3>2, <3>3 DEF OnlyWithin
  <2>2. \A x \in F \cup {b} : t[x + 1].n = a[x + 1].n /\ t[x + 2].n = a[x + 2].n
    BY <2>1
  <2> QED BY <1>10, <2>2, LinkedSame
<1>22. Loose(m, t, H, FreeIn(m, H), b)
  BY <1>0, <1>15, <1>18, <1>19, <1>21 DEF Loose
<1> QED BY <1>22, Loosens

\* w is m, with the headers and the marker that b has when it is free.
Prepared(m, w, b, d) ==
  /\ w \in [Addr -> Cell] /\ w[b].n = m[b].n /\ w[b].ta = 0 /\ w[b].pa = m[b].pa
  /\ w[d].n = m[d].n /\ w[d].ta = m[d].ta /\ w[d].pa = 0 /\ w[d - 1].n = m[b].n
  /\ \A x \in Addr : x # b /\ x # d /\ ~(b + 3 <= x /\ x <= d - 1) => w[x] = m[x]

LEMMA Returns ==
  ASSUME NEW m, NEW list, NEW H, NEW e, Sane(m, list, H, e), NEW b, Alone(m, H, b),
         NEW w, Prepared(m, w, b, BlockAfter(m, b)), NEW t, t = AddToFreeList(w, b, list)
  PROVE  Loosened(m, t, H, e, b)
<1> DEFINE F == FreeIn(m, H)
<1>0. PICK d : d = BlockAfter(m, b)
  OBVIOUS
<1>1. /\ Heap(m, H, e) /\ Tiled(m, H, e) /\ Marked(m, H) /\ Linked(m, F) /\ Tomb(m, H)
      /\ b \in H /\ m[b].ta = 1 /\ d \in H /\ m[d].ta = 1 /\ m[b].n >= 4 /\ m[b].pa = 1
      /\ H \subseteq Addr /\ m \in [Addr -> Cell] /\ b \notin F /\ d = BlockAfter(m, b)
  BY <1>0 DEF Sane, Alone, TakenIn, FreeIn, Heap, Tiled
<1>2. /\ b \in Nat /\ b \in Addr /\ m[b].n \in Nat /\ BlockAfter(m, b) = b + m[b].n
      /\ d \in Nat /\ d \in Addr /\ d = b + m[b].n
  BY <1>1, BlockAfterIs
<1>3. F \cup {b} \subseteq Big(m, H)
  BY <1>1, FreeIsBig DEF Big
<1>4. /\ w \in [Addr -> Cell] /\ w[b].n = m[b].n /\ w[b].ta = 0 /\ w[b].pa = m[b].pa
      /\ w[d].n = m[d].n /\ w[d].ta = m[d].ta /\ w[d].pa = 0 /\ w[d - 1].n = m[b].n
      /\ \A x \in Addr : x # b /\ x # d /\ ~(b + 3 <= x /\ x <= d - 1) => w[x] = m[x]
  BY <1>0 DEF Prepared
<1>5. Apart(F \cup {b}) /\ \A x \in LinkWords(F \cup {b}) : x \notin H
  BY <1>1, <1>3, BigApart
<1>6. ASSUME NEW x \in LinkWords(F \cup {b}) PROVE x # d - 1 /\ (x \in Addr => w[x] = m[x])
  <2>1. x \notin H
    BY <1>5
  <2>2. x \in Nat
    <3>1. PICK y \in F \cup {b} : x = y + 1 \/ x = y + 2
      BY DEF LinkWords
    <3>2. y \in Nat
      BY <1>1, <1>3, BigBlockIs
    <3> QED BY <3>1, <3>2
  <2>3. ~(b + 3 <= x /\ x <= d - 1)
    <3>1. SUFFICES ASSUME b + 3 <= x, x <= d - 1 PROVE FALSE
      OBVIOUS
    <3>2. b <= x /\ x < BlockAfter(m, b)
      BY <1>2, <2>2, <3>1
    <3>3. x = b + 1 \/ x = b + 2
      BY <1>1, <1>3, <2>2, <3>2, BigLinkWordIn
    <3> QED BY <1>2, <3>1, <3>3
  <2>4. x # d - 1
    BY <1>1, <1>2, <2>2, <2>3
  <2> QED BY <1>1, <1>4, <2>1, <2>3, <2>4
<1>7. Linked(w, F)
  <2>1. \A x \in F : /\ x + 1 \in LinkWords(F \cup {b}) /\ x + 2 \in LinkWords(F \cup {b})
                     /\ x + 1 \in Addr /\ x + 2 \in Addr
    BY <1>5 DEF Apart, LinkWords
  <2>2. \A x \in F : w[x + 1].n = m[x + 1].n /\ w[x + 2].n = m[x + 2].n
    BY <1>6, <2>1
  <2> QED BY <1>1, <2>2, LinkedSame
<1>8. t \in [Addr -> Cell] /\ Linked(t, F \cup {b}) /\ OnlyLinks(w, t, F \cup {b})
  <2>1. list \in F
    BY DEF Sane
  <2> QED BY <1>1, <1>4, <1>5, <1>7, <2>1, Links
<1>9. d - 1 \in Addr /\ t[d - 1].n = m[b].n
  <2>1. b \in Big(m, H)
    BY <1>3
  <2>2. d - 1 \in Addr
    BY <1>1, <2>1, BigBlockIs
  <2> QED BY <1>4, <1>6, <1>8, <2>2 DEF OnlyLinks
<1>10. \A x \in H : t[x] = w[x]
  BY <1>1, <1>5, <1>8 DEF OnlyLinks
<1>11. ASSUME NEW x \in H, x # b, x # d PROVE w[x] = m[x]
  <2>1. x \in Addr /\ x \in Nat
    BY <1>1, AddrIs
  <2>2. ~(b + 3 <= x /\ x <= d - 1)
    <3>1. SUFFICES ASSUME b + 3 <= x, x <= d - 1 PROVE FALSE
      OBVIOUS
    <3>2. b < x
      BY <1>2, <2>1, <3>1
    <3>3. x >= BlockAfter(m, b)
      BY <1>1, <3>2, NoHeaderInside
    <3> QED BY <1>2, <2>1, <3>1, <3>3
  <2> QED BY <1>4, <1>11, <2>1, <2>2
<1>12. /\ \A x \in H : t[x].n = m[x].n
       /\ \A x \in H : x # b => t[x].ta = m[x].ta
       /\ \A x \in H : x # d => t[x].pa = m[x].pa
       /\ t[b].ta = 0 /\ t[d].pa = 0
  BY <1>1, <1>4, <1>10, <1>11
<1>13. Elsewhere(m, t, H, F \cup {b}, b)
  <2>1. ASSUME NEW x \in Addr, x \notin H, x \notin LinkWords(F \cup {b}),
               ~(b <= x /\ x < BlockAfter(m, b))
        PROVE  t[x] = m[x]
    <3>1. x \in Nat
      BY AddrIs
    <3>2. ~(b + 3 <= x /\ x <= d - 1) /\ x # b /\ x # d
      BY <1>1, <1>2, <2>1, <3>1
    <3> QED BY <1>4, <1>8, <2>1, <3>2 DEF OnlyLinks
  <2> QED BY <2>1 DEF Elsewhere
<1>14. Loose(m, t, H, FreeIn(m, H), b)
  BY <1>0, <1>8, <1>9, <1>12, <1>13 DEF Loose
<1> QED BY <1>14, Loosens

\* GrowBlock: the free block p takes in the allocated block b behind it.
LEMMA FreesIntoPrev ==
  ASSUME NEW m, NEW list, NEW H, NEW e, Sane(m, list, H, e), NEW b \in TakenIn(m, H),
         NEW d \in TakenIn(m, H), d = BlockAfter(m, b),
         NEW p \in FreeIn(m, H), BlockAfter(m, p) = b, p # Mem2,
         NEW t, t = GrowBlock(m, p, m[p].n + m[b].n)
  PROVE  /\ Sane(t, list, H \ {b}, e) /\ FreeIn(t, H \ {b}) = FreeIn(m, H)
         /\ Kept(m, t, H \ {b}, TakenIn(m, H) \ {b})
<1> DEFINE F == FreeIn(m, H)
           J == H \ {b}
<1>1. /\ Heap(m, H, e) /\ Tiled(m, H, e) /\ Marked(m, H) /\ Linked(m, F) /\ Tomb(m, H)
      /\ b \in H /\ m[b].ta = 1 /\ d \in H /\ m[d].ta = 1 /\ p \in H /\ m[p].ta = 0
      /\ list \in F /\ H \subseteq Addr /\ m \in [Addr -> Cell] /\ b \notin F /\ e \in Nat
      /\ e <= MaxWords + 1 /\ 1 \in H
  BY DEF Sane, TakenIn, FreeIn, Heap, Tiled
<1>2. /\ b \in Nat /\ b \in Addr /\ m[b].n \in Nat /\ m[b].n >= 1 /\ d = b + m[b].n
      /\ d \in Nat /\ d \in Addr /\ BlockAfter(m, b) <= e
  BY <1>1, BlockAfterIs
<1>3. /\ p \in Nat /\ p \in Addr /\ p >= 1 /\ m[p].n \in Nat /\ m[p].n >= 4 /\ b = p + m[p].n
  BY <1>1, FreeBlockIs
<1>4. PICK size \in Nat : size = m[p].n + m[b].n
  BY <1>2, <1>3
<1>5. p + size = d /\ size >= 4 /\ d - 1 \in Addr /\ d > b /\ b > p
  <2>1. p + size = d /\ size >= 4 /\ d > b /\ b > p
    BY <1>2, <1>3, <1>4
  <2>2. d - 1 \in Addr
    BY <1>2, <2>1, <1>3, CodeMemoryAssumption DEF Addr
  <2> QED BY <2>1, <2>2
<1>6. PICK u : u = [m EXCEPT ![p].n = size]
  OBVIOUS
<1>7. /\ u \in [Addr -> Cell] /\ u[p].n = size /\ u[p].ta = m[p].ta /\ u[p].pa = m[p].pa
      /\ \A x \in Addr : x # p => u[x] = m[x]
  BY <1>1, <1>3, <1>6 DEF Cell
<1>8. BlockAfter(u, p) = d
  BY <1>5, <1>7 DEF BlockAfter
<1>9. PICK g : g = SetEndOfBlockSizeMarker(u, p)
  OBVIOUS
<1>10. g \in [Addr -> Cell] /\ g[d - 1].n = size /\ OnlyWithin(u, g, p + 3, d - 1)
  BY <1>3, <1>5, <1>7, <1>8, <1>9, Marks
<1>11. g[p] = u[p] /\ g[d] = m[d] /\ BlockAfter(g, p) = d
  <2>1. ~(p + 3 <= p /\ p <= d - 1) /\ ~(p + 3 <= d /\ d <= d - 1) /\ d # p
    BY <1>2, <1>3, <1>5
  <2>2. g[p] = u[p] /\ g[d] = u[d]
    BY <1>2, <1>3, <1>10, <2>1 DEF OnlyWithin
  <2> QED BY <1>2, <1>7, <1>8, <2>1, <2>2 DEF BlockAfter
<1>12. t = [g EXCEPT ![d].pa = 0]
  BY <1>4, <1>6, <1>9, <1>11 DEF GrowBlock
<1>13. /\ t \in [Addr -> Cell] /\ t[d].pa = 0 /\ t[d].ta = m[d].ta /\ t[d].n = m[d].n
       /\ \A x \in Addr : t[x].n = g[x].n
       /\ \A x \in Addr : x # d => t[x] = g[x]
  BY <1>2, <1>10, <1>11, <1>12 DEF Cell
<1>14. ASSUME NEW x \in Addr, ~(p <= x /\ x <= d) PROVE t[x] = m[x]
  <2>1. x \in Nat
    BY AddrIs
  <2>2. x # p /\ x # d /\ ~(p + 3 <= x /\ x <= d - 1)
    BY <1>2, <1>3, <1>5, <1>14, <2>1
  <2> QED BY <1>7, <1>10, <1>13, <2>2 DEF OnlyWithin
<1>15. t[p].n = size /\ t[p].ta = 0 /\ t[p].pa = m[p].pa /\ BlockAfter(t, p) = d
       /\ t[d - 1].n = size /\ t[p + 1] = m[p + 1] /\ t[p + 2] = m[p + 2]
       /\ p + 1 \in Addr /\ p + 2 \in Addr
  <2>1. p # d /\ d - 1 # d /\ p + 1 # d /\ p + 2 # d /\ p + 1 # p /\ p + 2 # p
        /\ ~(p + 3 <= p + 1) /\ ~(p + 3 <= p + 2)
    BY <1>2, <1>3, <1>5
  <2>2. p + 1 \in Addr /\ p + 2 \in Addr
    BY <1>1, FreeBlockIs
  <2>3. t[p] = g[p] /\ t[d - 1] = g[d - 1] /\ t[p + 1] = g[p + 1] /\ t[p + 2] = g[p + 2]
    BY <1>3, <1>5, <1>13, <2>1, <2>2
  <2>4. g[p + 1] = m[p + 1] /\ g[p + 2] = m[p + 2]
    BY <1>7, <1>10, <2>1, <2>2 DEF OnlyWithin
  <2>5. BlockAfter(t, p) = d
    BY <1>5, <1>7, <1>11, <2>3 DEF BlockAfter
  <2> QED BY <1>1, <1>7, <1>10, <1>11, <2>2, <2>3, <2>4, <2>5
<1>16. ASSUME NEW c \in H, c # p, c # b, NEW x \in Nat, c <= x, x < BlockAfter(m, c)
       PROVE  ~(p <= x /\ x < d)
  <2>1. ~(p <= x /\ x < b)
    BY <1>1, <1>16, OneBlock
  <2>2. ~(b <= x /\ x < d)
    BY <1>1, <1>16, OneBlock
  <2> QED BY <1>2, <1>3, <1>16, <2>1, <2>2
<1>17. ASSUME NEW c \in H, c # p, c # b
       PROVE  /\ t[c].n = m[c].n /\ t[c].ta = m[c].ta /\ BlockAfter(t, c) = BlockAfter(m, c)
              /\ c # d => t[c].pa = m[c].pa
  <2>1. /\ c \in Nat /\ c \in Addr /\ m[c].n \in Nat /\ m[c].n >= 1 /\ BlockAfter(m, c) = c + m[c].n
    BY <1>1, BlockAfterIs
  <2>2. c <= c /\ c < BlockAfter(m, c)
    BY <2>1
  <2>3. ~(p <= c /\ c < d)
    BY <1>16, <1>17, <2>1, <2>2
  <2>4. c # d => t[c] = m[c]
    <3>1. ASSUME c # d PROVE ~(p <= c /\ c <= d)
      BY <1>2, <2>1, <2>3, <3>1
    <3> QED BY <1>14, <2>1, <3>1
  <2> QED BY <1>13, <2>4 DEF BlockAfter
<1>18. ASSUME NEW c \in H, c # p, c # b, NEW x \in Nat, c < x, x < BlockAfter(m, c), x \in Addr
       PROVE  t[x] = m[x]
  <2>1. c \in Nat /\ c <= x
    BY <1>1, <1>18, BlockAfterIs
  <2>2. ~(p <= x /\ x < d)
    BY <1>16, <1>18, <2>1
  <2>3. x # d
    <3>1. SUFFICES ASSUME x = d PROVE FALSE
      OBVIOUS
    <3>2. d >= BlockAfter(m, c) /\ BlockAfter(m, c) \in Nat
      BY <1>1, <1>18, <3>1, NoHeaderInside, BlockAfterIs
    <3> QED BY <1>2, <1>18, <3>1, <3>2
  <2>4. ~(p <= x /\ x <= d)
    BY <1>2, <2>2, <2>3
  <2> QED BY <1>14, <1>18, <2>4
<1>19. Tiled(t, J, e)
  <2>1. J \subseteq Addr /\ 1 \in J
    <3>1. 1 # b
      BY <1>2, <1>3, <1>5
    <3> QED BY <1>1, <3>1
  <2>2. d \in J /\ p \in J
    BY <1>1, <1>5, <1>2, <1>3
  <2>3. ASSUME NEW x \in J
        PROVE  /\ t[x].n >= 1 /\ BlockAfter(t, x) <= e
               /\ BlockAfter(t, x) # e => BlockAfter(t, x) \in J
    <3>1. CASE x = p
      BY <1>2, <1>5, <1>15, <2>2, <3>1
    <3>2. CASE x # p
      <4>1. BlockAfter(m, x) # b
        BY <1>1, <3>2, OneBefore
      <4>2. /\ m[x].n >= 1 /\ BlockAfter(m, x) <= e
            /\ BlockAfter(m, x) # e => BlockAfter(m, x) \in H
        BY <1>1 DEF Tiled
      <4> QED BY <1>17, <3>2, <4>1, <4>2
    <3> QED BY <3>1, <3>2
  <2>4. ASSUME NEW x \in J, NEW y \in J, x < y PROVE BlockAfter(t, x) <= y
    <3>1. y \in H /\ y \in Nat /\ x \in H
      BY <1>1, BlockAfterIs
    <3>2. CASE x = p
      <4>1. y >= b
        BY <1>1, <2>4, <3>1, <3>2, NoHeaderInside
      <4>2. b < y
        BY <1>2, <3>1, <4>1
      <4>3. y >= d
        BY <1>1, <3>1, <4>2, NoHeaderInside
      <4> QED BY <1>2, <1>15, <3>1, <3>2, <4>3
    <3>3. CASE x # p
      <4>1. BlockAfter(m, x) <= y
        BY <1>1, <2>4, <3>1 DEF Tiled
      <4> QED BY <1>17, <3>3, <4>1
    <3> QED BY <3>2, <3>3
  <2> QED BY <1>1, <1>13, <2>1, <2>3, <2>4 DEF Tiled
<1>20. ASSUME NEW x \in J, BlockAfter(t, x) \in J PROVE t[BlockAfter(t, x)].pa = t[x].ta
  <2>1. CASE x = p
    BY <1>13, <1>15, <2>1
  <2>2. CASE x # p
    <3>1. BlockAfter(t, x) = BlockAfter(m, x) /\ t[x].ta = m[x].ta
      BY <1>17, <2>2
    <3>2. BlockAfter(m, x) # d
      BY <1>1, OneBefore
    <3>3. t[BlockAfter(m, x)].pa = m[BlockAfter(m, x)].pa
      BY <1>15, <1>17, <1>20, <3>1, <3>2
    <3>4. m[BlockAfter(m, x)].pa = m[x].ta
      BY <1>1, <1>20, <3>1 DEF Marked
    <3> QED BY <3>1, <3>3, <3>4
  <2> QED BY <2>1, <2>2
<1>21. ASSUME NEW x \in J, t[x].ta = 0
       PROVE  /\ t[x].n >= MinBlock
              /\ BlockAfter(t, x) \in J /\ t[BlockAfter(t, x)].ta = 1
              /\ t[BlockAfter(t, x) - 1].n = t[x].n
  <2>1. CASE x = p
    <3>1. d \in J
      BY <1>1, <1>2, <1>5
    <3> QED BY <1>1, <1>5, <1>13, <1>15, <2>1, <3>1 DEF MinBlock
  <2>2. CASE x # p
    <3>1. x \in FreeIn(m, H)
      BY <1>17, <1>21, <2>2 DEF FreeIn
    <3>2. /\ m[x].n >= 4 /\ BlockAfter(m, x) \in H /\ m[BlockAfter(m, x)].ta = 1
          /\ x \in Nat /\ m[x].n \in Nat
          /\ BlockAfter(m, x) = x + m[x].n
          /\ m[BlockAfter(m, x) - 1].n = m[x].n /\ BlockAfter(m, x) - 1 \in Addr
      BY <1>1, <3>1, FreeBlockIs
    <3>3. BlockAfter(m, x) # b /\ BlockAfter(m, x) # p
      BY <1>1, <2>2, <3>2, OneBefore
    <3>4. PICK z \in Nat : z = BlockAfter(m, x) - 1
      BY <3>2
    <3>5. x < z /\ z < BlockAfter(m, x) /\ z \in Addr
      BY <3>2, <3>4
    <3>6. t[z] = m[z]
      BY <1>18, <2>2, <3>5
    <3> QED BY <1>17, <2>2, <3>2, <3>3, <3>4, <3>6 DEF MinBlock
  <2> QED BY <2>1, <2>2
<1>22. t[1].pa = 1
  <2>1. 1 # b /\ 1 # d
    BY <1>2, <1>3, <1>5
  <2> QED BY <1>1, <1>15, <1>17, <2>1 DEF Marked
<1>23. Heap(t, J, e)
  BY <1>19, <1>20, <1>21, <1>22 DEF Heap, Marked
<1>24. FreeIn(t, J) = F
  BY <1>1, <1>15, <1>17 DEF FreeIn
<1>25. Linked(t, F)
  <2>1. ASSUME NEW x \in F PROVE t[x + 1].n = m[x + 1].n /\ t[x + 2].n = m[x + 2].n
    <3>1. CASE x = p
      BY <1>15, <3>1
    <3>2. CASE x # p
      <4>1. /\ x \in H /\ x # b /\ x \in Nat /\ m[x].n \in Nat /\ m[x].n >= 4
            /\ BlockAfter(m, x) = x + m[x].n /\ x + 1 \in Addr /\ x + 2 \in Addr
        BY <1>1, FreeBlockIs
      <4>2. PICK y \in Nat, z \in Nat : y = x + 1 /\ z = x + 2
        BY <4>1
      <4>3. x < y /\ y < BlockAfter(m, x) /\ x < z /\ z < BlockAfter(m, x)
        BY <4>1, <4>2
      <4>4. t[y] = m[y] /\ t[z] = m[z]
        BY <1>18, <3>2, <4>1, <4>2, <4>3
      <4> QED BY <4>2, <4>4
    <3> QED BY <3>1, <3>2
  <2> QED BY <1>1, <2>1, LinkedSame
<1>26. Tomb(t, J)
  <2>1. Mem2 # b
    BY <1>1 DEF Tomb
  <2> QED BY <1>1, <1>17, <2>1 DEF Tomb
<1>27. Kept(m, t, J, TakenIn(m, H) \ {b})
  <2>1. ASSUME NEW c \in TakenIn(m, H) \ {b}
        PROVE  /\ c \in J /\ t[c].ta = 1 /\ t[c].n = m[c].n
               /\ \A x \in (c + 1)..(BlockAfter(m, c) - 1) : t[x] = m[x]
    <3>1. c \in H /\ c # b /\ c # p /\ m[c].ta = 1
      BY <1>1 DEF TakenIn
    <3>2. c \in Nat /\ c >= 1 /\ BlockAfter(m, c) \in Nat /\ BlockAfter(m, c) <= e
      BY <1>1, <3>1, BlockAfterIs
    <3>3. ASSUME NEW x \in (c + 1)..(BlockAfter(m, c) - 1) PROVE t[x] = m[x]
      <4>1. x \in Nat /\ c < x /\ x < BlockAfter(m, c)
        BY <3>2
      <4>2. x \in Addr
        BY <1>1, <3>2, <4>1, AddrIs DEF Addr
      <4> QED BY <1>18, <3>1, <4>1, <4>2
    <3> QED BY <1>17, <3>1, <3>3
  <2> QED BY <2>1 DEF Kept
<1> QED BY <1>1, <1>23, <1>24, <1>25, <1>26, <1>27 DEF Sane

\* What FreeBlock works on: b is allocated, it is not a separator, and the tiny
\* block is not its neighbour.
Freeable(m, H, b) ==
  /\ b \in TakenIn(m, H) /\ m[b].n >= 4
  /\ BlockAfter(m, b) \in H /\ BlockAfter(m, b) # Mem2 /\ BlockAfter(m, Mem2) # b

\* What is left to do once the block behind is not free, or is part of b.
FreedAfter(m, list, lost, b, from) ==
  LET prev == b - m[b - 1].n
  IN  IF m[b].pa = 0
      THEN [mem  |-> GrowBlock(m, prev, m[prev].n + m[b].n),
            list |-> ListLeft(list, lost, prev)]
      ELSE [mem |-> FreedAlone(m, b, from), list |-> ListLeft(list, lost, b)]

LEMMA FreesAfter ==
  ASSUME NEW m, NEW list, NEW lost \in BOOLEAN, NEW from, NEW H, NEW e, Sane(m, from, H, e), NEW b,
         Freeable(m, H, b), BlockAfter(m, b) \in TakenIn(m, H), ~lost => from = list,
         NEW g, g = FreedAfter(m, list, lost, b, from)
  PROVE  \E J : Sane(g.mem, g.list, J, e) /\ Kept(m, g.mem, J, TakenIn(m, H) \ {b})
<1>1. PICK d \in TakenIn(m, H) : d = BlockAfter(m, b)
  OBVIOUS
<1>2. /\ b \in TakenIn(m, H) /\ m[b].n >= 4 /\ BlockAfter(m, Mem2) # b
  BY DEF Freeable
<1>3. /\ Heap(m, H, e) /\ Tiled(m, H, e) /\ Marked(m, H) /\ from \in FreeIn(m, H)
      /\ b \in H /\ m \in [Addr -> Cell] /\ H \subseteq Addr
  BY <1>2 DEF Sane, Heap, Tiled, TakenIn
<1>4. CASE m[b].pa = 0
  <2>1. b # 1
    BY <1>3, <1>4 DEF Marked
  <2>2. PICK p \in H : BlockAfter(m, p) = b /\ p < b
    BY <1>3, <2>1, BlockBefore
  <2>3. m[p].ta = 0 /\ p \in FreeIn(m, H)
    BY <1>3, <1>4, <2>2 DEF Marked, FreeIn
  <2>4. m[b - 1].n = m[p].n /\ b = p + m[p].n /\ m[p].n \in Nat /\ p \in Nat
    BY <1>3, <2>2, <2>3, FreeBlockIs
  <2>5. b - m[b - 1].n = p
    BY <2>4
  <2>6. p # Mem2
    BY <1>2, <2>2
  <2>7. g.mem = GrowBlock(m, p, m[p].n + m[b].n) /\ g.list = ListLeft(list, lost, p)
    BY <1>4, <2>5 DEF FreedAfter
  <2>8. PICK t : t = g.mem
    OBVIOUS
  <2>9. /\ Sane(t, from, H \ {b}, e) /\ FreeIn(t, H \ {b}) = FreeIn(m, H)
        /\ Kept(m, t, H \ {b}, TakenIn(m, H) \ {b})
    <3>1. /\ Sane(m, from, H, e) /\ b \in TakenIn(m, H) /\ d \in TakenIn(m, H)
          /\ d = BlockAfter(m, b) /\ p \in FreeIn(m, H) /\ BlockAfter(m, p) = b /\ p # Mem2
          /\ t = GrowBlock(m, p, m[p].n + m[b].n)
      BY <1>1, <1>2, <2>2, <2>3, <2>6, <2>7, <2>8
    <3> QED BY <3>1, FreesIntoPrev
  <2>10. g.list \in FreeIn(t, H \ {b})
    BY <1>3, <2>3, <2>7, <2>9 DEF ListLeft
  <2>11. Sane(t, g.list, H \ {b}, e)
    BY <2>9, <2>10 DEF Sane
  <2> QED BY <2>8, <2>9, <2>11
<1>5. CASE m[b].pa # 0
  <2>1. m[b].pa = 1
    BY <1>3, <1>5 DEF Cell
  <2>2. g.mem = FreedAlone(m, b, from) /\ g.list = ListLeft(list, lost, b)
    BY <1>5 DEF FreedAfter
  <2>3. PICK t : t = g.mem
    OBVIOUS
  <2>4. /\ Sane(t, b, H, e) /\ FreeIn(t, H) = FreeIn(m, H) \cup {b}
        /\ Kept(m, t, H, TakenIn(m, H) \ {b})
    <3>1. /\ Sane(m, from, H, e) /\ Alone(m, H, b) /\ from \in FreeIn(m, H)
          /\ t = FreedAlone(m, b, from)
      BY <1>1, <1>2, <1>3, <2>1, <2>2, <2>3 DEF Alone
    <3>2. Loosened(m, t, H, e, b)
      BY <3>1, FreesAlone
    <3> QED BY <3>2 DEF Loosened
  <2>5. g.list \in FreeIn(t, H)
    BY <1>3, <2>2, <2>4 DEF ListLeft
  <2>6. Sane(t, g.list, H, e)
    BY <2>4, <2>5 DEF Sane
  <2> QED BY <2>3, <2>4, <2>6
<1> QED BY <1>4, <1>5

\* FreeBlock.
LEMMA FreesBlock ==
  ASSUME NEW m, NEW list, NEW H, NEW e, Sane(m, list, H, e), NEW b, Freeable(m, H, b),
         NEW g, g = FreeBlock(m, list, b)
  PROVE  \E J : Sane(g.mem, g.list, J, e) /\ Kept(m, g.mem, J, TakenIn(m, H) \ {b})
<1>1. PICK c : c = BlockAfter(m, b)
  OBVIOUS
<1>2. /\ b \in TakenIn(m, H) /\ m[b].n >= 4 /\ c \in H /\ c # Mem2 /\ BlockAfter(m, Mem2) # b
  BY <1>1 DEF Freeable
<1>3. /\ Heap(m, H, e) /\ Tiled(m, H, e) /\ Marked(m, H) /\ list \in FreeIn(m, H)
      /\ Linked(m, FreeIn(m, H))
      /\ b \in H /\ m[b].ta = 1 /\ m \in [Addr -> Cell] /\ H \subseteq Addr
      /\ m[Mem2].n = MinBlock
  BY <1>2 DEF Sane, Heap, Tiled, TakenIn, Tomb
<1>4. CASE m[c].ta = 0
  <2>1. Merges(m, b) /\ c \in FreeIn(m, H)
    BY <1>1, <1>2, <1>4 DEF Merges, FreeIn
  <2>2. PICK lost \in BOOLEAN : lost <=> c = list
    OBVIOUS
  <2>3. PICK t : t = MergedAfter(m, b)
    OBVIOUS
  <2>4. PICK from : from = IF lost THEN NextOf(m, c) ELSE list
    OBVIOUS
  <2>5. PICK J : J = H \ {c}
    OBVIOUS
  <2>6. /\ Heap(t, H \ {c}, e) /\ Tomb(t, H \ {c}) /\ Linked(t, FreeIn(m, H) \ {c})
        /\ FreeIn(t, H \ {c}) = FreeIn(m, H) \ {c} /\ NextOf(m, c) \in FreeIn(m, H) \ {c}
        /\ b \in TakenIn(t, H \ {c}) /\ t[b].n = m[b].n + m[c].n /\ t[b].pa = m[b].pa
        /\ BlockAfter(t, b) = BlockAfter(m, c)
        /\ Kept(m, t, H \ {c}, TakenIn(m, H) \ {b})
    <3>1. /\ Sane(m, list, H, e) /\ b \in TakenIn(m, H) /\ c \in FreeIn(m, H)
          /\ c = BlockAfter(m, b) /\ c # Mem2 /\ t = MergedAfter(m, b)
      BY <1>1, <1>2, <2>1, <2>3
    <3>2. Merged(m, t, H, e, b, c)
      BY <3>1, Merging
    <3> QED BY <3>2 DEF Merged
  <2>7. Sane(t, from, J, e)
    <3>1. from \in FreeIn(t, J)
      BY <1>3, <2>2, <2>4, <2>5, <2>6
    <3> QED BY <2>5, <2>6, <3>1 DEF Sane
  <2>8. BlockAfter(m, c) \in TakenIn(m, H) \ {b}
    <3>1. /\ c \in Nat /\ m[c].n \in Nat /\ m[c].n >= 4 /\ BlockAfter(m, c) = c + m[c].n
          /\ BlockAfter(m, c) \in H /\ m[BlockAfter(m, c)].ta = 1
      BY <1>3, <2>1, FreeBlockIs
    <3>2. b \in Nat /\ m[b].n \in Nat /\ c = b + m[b].n
      BY <1>1, <1>3, BlockAfterIs
    <3> QED BY <3>1, <3>2 DEF TakenIn
  <2>9. TakenIn(m, H) \ {b} \subseteq TakenIn(t, J) \ {b}
    BY <2>5, <2>6 DEF Kept, TakenIn
  <2>10. BlockAfter(t, b) \in TakenIn(t, J)
    BY <2>6, <2>8, <2>9
  <2>11. Freeable(t, J, b)
    <3>1. t[b].n >= 4
      <4>1. m[b].n \in Nat /\ m[c].n \in Nat
        BY <1>2, <1>3, BlockAfterIs
      <4> QED BY <1>2, <2>6, <4>1
    <3>2. BlockAfter(t, Mem2) # b
      BY <1>2, <1>3, <2>6 DEF Tomb, BlockAfter
    <3>3. BlockAfter(t, b) # Mem2 /\ BlockAfter(t, b) \in J
      BY <2>5, <2>6, <2>10 DEF TakenIn, Tomb
    <3> QED BY <2>5, <2>6, <3>1, <3>2, <3>3 DEF Freeable
  <2>12. g = FreedAfter(t, list, lost, b, from)
    <3>1. (Merges(m, b) /\ c = list) = lost
      BY <2>1, <2>2
    <3> QED BY <1>1, <2>1, <2>3, <2>4, <3>1 DEF FreeBlock, FreedAfter, FreedAlone, Untaken
  <2>13. ~lost => from = list
    BY <2>4
  <2>14. \E K : Sane(g.mem, g.list, K, e) /\ Kept(t, g.mem, K, TakenIn(t, J) \ {b})
    BY <2>7, <2>10, <2>11, <2>12, <2>13, FreesAfter
  <2>15. PICK K : Sane(g.mem, g.list, K, e) /\ Kept(t, g.mem, K, TakenIn(t, J) \ {b})
    BY <2>14
  <2>16. Kept(m, g.mem, K, TakenIn(m, H) \ {b})
    <3>1. Kept(m, t, J, TakenIn(m, H) \ {b})
      BY <2>5, <2>6
    <3> QED BY <2>9, <2>15, <3>1, KeptKept
  <2> QED BY <2>15, <2>16
<1>5. CASE m[c].ta # 0
  <2>1. m[c].ta = 1 /\ ~Merges(m, b) /\ c \in TakenIn(m, H)
    BY <1>1, <1>2, <1>3, <1>5 DEF Merges, TakenIn, Cell
  <2>2. PICK lost \in BOOLEAN : lost = FALSE
    OBVIOUS
  <2>3. g = FreedAfter(m, list, lost, b, list)
    <3>1. (Merges(m, b) /\ c = list) = lost
      BY <2>1, <2>2
    <3> QED BY <1>1, <2>1, <2>2, <3>1 DEF FreeBlock, FreedAfter, FreedAlone, Untaken
  <2> QED BY <1>1, <2>1, <2>2, <2>3, FreesAfter
<1> QED BY <1>4, <1>5

\* Freed, of a block that is there.
LEMMA FreesIt ==
  ASSUME NEW m, NEW list, NEW H, NEW e, Sane(m, list, H, e), NEW b \in Nat \ {0}, Freeable(m, H, b),
         NEW g0, g0.mem = m, g0.list = list, NEW g, g = Freed(g0, b)
  PROVE  \E J : Sane(g.mem, g.list, J, e) /\ Kept(m, g.mem, J, TakenIn(m, H) \ {b})
<1>1. PICK t : t = Fill(m, b + 1, BlockAfter(m, b) - 1, Poison)
  OBVIOUS
<1>2. b \in TakenIn(m, H) /\ m \in [Addr -> Cell] /\ Mem2 \in H
      /\ b \in H /\ H \subseteq Addr
  BY DEF Freeable, Sane, Heap, Tiled, TakenIn, Tomb
<1>3. t \in [Addr -> Cell] /\ OnlyWithin(m, t, b + 1, BlockAfter(m, b) - 1)
  BY <1>1, <1>2, Fills, WordsAreCells
<1>4. /\ Sane(t, list, H, e) /\ FreeIn(t, H) = FreeIn(m, H) /\ TakenIn(t, H) = TakenIn(m, H)
      /\ \A x \in H : t[x] = m[x]
      /\ Kept(m, t, H, TakenIn(m, H) \ {b})
  BY <1>2, <1>3, WritesInside
<1>5. Freeable(t, H, b)
  BY <1>2, <1>4 DEF Freeable, BlockAfter
<1>6. g = FreeBlock(t, list, b)
  BY <1>1 DEF Freed
<1>7. \E J : Sane(g.mem, g.list, J, e) /\ Kept(t, g.mem, J, TakenIn(t, H) \ {b})
  BY <1>4, <1>5, <1>6, FreesBlock
<1>8. PICK J : Sane(g.mem, g.list, J, e) /\ Kept(t, g.mem, J, TakenIn(t, H) \ {b})
  BY <1>7
<1>9. TakenIn(m, H) \ {b} \subseteq TakenIn(t, H) \ {b}
  BY <1>4
<1>10. Kept(m, g.mem, J, TakenIn(m, H) \ {b})
  BY <1>4, <1>8, <1>9, KeptKept
<1> QED BY <1>8, <1>10

-----------------------------------------------------------------------------
(***************************************************************************)
(* Code memory: a block is trimmed.                                        *)
(***************************************************************************)
\* The allocated block b becomes two of them, at b and at rest.
Cut(m, b, new, rest, k) == [[m EXCEPT ![b].n = new] EXCEPT ![rest] = Header(1, 1, k)]

\* The words of v, where m was cut.
IsCut(m, v, b, new, rest, k, ta) ==
  /\ v \in [Addr -> Cell] /\ v[b].n = new /\ v[b].ta = m[b].ta /\ v[b].pa = m[b].pa
  /\ v[rest].n = k /\ v[rest].ta = ta /\ v[rest].pa = 1
  /\ \A x \in Addr : x # b /\ x # rest => v[x] = m[x]

LEMMA CutIs ==
  ASSUME NEW m \in [Addr -> Cell], NEW b \in Addr, NEW new \in Nat, NEW rest \in Addr, rest # b,
         NEW k \in Nat, NEW ta \in {0, 1}, NEW v,
         v = [[m EXCEPT ![b].n = new] EXCEPT ![rest] = Header(ta, 1, k)]
  PROVE  IsCut(m, v, b, new, rest, k, ta)
<1>1. PICK u : u = [m EXCEPT ![b].n = new]
  OBVIOUS
<1>2. /\ u \in [Addr -> Cell] /\ u[b].n = new /\ u[b].ta = m[b].ta /\ u[b].pa = m[b].pa
      /\ \A x \in Addr : x # b => u[x] = m[x]
  BY <1>1 DEF Cell
<1>3. PICK h : h = Header(ta, 1, k)
  OBVIOUS
<1>4. h \in Cell /\ h.n = k /\ h.ta = ta /\ h.pa = 1
  BY <1>3, WordsAreCells DEF Header
<1>5. v = [u EXCEPT ![rest] = h]
  BY <1>1, <1>3
<1>6. v \in [Addr -> Cell] /\ v[rest] = h /\ \A x \in Addr : x # rest => v[x] = u[x]
  BY <1>2, <1>4, <1>5
<1> QED BY <1>2, <1>4, <1>6 DEF IsCut

\* Where rest lies.
Cuts(m, H, b, new, rest, k) ==
  /\ b \in TakenIn(m, H) /\ BlockAfter(m, b) \in TakenIn(m, H)
  /\ new \in Nat /\ new >= 1 /\ k \in Nat /\ k >= 1 /\ rest = b + new /\ m[b].n = new + k

LEMMA CutsWhere ==
  ASSUME NEW m, NEW H, NEW e, Tiled(m, H, e), NEW b, NEW new, NEW rest, NEW k,
         Cuts(m, H, b, new, rest, k)
  PROVE  /\ rest \in Addr /\ rest \in Nat /\ b < rest /\ rest \notin H /\ rest # e
         /\ rest + k = BlockAfter(m, b) /\ rest < BlockAfter(m, b)
         /\ b \in H /\ b \in Addr /\ b \in Nat /\ m[b].n \in Nat
<1>1. /\ b \in H /\ new \in Nat /\ new >= 1 /\ k \in Nat /\ k >= 1 /\ rest = b + new
      /\ m[b].n = new + k
  BY DEF Cuts, TakenIn
<1>2. /\ b \in Nat /\ b >= 1 /\ b \in Addr /\ BlockAfter(m, b) = b + m[b].n /\ m[b].n \in Nat
      /\ BlockAfter(m, b) <= e /\ e \in Nat /\ e <= MaxWords + 1
  BY <1>1, BlockAfterIs
<1>3. /\ rest \in Nat /\ b < rest /\ rest + k = BlockAfter(m, b) /\ rest < BlockAfter(m, b)
      /\ rest # e
  BY <1>1, <1>2
<1>4. rest \in Addr
  BY <1>2, <1>3, AddrIs DEF Addr
<1>5. rest \notin H
  <2>1. SUFFICES ASSUME rest \in H PROVE FALSE
    OBVIOUS
  <2>2. rest >= BlockAfter(m, b)
    BY <1>1, <1>3, <2>1, NoHeaderInside
  <2> QED BY <1>2, <1>3, <2>2
<1> QED BY <1>1, <1>2, <1>3, <1>4, <1>5

LEMMA Splits ==
  ASSUME NEW m, NEW list, NEW H, NEW e, Sane(m, list, H, e), NEW b, NEW new, NEW rest, NEW k,
         Cuts(m, H, b, new, rest, k), NEW t, t = Cut(m, b, new, rest, k)
  PROVE  /\ Sane(t, list, H \cup {rest}, e)
         /\ Kept(m, t, H \cup {rest}, TakenIn(m, H) \ {b})
<1> DEFINE F == FreeIn(m, H)
           J == H \cup {rest}
<1>1. PICK d : d = BlockAfter(m, b)
  OBVIOUS
<1>2. /\ Heap(m, H, e) /\ Tiled(m, H, e) /\ Marked(m, H) /\ Linked(m, F) /\ Tomb(m, H)
      /\ b \in H /\ m[b].ta = 1 /\ d \in H /\ m[d].ta = 1 /\ list \in F
      /\ H \subseteq Addr /\ m \in [Addr -> Cell] /\ 1 \in H /\ e \in Nat /\ e <= MaxWords + 1
      /\ new \in Nat /\ new >= 1 /\ k \in Nat /\ k >= 1 /\ rest = b + new /\ m[b].n = new + k
  BY <1>1 DEF Sane, TakenIn, FreeIn, Heap, Tiled, Cuts
<1>3. /\ rest \in Addr /\ rest \in Nat /\ b < rest /\ rest \notin H /\ rest # e
      /\ rest + k = d /\ rest < d /\ b \in Addr /\ b \in Nat /\ m[b].n \in Nat
  BY <1>1, <1>2, CutsWhere
<1>4. /\ t \in [Addr -> Cell] /\ t[b].n = new /\ t[b].ta = m[b].ta /\ t[b].pa = m[b].pa
      /\ t[rest].n = k /\ t[rest].ta = 1 /\ t[rest].pa = 1
      /\ \A x \in Addr : x # b /\ x # rest => t[x] = m[x]
  <2>1. rest # b
    BY <1>3
  <2>2. t = [[m EXCEPT ![b].n = new] EXCEPT ![rest] = Header(1, 1, k)]
    BY DEF Cut
  <2>3. IsCut(m, t, b, new, rest, k, 1)
    BY <1>2, <1>3, <2>1, <2>2, CutIs
  <2> QED BY <2>3 DEF IsCut
<1>5. BlockAfter(t, b) = rest /\ BlockAfter(t, rest) = d /\ d \in Nat /\ d <= e
  <2>1. d \in Nat /\ d <= e
    BY <1>1, <1>2, BlockAfterIs
  <2> QED BY <1>2, <1>3, <1>4, <2>1 DEF BlockAfter
<1>6. ASSUME NEW x \in H, x # b
      PROVE  t[x] = m[x] /\ BlockAfter(t, x) = BlockAfter(m, x) /\ BlockAfter(m, x) # rest
  <2>1. BlockAfter(m, x) # rest
    BY <1>2, <1>3 DEF Tiled
  <2>2. t[x] = m[x]
    BY <1>2, <1>3, <1>4, <1>6
  <2> QED BY <2>1, <2>2 DEF BlockAfter
<1>7. ASSUME NEW c \in H, c # b, NEW x \in Nat, c <= x, x < BlockAfter(m, c) PROVE x # b /\ x # rest
  BY <1>1, <1>2, <1>3, <1>7, OneBlock
<1>8. Tiled(t, J, e)
  <2>1. J \subseteq Addr /\ 1 \in J
    BY <1>2, <1>3
  <2>2. ASSUME NEW x \in J
        PROVE  /\ t[x].n >= 1 /\ BlockAfter(t, x) <= e
               /\ BlockAfter(t, x) # e => BlockAfter(t, x) \in J
    <3>1. CASE x = b
      BY <1>2, <1>3, <1>4, <1>5, <3>1
    <3>2. CASE x = rest
      BY <1>2, <1>4, <1>5, <3>2
    <3>3. CASE x # b /\ x # rest
      BY <1>2, <1>6, <3>3 DEF Tiled
    <3> QED BY <3>1, <3>2, <3>3
  <2>3. ASSUME NEW x \in J, NEW y \in J, x < y PROVE BlockAfter(t, x) <= y
    <3>1. /\ x \in Nat /\ y \in Nat
      BY <1>2, <1>3, AddrIs
    <3>2. ASSUME y \in H, b < y PROVE d <= y
      BY <1>1, <1>2, <3>2 DEF Tiled
    <3>3. CASE x = b
      BY <1>3, <1>5, <2>3, <3>1, <3>2, <3>3
    <3>4. CASE x = rest
      BY <1>3, <1>5, <2>3, <3>1, <3>2, <3>4
    <3>5. CASE x # b /\ x # rest /\ y = rest
      <4>1. ~(b < x)
        <5>1. SUFFICES ASSUME b < x PROVE FALSE
          OBVIOUS
        <5>2. d <= x
          BY <1>1, <1>2, <3>5, <5>1 DEF Tiled
        <5> QED BY <1>3, <1>5, <2>3, <3>1, <3>5, <5>2
      <4>2. x < b
        BY <1>3, <3>1, <3>5, <4>1
      <4>3. BlockAfter(m, x) <= b /\ BlockAfter(m, x) \in Nat
        BY <1>2, <3>5, <4>2, BlockAfterIs DEF Tiled
      <4> QED BY <1>3, <1>6, <3>5, <4>3
    <3>6. CASE x # b /\ x # rest /\ y # rest
      BY <1>2, <1>6, <2>3, <3>6 DEF Tiled
    <3> QED BY <3>3, <3>4, <3>5, <3>6
  <2> QED BY <1>2, <1>4, <2>1, <2>2, <2>3 DEF Tiled
<1>9. ASSUME NEW x \in J, BlockAfter(t, x) \in J PROVE t[BlockAfter(t, x)].pa = t[x].ta
  <2>1. CASE x = b
    BY <1>2, <1>4, <1>5, <2>1
  <2>2. CASE x = rest
    <3>1. d # b /\ d # rest
      BY <1>3, <1>5
    <3>2. t[d] = m[d] /\ m[d].pa = m[b].ta
      BY <1>1, <1>2, <1>6, <3>1 DEF Marked
    <3> QED BY <1>2, <1>4, <1>5, <2>2, <3>2
  <2>3. CASE x # b /\ x # rest
    <3>1. /\ x \in H /\ t[x] = m[x] /\ BlockAfter(t, x) = BlockAfter(m, x) /\ BlockAfter(m, x) \in H
      BY <1>6, <1>9, <2>3
    <3>2. t[BlockAfter(m, x)].pa = m[BlockAfter(m, x)].pa
      BY <1>4, <1>6, <3>1
    <3> QED BY <1>2, <3>1, <3>2 DEF Marked
  <2> QED BY <2>1, <2>2, <2>3
<1>10. ASSUME NEW x \in F
       PROVE  /\ x \in H /\ x # b /\ m[x].n >= 4 /\ BlockAfter(m, x) \in H /\ m[BlockAfter(m, x)].ta = 1
              /\ t[x] = m[x] /\ BlockAfter(t, x) = BlockAfter(m, x)
              /\ m[BlockAfter(m, x) - 1].n = m[x].n
              /\ t[BlockAfter(m, x) - 1] = m[BlockAfter(m, x) - 1]
              /\ t[x + 1] = m[x + 1] /\ t[x + 2] = m[x + 2]
  <2>1. /\ x \in H /\ m[x].ta = 0 /\ x \in Nat /\ m[x].n \in Nat /\ m[x].n >= 4
        /\ BlockAfter(m, x) = x + m[x].n
        /\ BlockAfter(m, x) \in H /\ m[BlockAfter(m, x)].ta = 1
        /\ m[BlockAfter(m, x) - 1].n = m[x].n
        /\ x + 1 \in Addr /\ x + 2 \in Addr /\ BlockAfter(m, x) - 1 \in Addr
    BY <1>2, FreeBlockIs
  <2>2. x # b
    BY <1>2, <2>1
  <2>3. PICK y \in Nat : y = BlockAfter(m, x) - 1
    BY <2>1
  <2>4. PICK z \in Nat : z = x + 1
    BY <2>1
  <2>5. PICK u \in Nat : u = x + 2
    BY <2>1
  <2>6. /\ x <= y /\ y < BlockAfter(m, x) /\ x <= z /\ z < BlockAfter(m, x)
        /\ x <= u /\ u < BlockAfter(m, x)
    BY <2>1, <2>3, <2>4, <2>5
  <2>7. t[y] = m[y] /\ t[z] = m[z] /\ t[u] = m[u]
    BY <1>4, <1>7, <2>1, <2>2, <2>3, <2>4, <2>5, <2>6
  <2> QED BY <1>6, <2>1, <2>2, <2>3, <2>4, <2>5, <2>7
<1>11. FreeIn(t, J) = F
  BY <1>2, <1>4, <1>6 DEF FreeIn
<1>12. ASSUME NEW x \in J, t[x].ta = 0
       PROVE  /\ t[x].n >= MinBlock
              /\ BlockAfter(t, x) \in J /\ t[BlockAfter(t, x)].ta = 1
              /\ t[BlockAfter(t, x) - 1].n = t[x].n
  <2>1. x \in F
    BY <1>11, <1>12 DEF FreeIn
  <2>2. t[BlockAfter(m, x)].ta = m[BlockAfter(m, x)].ta
    BY <1>4, <1>6, <1>10, <2>1
  <2> QED BY <1>10, <2>1, <2>2 DEF MinBlock
<1>13. t[1].pa = 1
  BY <1>2, <1>4, <1>6 DEF Marked
<1>14. Heap(t, J, e)
  BY <1>8, <1>9, <1>12, <1>13 DEF Heap, Marked
<1>15. Linked(t, F)
  BY <1>2, <1>10, LinkedSame
<1>16. Tomb(t, J)
  BY <1>2, <1>6 DEF Tomb
<1>17. ASSUME NEW c \in TakenIn(m, H) \ {b}
       PROVE  /\ c \in J /\ t[c].ta = 1 /\ t[c].n = m[c].n
              /\ \A x \in (c + 1)..(BlockAfter(m, c) - 1) : t[x] = m[x]
  <2>1. c \in H /\ c # b /\ m[c].ta = 1 /\ t[c] = m[c]
    BY <1>6 DEF TakenIn
  <2>2. c \in Nat /\ c >= 1 /\ BlockAfter(m, c) \in Nat /\ BlockAfter(m, c) <= e
    BY <1>2, <2>1, BlockAfterIs
  <2>3. ASSUME NEW x \in (c + 1)..(BlockAfter(m, c) - 1) PROVE t[x] = m[x]
    <3>1. x \in Nat /\ c <= x /\ x < BlockAfter(m, c)
      BY <2>2
    <3>2. x \in Addr
      BY <1>2, <2>2, <3>1, AddrIs DEF Addr
    <3> QED BY <1>4, <1>7, <2>1, <3>1, <3>2
  <2> QED BY <2>1, <2>3
<1>18. Kept(m, t, J, TakenIn(m, H) \ {b})
  BY <1>17 DEF Kept
<1> QED BY <1>2, <1>11, <1>14, <1>15, <1>16, <1>18 DEF Sane

\* u is m, but that b is free by its header.
Unmarked(m, u, b, d) ==
  /\ u \in [Addr -> Cell] /\ u[b].n = m[b].n /\ u[b].ta = 0 /\ u[b].pa = m[b].pa
  /\ u[d].n = m[d].n /\ u[d].ta = m[d].ta
  /\ \A x \in Addr : x # b /\ x # d => u[x] = m[x]

LEMMA Prepares ==
  ASSUME NEW m, NEW H, NEW e, Tiled(m, H, e), NEW b, Alone(m, H, b),
         NEW u, Unmarked(m, u, b, BlockAfter(m, b)),
         NEW s, s = SetEndOfBlockSizeMarker(u, b), NEW w \in [Addr -> Cell],
         NEW d, d = BlockAfter(m, b), w[d].pa = 0, w[d].n = s[d].n, w[d].ta = s[d].ta,
         \A x \in Addr : x # d => w[x] = s[x]
  PROVE  Prepared(m, w, b, BlockAfter(m, b))
<1>1. /\ b \in H /\ m[b].n >= 4 /\ d \in H /\ b \in Big(m, H)
  BY DEF Alone, TakenIn, Big
<1>2. /\ b \in Nat /\ b \in Addr /\ m[b].n \in Nat /\ d = b + m[b].n /\ d \in Nat /\ d \in Addr
      /\ d - 1 \in Addr
  BY <1>1, BlockAfterIs, BigBlockIs
<1>3. /\ u \in [Addr -> Cell] /\ u[b].n = m[b].n /\ u[b].ta = 0 /\ u[b].pa = m[b].pa
      /\ u[d].n = m[d].n /\ u[d].ta = m[d].ta
      /\ \A x \in Addr : x # b /\ x # d => u[x] = m[x]
  BY DEF Unmarked
<1>4. BlockAfter(u, b) = d
  BY <1>2, <1>3 DEF BlockAfter
<1>5. /\ s \in [Addr -> Cell] /\ s[d - 1].n = m[b].n /\ OnlyWithin(u, s, b + 3, d - 1)
  BY <1>1, <1>2, <1>3, <1>4, Marks
<1>6. s[b] = u[b] /\ s[d] = u[d] /\ b # d /\ d - 1 # d
  <2>1. ~(b + 3 <= b /\ b <= d - 1) /\ ~(b + 3 <= d /\ d <= d - 1) /\ b # d /\ d - 1 # d
    BY <1>1, <1>2
  <2> QED BY <1>2, <1>5, <2>1 DEF OnlyWithin
<1>7. /\ w[b].n = m[b].n /\ w[b].ta = 0 /\ w[b].pa = m[b].pa
      /\ w[d].n = m[d].n /\ w[d].ta = m[d].ta /\ w[d - 1].n = m[b].n
  BY <1>2, <1>3, <1>5, <1>6
<1>8. \A x \in Addr : x # b /\ x # d /\ ~(b + 3 <= x /\ x <= d - 1) => w[x] = m[x]
  BY <1>3, <1>5 DEF OnlyWithin
<1> QED BY <1>7, <1>8 DEF Prepared

\* What TrimAllocationToSize leaves.
Trimmed(m, g, H, J, e, b, size) ==
  /\ Sane(g.mem, g.list, J, e) /\ Kept(m, g.mem, J, TakenIn(m, H) \ {b})
  /\ b \in TakenIn(g.mem, J) /\ g.mem[b].n >= size /\ (m[b].n >= 4 => g.mem[b].n >= 4)
  /\ \A x \in (b + 1)..(b + size - 1) : g.mem[x] = m[x]

LEMMA NewSizeIs ==
  ASSUME NEW size \in Nat
  PROVE  NewSize(size) \in Nat /\ NewSize(size) >= size /\ NewSize(size) >= 4
<1>1. PICK s : s = NewSize(size)
  OBVIOUS
<1>2. s = CHOOSE x \in {4, size} : \A y \in {4, size} : x >= y
  BY <1>1 DEF NewSize, Max, MinBlock
<1>3. \E x \in {4, size} : \A y \in {4, size} : x >= y
  <2>1. CASE size <= 4
    BY <2>1
  <2>2. CASE size > 4
    BY <2>2
  <2> QED BY <2>1, <2>2
<1>4. s \in {4, size} /\ \A y \in {4, size} : s >= y
  BY <1>2, <1>3
<1> QED BY <1>1, <1>4

\* TrimAllocationToSize.
LEMMA Trims ==
  ASSUME NEW m, NEW list, NEW H, NEW e, Sane(m, list, H, e), NEW b \in TakenIn(m, H),
         BlockAfter(m, b) \in TakenIn(m, H), NEW size \in Nat, size <= m[b].n,
         NEW g, g = TrimAllocationToSize(m, list, b, size)
  PROVE  \E J : Trimmed(m, g, H, J, e, b, size)
<1>1. PICK new \in Nat : new = NewSize(size) /\ new >= size /\ new >= 4
  BY NewSizeIs
<1>2. PICK d : d = BlockAfter(m, b)
  OBVIOUS
<1>3. /\ Heap(m, H, e) /\ Tiled(m, H, e) /\ b \in H /\ m[b].ta = 1 /\ d \in TakenIn(m, H)
      /\ m \in [Addr -> Cell] /\ H \subseteq Addr
  BY <1>2 DEF Sane, Heap, Tiled, TakenIn
<1>4. b \in Nat /\ b \in Addr /\ m[b].n \in Nat /\ d = b + m[b].n
  BY <1>2, <1>3, BlockAfterIs
<1>5. CASE m[b].n <= new + 4
  <2>1. g = [mem |-> m, list |-> list]
    BY <1>1, <1>5 DEF TrimAllocationToSize, MinBlock
  <2>2. ASSUME NEW c \in TakenIn(m, H) PROVE c \in H /\ m[c].ta = 1
    BY DEF TakenIn
  <2>3. Kept(m, m, H, TakenIn(m, H) \ {b})
    BY <2>2 DEF Kept
  <2>4. g.mem = m /\ g.list = list
    BY <2>1
  <2>5. Trimmed(m, g, H, H, e, b, size)
    BY <1>4, <2>3, <2>4 DEF Trimmed
  <2> QED BY <2>5
<1>6. CASE ~(m[b].n <= new + 4)
  <2>1. PICK rest \in Nat, k \in Nat : rest = b + new /\ k = m[b].n - new /\ k >= 5
    BY <1>1, <1>4, <1>6
  <2>2. Cuts(m, H, b, new, rest, k)
    BY <1>1, <1>2, <1>3, <1>4, <2>1 DEF Cuts
  <2>3. /\ rest \in Addr /\ b < rest /\ rest \notin H /\ rest + k = d /\ rest < d
    BY <1>2, <1>3, <2>2, CutsWhere
  <2>4. PICK v : v = Cut(m, b, new, rest, k)
    OBVIOUS
  <2>5. PICK J : J = H \cup {rest}
    OBVIOUS
  <2>6. Sane(v, list, J, e) /\ Kept(m, v, J, TakenIn(m, H) \ {b})
    BY <2>2, <2>4, <2>5, Splits
  <2>7. /\ v \in [Addr -> Cell] /\ v[b].n = new /\ v[b].ta = m[b].ta /\ v[b].pa = m[b].pa
        /\ v[rest].n = k /\ v[rest].ta = 1 /\ v[rest].pa = 1
        /\ \A x \in Addr : x # b /\ x # rest => v[x] = m[x]
    <3>1. rest # b
      BY <1>4, <2>1, <2>3
    <3>2. v = [[m EXCEPT ![b].n = new] EXCEPT ![rest] = Header(1, 1, k)]
      BY <2>4 DEF Cut
    <3>3. IsCut(m, v, b, new, rest, k, 1)
      BY <1>3, <1>4, <2>3, <3>1, <3>2, CutIs
    <3> QED BY <3>3 DEF IsCut
  <2>8. PICK u : u = [[m EXCEPT ![b].n = new] EXCEPT ![rest] = Header(0, 1, k)]
    OBVIOUS
  <2>9. /\ u \in [Addr -> Cell] /\ u[b].n = new /\ u[b].ta = m[b].ta /\ u[b].pa = m[b].pa
        /\ u[rest].n = k /\ u[rest].ta = 0 /\ u[rest].pa = 1
        /\ \A x \in Addr : x # b /\ x # rest => u[x] = m[x]
    <3>1. rest # b
      BY <1>4, <2>1, <2>3
    <3>2. IsCut(m, u, b, new, rest, k, 0)
      BY <1>3, <1>4, <2>3, <2>8, <3>1, CutIs
    <3> QED BY <3>2 DEF IsCut
  <2>10. BlockAfter(v, rest) = d /\ d # rest /\ d # b /\ d \in Addr /\ v[d] = m[d] /\ u[d] = m[d]
    <3>1. d # rest /\ d # b /\ d \in Addr
      BY <1>3, <1>4, <2>1, <2>3 DEF TakenIn
    <3> QED BY <2>3, <2>7, <2>9, <3>1 DEF BlockAfter
  <2>11. Alone(v, J, rest)
    BY <1>3, <2>1, <2>5, <2>7, <2>10 DEF Alone, TakenIn
  <2>12. u[b] = v[b]
    BY <1>3, <1>4, <2>7, <2>8, <2>9, <2>4, <2>3 DEF Cut
  <2>13. Unmarked(v, u, rest, BlockAfter(v, rest))
    BY <2>7, <2>9, <2>10, <2>12 DEF Unmarked
  <2>14. PICK s : s = SetEndOfBlockSizeMarker(u, rest)
    OBVIOUS
  <2>15. s \in [Addr -> Cell]
    <3>1. BlockAfter(u, rest) = d
      BY <2>3, <2>9 DEF BlockAfter
    <3>2. d - 1 \in Addr
      BY <1>4, <2>1, <2>3, <2>10, AddrIs DEF Addr
    <3> QED BY <2>1, <2>3, <2>9, <2>14, <3>1, <3>2, Marks
  <2>16. PICK w : w = [s EXCEPT ![d].pa = 0]
    OBVIOUS
  <2>17. /\ w \in [Addr -> Cell] /\ w[d].pa = 0 /\ w[d].n = s[d].n /\ w[d].ta = s[d].ta
         /\ \A x \in Addr : x # d => w[x] = s[x]
    BY <2>10, <2>15, <2>16 DEF Cell
  <2>18. Tiled(v, J, e)
    BY <2>6 DEF Sane, Heap
  <2>19. Prepared(v, w, rest, BlockAfter(v, rest))
    BY <2>10, <2>11, <2>13, <2>14, <2>17, <2>18, Prepares
  <2>20. PICK t : t = AddToFreeList(w, rest, list)
    OBVIOUS
  <2>21. g = [mem |-> t, list |-> rest]
    BY <1>1, <1>2, <1>6, <2>1, <2>8, <2>14, <2>16, <2>20 DEF TrimAllocationToSize, MinBlock
  <2>22. Loosened(v, t, J, e, rest)
    BY <2>6, <2>11, <2>19, <2>20, Returns
  <2>23. Sane(t, rest, J, e) /\ Kept(v, t, J, TakenIn(v, J) \ {rest})
    BY <2>22 DEF Loosened
  <2>24. TakenIn(m, H) \ {b} \subseteq TakenIn(v, J) \ {rest}
    BY <2>3, <2>6 DEF Kept, TakenIn
  <2>25. Kept(m, t, J, TakenIn(m, H) \ {b})
    BY <2>6, <2>23, <2>24, KeptKept
  <2>26. b \in TakenIn(v, J) \ {rest}
    BY <1>3, <1>4, <2>3, <2>5, <2>7 DEF TakenIn
  <2>27. /\ b \in J /\ t[b].ta = 1 /\ t[b].n = new
         /\ \A x \in (b + 1)..(BlockAfter(v, b) - 1) : t[x] = v[x]
    BY <2>7, <2>23, <2>26 DEF Kept
  <2>28. ASSUME NEW x \in (b + 1)..(b + size - 1) PROVE t[x] = m[x]
    <3>1. BlockAfter(v, b) = b + new
      BY <2>7 DEF BlockAfter
    <3>2. x \in (b + 1)..(BlockAfter(v, b) - 1) /\ x # b /\ x # rest
      BY <1>1, <1>4, <2>1, <3>1
    <3>3. x \in Addr
      BY <1>1, <1>3, <1>4, <2>1, <2>3, AddrIs DEF Addr
    <3> QED BY <2>7, <2>27, <3>2, <3>3
  <2>29. b \in TakenIn(t, J)
    BY <2>27 DEF TakenIn
  <2>30. g.mem = t /\ g.list = rest
    BY <2>21
  <2>31. Trimmed(m, g, H, J, e, b, size)
    BY <1>1, <2>23, <2>25, <2>27, <2>28, <2>29, <2>30 DEF Trimmed
  <2> QED BY <2>31
<1> QED BY <1>5, <1>6

-----------------------------------------------------------------------------
(***************************************************************************)
(* Code memory: a slab is made.                                            *)
(***************************************************************************)
\* Two headers are written.
Written(m, v, a, h, b, g) ==
  /\ v \in [Addr -> Cell] /\ v[a] = h /\ v[b] = g
  /\ \A x \in Addr : x # a /\ x # b => v[x] = m[x]

LEMMA Writes ==
  ASSUME NEW m \in [Addr -> Cell], NEW a \in Addr, NEW b \in Addr, a # b, NEW h \in Cell,
         NEW g \in Cell, NEW v, v = [[m EXCEPT ![a] = h] EXCEPT ![b] = g]
  PROVE  Written(m, v, a, h, b, g)
<1>1. PICK u : u = [m EXCEPT ![a] = h]
  OBVIOUS
<1>2. u \in [Addr -> Cell] /\ u[a] = h /\ \A x \in Addr : x # a => u[x] = m[x]
  BY <1>1
<1>3. v = [u EXCEPT ![b] = g]
  BY <1>1
<1>4. v \in [Addr -> Cell] /\ v[b] = g /\ \A x \in Addr : x # b => v[x] = u[x]
  BY <1>2, <1>3
<1> QED BY <1>2, <1>4 DEF Written

\* The memory ends with a separator.
Closed(m, H, e) == e - 1 \in TakenIn(m, H) /\ m[e - 1].n = 1

\* A slab of z words, all of them allocated but the end.
LEMMA Extends ==
  ASSUME NEW m, NEW list, NEW H, NEW e, Sane(m, list, H, e), Closed(m, H, e),
         NEW z \in Nat, z >= 2, NEW end, end = e + z - 1, end <= MaxWords,
         NEW v, Written(m, v, end, Header(1, 1, 1), e, Header(1, 1, z - 1)),
         NEW J, J = H \cup {e, end}
  PROVE  /\ Sane(v, list, J, e + z) /\ FreeIn(v, J) = FreeIn(m, H)
         /\ Kept(m, v, J, TakenIn(m, H))
         /\ e \in TakenIn(v, J) /\ v[e].n = z - 1 /\ v[e].pa = 1
         /\ BlockAfter(v, e) = end /\ end \in TakenIn(v, J) /\ v[end].n = 1
<1> DEFINE F == FreeIn(m, H)
<1>1. /\ Heap(m, H, e) /\ Tiled(m, H, e) /\ Marked(m, H) /\ Linked(m, F) /\ Tomb(m, H)
      /\ list \in F /\ H \subseteq Addr /\ m \in [Addr -> Cell] /\ 1 \in H /\ e \in Nat
      /\ e - 1 \in H /\ m[e - 1].ta = 1 /\ m[e - 1].n = 1
  BY DEF Sane, TakenIn, Heap, Tiled, Closed
<1>2. /\ e >= 1 /\ end \in Nat /\ e < end /\ end + 1 = e + z /\ e + (z - 1) = end
      /\ e + z \in Nat /\ e + z <= MaxWords + 1
      /\ e \in Addr /\ end \in Addr /\ z - 1 \in Nat
  <2>1. e - 1 \in Nat
    BY <1>1, AddrIs
  <2> QED BY <1>1, <2>1, AddrIs DEF Addr
<1>3. /\ v \in [Addr -> Cell] /\ v[end] = Header(1, 1, 1) /\ v[e] = Header(1, 1, z - 1)
      /\ \A x \in Addr : x # end /\ x # e => v[x] = m[x]
  BY DEF Written
<1>4. /\ v[end].n = 1 /\ v[end].ta = 1 /\ v[end].pa = 1
      /\ v[e].n = z - 1 /\ v[e].ta = 1 /\ v[e].pa = 1
  BY <1>3 DEF Header
<1>5. BlockAfter(v, e) = end /\ BlockAfter(v, end) = e + z
  BY <1>2, <1>4 DEF BlockAfter
<1>6. ASSUME NEW x \in Nat, x < e, x \in Addr PROVE v[x] = m[x]
  BY <1>1, <1>2, <1>3, <1>6
<1>7. ASSUME NEW x \in H
      PROVE  /\ x \in Nat /\ x < e /\ v[x] = m[x] /\ BlockAfter(v, x) = BlockAfter(m, x)
             /\ BlockAfter(m, x) <= e /\ BlockAfter(m, x) \in Nat /\ m[x].n >= 1
             /\ BlockAfter(m, x) \in H \cup {e}
  <2>1. /\ x \in Nat /\ x \in Addr /\ m[x].n \in Nat /\ m[x].n >= 1
        /\ BlockAfter(m, x) = x + m[x].n /\ BlockAfter(m, x) <= e
    BY <1>1, BlockAfterIs
  <2>2. x < e
    BY <1>1, <2>1
  <2>3. v[x] = m[x]
    BY <1>6, <2>1, <2>2
  <2>4. BlockAfter(m, x) \in H \cup {e}
    BY <1>1 DEF Tiled
  <2> QED BY <2>1, <2>2, <2>3, <2>4 DEF BlockAfter
<1>8. Tiled(v, J, e + z)
  <2>1. J \subseteq Addr /\ 1 \in J
    BY <1>1, <1>2
  <2>2. ASSUME NEW x \in J
        PROVE  /\ v[x].n >= 1 /\ BlockAfter(v, x) <= e + z
               /\ BlockAfter(v, x) # e + z => BlockAfter(v, x) \in J
    <3>1. CASE x = e
      BY <1>2, <1>4, <1>5, <3>1
    <3>2. CASE x = end
      BY <1>2, <1>4, <1>5, <3>2
    <3>3. CASE x \in H
      BY <1>1, <1>2, <1>7, <3>3
    <3> QED BY <3>1, <3>2, <3>3
  <2>3. ASSUME NEW x \in J, NEW y \in J, x < y PROVE BlockAfter(v, x) <= y
    <3>1. CASE x \in H /\ y \in H
      BY <1>1, <1>7, <2>3, <3>1 DEF Tiled
    <3>2. CASE x \in H /\ y \notin H
      BY <1>1, <1>2, <1>7, <3>2
    <3>3. CASE x \notin H
      <4>1. ~(y \in H)
        BY <1>1, <1>2, <1>7, <2>3, <3>3
      <4>2. x = e /\ y = end
        BY <1>1, <1>2, <2>3, <3>3, <4>1
      <4> QED BY <1>2, <1>5, <4>2
    <3> QED BY <3>1, <3>2, <3>3
  <2> QED BY <1>2, <1>3, <2>1, <2>2, <2>3 DEF Tiled
<1>9. ASSUME NEW x \in J, BlockAfter(v, x) \in J PROVE v[BlockAfter(v, x)].pa = v[x].ta
  <2>1. CASE x = e
    BY <1>4, <1>5, <2>1
  <2>2. CASE x = end
    BY <1>2, <1>5, <1>7, <1>9, <2>2
  <2>3. CASE x \in H
    <3>1. CASE BlockAfter(m, x) = e
      <4>1. BlockAfter(m, e - 1) = e
        BY <1>1 DEF BlockAfter
      <4>2. x = e - 1
        BY <1>1, <2>3, <3>1, <4>1, OneBefore
      <4> QED BY <1>1, <1>4, <1>7, <2>3, <3>1, <4>2
    <3>2. CASE BlockAfter(m, x) \in H
      BY <1>1, <1>7, <2>3, <3>2 DEF Marked
    <3> QED BY <1>7, <2>3, <3>1, <3>2
  <2> QED BY <2>1, <2>2, <2>3
<1>10. FreeIn(v, J) = F
  BY <1>4, <1>7 DEF FreeIn
<1>11. ASSUME NEW x \in F
       PROVE  /\ x \in H /\ m[x].n >= 4 /\ BlockAfter(m, x) \in H /\ m[BlockAfter(m, x)].ta = 1
              /\ m[BlockAfter(m, x) - 1].n = m[x].n
              /\ v[BlockAfter(m, x) - 1] = m[BlockAfter(m, x) - 1]
              /\ v[x + 1] = m[x + 1] /\ v[x + 2] = m[x + 2]
  <2>1. /\ x \in H /\ x \in Nat /\ m[x].n \in Nat /\ m[x].n >= 4
        /\ BlockAfter(m, x) = x + m[x].n
        /\ BlockAfter(m, x) \in H /\ m[BlockAfter(m, x)].ta = 1
        /\ m[BlockAfter(m, x) - 1].n = m[x].n
        /\ x + 1 \in Addr /\ x + 2 \in Addr /\ BlockAfter(m, x) - 1 \in Addr
    BY <1>1, FreeBlockIs
  <2>2. BlockAfter(m, x) <= e /\ BlockAfter(m, x) \in Nat
    BY <1>7, <2>1
  <2>3. /\ BlockAfter(m, x) - 1 \in Nat /\ x + 1 \in Nat /\ x + 2 \in Nat
        /\ BlockAfter(m, x) - 1 < e /\ x + 1 < e /\ x + 2 < e
    BY <1>1, <2>1, <2>2
  <2> QED BY <1>6, <2>1, <2>3
<1>12. ASSUME NEW x \in J, v[x].ta = 0
       PROVE  /\ v[x].n >= MinBlock
              /\ BlockAfter(v, x) \in J /\ v[BlockAfter(v, x)].ta = 1
              /\ v[BlockAfter(v, x) - 1].n = v[x].n
  <2>1. x \in F
    BY <1>10, <1>12 DEF FreeIn
  <2> QED BY <1>7, <1>11, <2>1 DEF MinBlock
<1>13. v[1].pa = 1
  BY <1>1, <1>7 DEF Marked
<1>14. Heap(v, J, e + z)
  BY <1>8, <1>9, <1>12, <1>13 DEF Heap, Marked
<1>15. Linked(v, F)
  BY <1>1, <1>11, LinkedSame
<1>16. Tomb(v, J)
  BY <1>1, <1>7 DEF Tomb
<1>17. ASSUME NEW c \in TakenIn(m, H)
       PROVE  /\ c \in J /\ v[c].ta = 1 /\ v[c].n = m[c].n
              /\ \A x \in (c + 1)..(BlockAfter(m, c) - 1) : v[x] = m[x]
  <2>1. c \in H /\ m[c].ta = 1 /\ v[c] = m[c] /\ c \in Nat /\ BlockAfter(m, c) <= e
        /\ BlockAfter(m, c) \in Nat
    BY <1>7 DEF TakenIn
  <2>2. ASSUME NEW x \in (c + 1)..(BlockAfter(m, c) - 1) PROVE v[x] = m[x]
    <3>1. x \in Nat /\ x < e /\ x \in Addr
      BY <1>1, <1>2, <2>1, AddrIs DEF Addr
    <3> QED BY <1>6, <3>1
  <2> QED BY <2>1, <2>2
<1>18. Kept(m, v, J, TakenIn(m, H))
  BY <1>17 DEF Kept
<1>19. e \in TakenIn(v, J) /\ end \in TakenIn(v, J)
  BY <1>4 DEF TakenIn
<1>20. Sane(v, list, J, e + z)
  BY <1>1, <1>10, <1>14, <1>15, <1>16 DEF Sane
<1> QED BY <1>4, <1>5, <1>10, <1>18, <1>19, <1>20

\* What allocateNewCodeSlab leaves.
Slabbed(m, t, H, J, e, z) ==
  /\ J = H \cup {e, e + z - 1}
  /\ Sane(t, e, J, e + z) /\ FreeIn(t, J) = FreeIn(m, H) \cup {e} /\ t[e].n = z - 1
  /\ Closed(t, J, e + z) /\ Kept(m, t, J, TakenIn(m, H))

LEMMA Slabs ==
  ASSUME NEW m, NEW list, NEW H, NEW e, Sane(m, list, H, e), Closed(m, H, e),
         NEW z \in Nat, z >= 5, e + z - 1 <= MaxWords, NEW s, s.base = e, s.size = z,
         NEW t, t = WithSlab(m, list, s)
  PROVE  \E J : Slabbed(m, t, H, J, e, z)
<1>1. PICK J : J = H \cup {e, e + z - 1}
  OBVIOUS
<1>2. PICK end : end = e + z - 1
  OBVIOUS
<1>3. /\ m \in [Addr -> Cell] /\ e \in Nat /\ e >= 1 /\ H \subseteq Addr /\ end \in Nat
      /\ e < end /\ e \in Addr /\ end \in Addr /\ z - 1 \in Nat /\ end <= MaxWords
      /\ e + z - 1 = end /\ (e + z) - 1 = end
  <2>1. m \in [Addr -> Cell] /\ e \in Nat /\ H \subseteq Addr
    BY DEF Sane, Heap, Tiled
  <2>2. e - 1 \in Nat
    BY <2>1, AddrIs DEF Closed, TakenIn
  <2> QED BY <1>2, <2>1, <2>2, AddrIs DEF Addr
<1>4. /\ Header(1, 1, 1) \in Cell /\ Header(1, 1, z - 1) \in Cell
      /\ Header(1, 0, 1) \in Cell /\ Header(0, 1, z - 1) \in Cell
  BY <1>3, WordsAreCells
<1>5. PICK v : v = [[m EXCEPT ![end] = Header(1, 1, 1)] EXCEPT ![e] = Header(1, 1, z - 1)]
  OBVIOUS
<1>6. Written(m, v, end, Header(1, 1, 1), e, Header(1, 1, z - 1))
  <2>1. end # e
    BY <1>3
  <2> QED BY <1>3, <1>4, <1>5, <2>1, Writes
<1>7. PICK u : u = [[m EXCEPT ![end] = Header(1, 0, 1)] EXCEPT ![e] = Header(0, 1, z - 1)]
  OBVIOUS
<1>8. Written(m, u, end, Header(1, 0, 1), e, Header(0, 1, z - 1))
  <2>1. end # e
    BY <1>3
  <2> QED BY <1>3, <1>4, <1>7, <2>1, Writes
<1>9. /\ Sane(v, list, J, e + z) /\ FreeIn(v, J) = FreeIn(m, H)
      /\ Kept(m, v, J, TakenIn(m, H))
      /\ e \in TakenIn(v, J) /\ v[e].n = z - 1 /\ v[e].pa = 1
      /\ BlockAfter(v, e) = end /\ end \in TakenIn(v, J) /\ v[end].n = 1
  BY <1>1, <1>2, <1>3, <1>6, Extends
<1>10. Alone(v, J, e)
  BY <1>3, <1>9 DEF Alone
<1>11. Unmarked(v, u, e, end)
  BY <1>3, <1>6, <1>8 DEF Unmarked, Written, Header
<1>12. PICK w : w = SetEndOfBlockSizeMarker(u, e)
  OBVIOUS
<1>13. t = AddToFreeList(w, e, list)
  BY <1>2, <1>7, <1>12 DEF WithSlab
<1>14. w \in [Addr -> Cell] /\ w[end] = u[end] /\ u[end].pa = 0
  <2>1. u \in [Addr -> Cell] /\ u[e].n = z - 1 /\ u[end].pa = 0
    BY <1>8 DEF Written, Header
  <2>2. BlockAfter(u, e) = end /\ end - 1 \in Addr /\ z - 1 >= 4
    BY <1>3, <2>1, AddrIs DEF BlockAfter, Addr
  <2>3. w \in [Addr -> Cell] /\ OnlyWithin(u, w, e + 3, BlockAfter(u, e) - 1)
    BY <1>3, <1>12, <2>1, <2>2, Marks
  <2>4. ~(end <= BlockAfter(u, e) - 1)
    BY <1>3, <2>2
  <2> QED BY <1>3, <2>1, <2>3, <2>4 DEF OnlyWithin
<1>15. Prepared(v, w, e, BlockAfter(v, e))
  <2>1. Tiled(v, J, e + z) /\ end = BlockAfter(v, e) /\ w[end].pa = 0
    BY <1>9, <1>14 DEF Sane, Heap
  <2>2. Unmarked(v, u, e, BlockAfter(v, e))
    BY <1>9, <1>11
  <2> QED BY <1>10, <1>12, <1>14, <2>1, <2>2, Prepares
<1>16. Loosened(v, t, J, e + z, e)
  BY <1>9, <1>10, <1>13, <1>15, Returns
<1>17. /\ Sane(t, e, J, e + z) /\ FreeIn(t, J) = FreeIn(m, H) \cup {e}
       /\ t[e].n = z - 1 /\ Kept(v, t, J, TakenIn(v, J) \ {e})
  BY <1>9, <1>16 DEF Loosened
<1>18. Closed(t, J, e + z)
  <2>1. end \in TakenIn(v, J) \ {e}
    BY <1>3, <1>9
  <2>2. end \in J /\ t[end].ta = 1 /\ t[end].n = 1
    BY <1>9, <1>17, <2>1 DEF Kept
  <2> QED BY <1>3, <2>2 DEF Closed, TakenIn
<1>19. TakenIn(m, H) \subseteq TakenIn(v, J) \ {e}
  <2>1. e \notin H
    <3>1. SUFFICES ASSUME e \in H PROVE FALSE
      OBVIOUS
    <3>2. BlockAfter(m, e) <= e /\ BlockAfter(m, e) = e + m[e].n /\ m[e].n \in Nat /\ m[e].n >= 1
      BY <3>1, BlockAfterIs DEF Sane, Heap
    <3> QED BY <1>3, <3>2
  <2> QED BY <1>9, <2>1 DEF Kept, TakenIn
<1>20. Kept(m, t, J, TakenIn(m, H))
  BY <1>9, <1>17, <1>19, KeptKept
<1> QED BY <1>1, <1>17, <1>18, <1>20 DEF Slabbed

\* The headers of the first slab.
FirstHeaders == {1, Mem1, Mem2, Mem3}

LEMMA FirstHeadersAre ==
  /\ Mem1 \in Nat /\ Mem2 \in Nat /\ Mem3 \in Nat /\ SlabSize \in Nat /\ MaxWords \in Nat
  /\ Mem1 >= 5 /\ Mem2 = Mem1 + 1 /\ Mem3 = Mem2 + 4 /\ Mem3 = SlabSize /\ Mem3 <= MaxWords
  /\ \A x \in Nat : 1 <= x /\ x <= Mem3 => x \in Addr
BY CodeMemoryAssumption DEF Mem1, Mem2, Mem3, MinBlock, Addr

\* What is written first, but the markers and the links of the large block.
Laid(m) ==
  /\ m \in [Addr -> Cell]
  /\ m[1] = Header(0, 1, Mem1 - 1) /\ m[Mem1] = Header(1, 0, 1)
  /\ m[Mem2] = Header(0, 1, MinBlock) /\ m[Mem3] = Header(1, 0, 1)
  /\ m[Mem2 + 1] = Word(Mem2) /\ m[Mem2 + 2] = Word(Mem2)

LEMMA Lays ==
  ASSUME NEW m, m = [[x \in Addr |-> Poison] EXCEPT
                 ![Mem3] = Header(1, 0, 1),
                 ![Mem2] = Header(0, 1, MinBlock), ![Mem2 + 1] = Word(Mem2), ![Mem2 + 2] = Word(Mem2),
                 ![Mem1] = Header(1, 0, 1), ![1] = Header(0, 1, Mem1 - 1)]
  PROVE  Laid(m)
<1>1. PICK a \in Nat, b \in Nat, c \in Nat : a = Mem1 /\ b = Mem2 /\ c = Mem3
  BY FirstHeadersAre
<1>2. /\ a >= 5 /\ b = a + 1 /\ c = b + 4 /\ \A x \in Nat : 1 <= x /\ x <= c => x \in Addr
  BY <1>1, FirstHeadersAre
<1>3. PICK d \in Nat, f \in Nat : d = b + 1 /\ f = b + 2
  BY <1>1
<1>4. /\ 1 \in Addr /\ a \in Addr /\ b \in Addr /\ c \in Addr /\ d \in Addr /\ f \in Addr
      /\ 1 # a /\ 1 # b /\ 1 # c /\ 1 # d /\ 1 # f /\ a # b /\ a # c /\ a # d /\ a # f
      /\ b # c /\ b # d /\ b # f /\ c # d /\ c # f /\ d # f
  BY <1>2, <1>3
<1>5. PICK hs, hb, hl, w : /\ hs = Header(1, 0, 1) /\ hb = Header(0, 1, MinBlock)
                           /\ hl = Header(0, 1, a - 1) /\ w = Word(b)
  OBVIOUS
<1>6. hs \in Cell /\ hb \in Cell /\ hl \in Cell /\ w \in Cell
  <2>1. a - 1 \in Nat /\ MinBlock \in Nat
    BY <1>2 DEF MinBlock
  <2> QED BY <1>5, <2>1, WordsAreCells
<1>7. PICK u : u = [x \in Addr |-> Poison]
  OBVIOUS
<1>8. u \in [Addr -> Cell]
  BY <1>7, WordsAreCells
<1>9. PICK v : v = [[u EXCEPT ![c] = hs] EXCEPT ![b] = hb]
  OBVIOUS
<1>10. Written(u, v, c, hs, b, hb)
  BY <1>4, <1>6, <1>8, <1>9, Writes
<1>11. PICK x : x = [[v EXCEPT ![d] = w] EXCEPT ![f] = w]
  OBVIOUS
<1>12. Written(v, x, d, w, f, w)
  BY <1>4, <1>6, <1>10, <1>11, Writes DEF Written
<1>13. m = [[x EXCEPT ![a] = hs] EXCEPT ![1] = hl]
  <2>1. m = [u EXCEPT ![c] = hs, ![b] = hb, ![d] = w, ![f] = w, ![a] = hs, ![1] = hl]
    BY <1>1, <1>3, <1>5, <1>7
  <2> QED BY <1>9, <1>11, <2>1
<1>14. Written(x, m, a, hs, 1, hl)
  <2>1. x \in [Addr -> Cell] /\ a # 1
    BY <1>4, <1>12 DEF Written
  <2> QED BY <1>4, <1>6, <1>13, <2>1, Writes
<1>15. /\ m \in [Addr -> Cell] /\ m[1] = hl /\ m[a] = hs /\ m[b] = hb /\ m[c] = hs
       /\ m[d] = w /\ m[f] = w
  BY <1>4, <1>10, <1>12, <1>14 DEF Written
<1> QED BY <1>1, <1>3, <1>5, <1>15 DEF Laid

\* The first slab, with its large block still allocated.
LEMMA FirstIsSane ==
  ASSUME NEW m, Laid(m), NEW q, q = SetEndOfBlockSizeMarker(m, Mem2), NEW v,
         Written(q, v, 1, Header(1, 1, Mem1 - 1), Mem1, Header(1, 1, 1))
  PROVE  /\ Sane(v, Mem2, FirstHeaders, SlabSize + 1) /\ Alone(v, FirstHeaders, 1)
         /\ BlockAfter(v, 1) = Mem1 /\ Unmarked(v, q, 1, Mem1)
         /\ FirstHeaders \ {1, Mem2} \subseteq TakenIn(v, FirstHeaders) \ {1}
         /\ v[Mem1].n = 1 /\ v[Mem3].n = 1
<1>1. PICK a \in Nat, b \in Nat, c \in Nat : a = Mem1 /\ b = Mem2 /\ c = Mem3
  BY FirstHeadersAre
<1>2. /\ a >= 5 /\ b = a + 1 /\ c = b + 4 /\ \A x \in Nat : 1 <= x /\ x <= c => x \in Addr
      /\ c = SlabSize /\ c <= MaxWords /\ MaxWords \in Nat
  BY <1>1, FirstHeadersAre
<1>3. /\ 1 \in Addr /\ a \in Addr /\ b \in Addr /\ c \in Addr /\ b + 1 \in Addr /\ b + 2 \in Addr
      /\ c - 1 \in Addr /\ b + 4 = c
      /\ 1 # a /\ 1 # b /\ 1 # c /\ a # b /\ a # c /\ b # c
  BY <1>2
<1>4. /\ m \in [Addr -> Cell]
      /\ m[1].ta = 0 /\ m[1].pa = 1 /\ m[1].n = a - 1
      /\ m[a].ta = 1 /\ m[a].pa = 0 /\ m[a].n = 1
      /\ m[b].ta = 0 /\ m[b].pa = 1 /\ m[b].n = 4
      /\ m[c].ta = 1 /\ m[c].pa = 0 /\ m[c].n = 1
      /\ m[b + 1].n = b /\ m[b + 2].n = b
  BY <1>1 DEF Laid, Header, Word, MinBlock
<1>5. BlockAfter(m, b) = c
  BY <1>3, <1>4 DEF BlockAfter
<1>6. /\ q \in [Addr -> Cell] /\ q[c - 1].n = 4 /\ OnlyWithin(m, q, b + 3, c - 1)
  BY <1>1, <1>3, <1>4, <1>5, Marks
<1>7. q[1] = m[1] /\ q[a] = m[a] /\ q[b] = m[b] /\ q[c] = m[c] /\ q[b + 1] = m[b + 1]
      /\ q[b + 2] = m[b + 2]
  <2>1. /\ ~(b + 3 <= 1) /\ ~(b + 3 <= a) /\ ~(b + 3 <= b) /\ ~(c <= c - 1)
        /\ ~(b + 3 <= b + 1) /\ ~(b + 3 <= b + 2)
    BY <1>2
  <2> QED BY <1>3, <1>6, <2>1 DEF OnlyWithin
<1>8. /\ v \in [Addr -> Cell] /\ v[1] = Header(1, 1, a - 1) /\ v[a] = Header(1, 1, 1)
      /\ \A x \in Addr : x # 1 /\ x # a => v[x] = q[x]
  BY <1>1 DEF Written
<1>9. v[b] = m[b] /\ v[c] = m[c] /\ v[b + 1] = m[b + 1] /\ v[b + 2] = m[b + 2] /\ v[c - 1].n = 4
  <2>1. b + 1 # 1 /\ b + 2 # 1 /\ c - 1 # 1 /\ b + 1 # a /\ b + 2 # a /\ c - 1 # a
    BY <1>2
  <2> QED BY <1>3, <1>6, <1>7, <1>8, <2>1
<1>10. /\ v[1].ta = 1 /\ v[1].pa = 1 /\ v[1].n = a - 1
       /\ v[a].ta = 1 /\ v[a].pa = 1 /\ v[a].n = 1
       /\ v[b].ta = 0 /\ v[b].pa = 1 /\ v[b].n = 4
       /\ v[c].ta = 1 /\ v[c].pa = 0 /\ v[c].n = 1
       /\ v[b + 1].n = b /\ v[b + 2].n = b
  BY <1>4, <1>8, <1>9 DEF Header
<1>11. /\ BlockAfter(v, 1) = a /\ BlockAfter(v, a) = b /\ BlockAfter(v, b) = c
       /\ BlockAfter(v, c) = c + 1
  BY <1>2, <1>10 DEF BlockAfter
<1>12. FirstHeaders = {1, a, b, c}
  BY <1>1 DEF FirstHeaders
<1>13. Tiled(v, {1, a, b, c}, c + 1)
  <2>1. {1, a, b, c} \subseteq Addr /\ c + 1 \in Nat /\ c + 1 <= MaxWords + 1
    BY <1>2, <1>3
  <2>2. \A x \in {1, a, b, c} : /\ v[x].n >= 1 /\ BlockAfter(v, x) <= c + 1
                                /\ BlockAfter(v, x) # c + 1 => BlockAfter(v, x) \in {1, a, b, c}
    BY <1>2, <1>10, <1>11
  <2>3. \A x, y \in {1, a, b, c} : x < y => BlockAfter(v, x) <= y
    BY <1>2, <1>11
  <2> QED BY <1>8, <2>1, <2>2, <2>3 DEF Tiled
<1>14. Marked(v, {1, a, b, c})
  <2>1. c + 1 \notin {1, a, b, c}
    BY <1>2
  <2>2. \A x \in {1, a, b, c} : BlockAfter(v, x) \in {1, a, b, c} => v[BlockAfter(v, x)].pa = v[x].ta
    BY <1>10, <1>11, <2>1
  <2>3. \A x \in {1, a, b, c} : v[x].ta = 0 => x = b
    BY <1>10
  <2>4. v[b].n >= MinBlock /\ BlockAfter(v, b) \in {1, a, b, c} /\ v[BlockAfter(v, b)].ta = 1
        /\ v[BlockAfter(v, b) - 1].n = v[b].n
    BY <1>9, <1>10, <1>11 DEF MinBlock
  <2> QED BY <1>10, <2>2, <2>3, <2>4 DEF Marked
<1>15. FreeIn(v, {1, a, b, c}) = {b}
  BY <1>10 DEF FreeIn
<1>16. Linked(v, {b})
  <2>1. NextOf(v, b) = b /\ PrevOf(v, b) = b
    BY <1>10 DEF NextOf, PrevOf
  <2>2. Ring({b}, [x \in {b} |-> NextOf(v, x)], [x \in {b} |-> PrevOf(v, x)])
    <3>1. PICK nx : nx = [x \in {b} |-> NextOf(v, x)]
      OBVIOUS
    <3>2. PICK pv : pv = [x \in {b} |-> PrevOf(v, x)]
      OBVIOUS
    <3>3. nx[b] = b /\ pv[b] = b
      BY <2>1, <3>1, <3>2
    <3>4. \A T \in SUBSET {b} : T # {} => T = {b}
      OBVIOUS
    <3>5. Ring({b}, nx, pv)
      BY <3>3, <3>4 DEF Ring
    <3> QED BY <3>1, <3>2, <3>5
  <2> QED BY <2>2 DEF Linked
<1>17. Sane(v, b, {1, a, b, c}, c + 1)
  <2>1. Tomb(v, {1, a, b, c})
    BY <1>1, <1>10 DEF Tomb, MinBlock
  <2> QED BY <1>13, <1>14, <1>15, <1>16, <2>1 DEF Sane, Heap
<1>18. Alone(v, {1, a, b, c}, 1)
  <2>1. a - 1 >= 4
    BY <1>2
  <2> QED BY <1>10, <1>11, <2>1 DEF Alone, TakenIn
<1>19. Unmarked(v, q, 1, a)
  <2>1. q[1].n = v[1].n /\ q[1].ta = 0 /\ q[1].pa = v[1].pa /\ q[a].n = v[a].n /\ q[a].ta = v[a].ta
    BY <1>4, <1>7, <1>10
  <2>2. \A x \in Addr : x # 1 /\ x # a => q[x] = v[x]
    BY <1>8
  <2> QED BY <1>6, <2>1, <2>2 DEF Unmarked
<1>20. {1, a, b, c} \ {1, b} \subseteq TakenIn(v, {1, a, b, c}) \ {1}
  BY <1>3, <1>10 DEF TakenIn
<1> QED BY <1>1, <1>2, <1>10, <1>11, <1>12, <1>17, <1>18, <1>19, <1>20

\* The memory that it begins with.
LEMMA Begins ==
  ASSUME NEW m, Laid(m),
         NEW t, t = AddToFreeList(SetEndOfBlockSizeMarker(SetEndOfBlockSizeMarker(m, Mem2), 1), 1, Mem2)
  PROVE  /\ Sane(t, 1, FirstHeaders, SlabSize + 1) /\ Closed(t, FirstHeaders, SlabSize + 1)
         /\ Mem1 \in TakenIn(t, FirstHeaders) /\ t[Mem1].n = 1
<1>1. PICK q : q = SetEndOfBlockSizeMarker(m, Mem2)
  OBVIOUS
<1>2. PICK v : v = [[q EXCEPT ![1] = Header(1, 1, Mem1 - 1)] EXCEPT ![Mem1] = Header(1, 1, 1)]
  OBVIOUS
<1>3. /\ Mem1 \in Nat /\ Mem1 >= 5 /\ Mem1 \in Addr /\ 1 \in Addr /\ 1 # Mem1 /\ Mem1 - 1 \in Nat
      /\ Mem2 \in Addr /\ BlockAfter(m, Mem2) - 1 \in Addr /\ Mem1 - 1 \in Addr
      /\ Mem2 # Mem3 /\ Mem1 # Mem2 /\ SlabSize + 1 - 1 = Mem3 /\ 1 # Mem3 /\ 1 + (Mem1 - 1) = Mem1
  <2>1. m[Mem2].n = 4
    BY DEF Laid, Header, MinBlock
  <2> QED BY <2>1, FirstHeadersAre DEF BlockAfter
<1>4. q \in [Addr -> Cell]
  <2>1. m \in [Addr -> Cell] /\ m[Mem2].n >= 4
    BY DEF Laid, Header, MinBlock
  <2> QED BY <1>1, <1>3, <2>1, Marks
<1>5. Written(q, v, 1, Header(1, 1, Mem1 - 1), Mem1, Header(1, 1, 1))
  <2>1. Header(1, 1, Mem1 - 1) \in Cell /\ Header(1, 1, 1) \in Cell
    BY <1>3, WordsAreCells
  <2> QED BY <1>2, <1>3, <1>4, <2>1, Writes
<1>6. /\ Sane(v, Mem2, FirstHeaders, SlabSize + 1) /\ Alone(v, FirstHeaders, 1)
      /\ BlockAfter(v, 1) = Mem1 /\ Unmarked(v, q, 1, Mem1)
      /\ FirstHeaders \ {1, Mem2} \subseteq TakenIn(v, FirstHeaders) \ {1}
      /\ v[Mem1].n = 1 /\ v[Mem3].n = 1
  BY <1>1, <1>5, FirstIsSane
<1>7. PICK w : w = SetEndOfBlockSizeMarker(q, 1)
  OBVIOUS
<1>8. w \in [Addr -> Cell] /\ w[Mem1] = q[Mem1] /\ q[Mem1].pa = 0
  <2>1. q[1].n = Mem1 - 1 /\ BlockAfter(q, 1) = Mem1 /\ Mem1 - 1 >= 4
    <3>1. q[1].n = v[1].n /\ v[1].n = Mem1 - 1
      BY <1>5, <1>6 DEF Unmarked, Written, Header
    <3> QED BY <1>3, <3>1 DEF BlockAfter
  <2>2. w \in [Addr -> Cell] /\ OnlyWithin(q, w, 1 + 3, BlockAfter(q, 1) - 1)
    BY <1>3, <1>4, <1>7, <2>1, Marks
  <2>3. ~(Mem1 <= BlockAfter(q, 1) - 1)
    BY <1>3, <2>1
  <2>4. q[Mem1].pa = 0
    <3>1. m \in [Addr -> Cell] /\ m[Mem2].n = 4 /\ m[Mem1].pa = 0
      BY DEF Laid, Header, MinBlock
    <3>2. OnlyWithin(m, q, Mem2 + 3, BlockAfter(m, Mem2) - 1)
      BY <1>1, <1>3, <3>1, Marks
    <3>3. ~(Mem2 + 3 <= Mem1)
      BY FirstHeadersAre
    <3> QED BY <1>3, <3>1, <3>2, <3>3 DEF OnlyWithin
  <2> QED BY <1>3, <2>2, <2>3, <2>4 DEF OnlyWithin
<1>9. Prepared(v, w, 1, BlockAfter(v, 1))
  <2>1. Tiled(v, FirstHeaders, SlabSize + 1) /\ Mem1 = BlockAfter(v, 1) /\ w[Mem1].pa = 0
    BY <1>6, <1>8 DEF Sane, Heap
  <2>2. Unmarked(v, q, 1, BlockAfter(v, 1))
    BY <1>6
  <2> QED BY <1>6, <1>7, <1>8, <2>1, <2>2, Prepares
<1>10. t = AddToFreeList(w, 1, Mem2)
  BY <1>1, <1>7
<1>11. Loosened(v, t, FirstHeaders, SlabSize + 1, 1)
  BY <1>6, <1>9, <1>10, Returns
<1>12. Sane(t, 1, FirstHeaders, SlabSize + 1) /\ Kept(v, t, FirstHeaders, TakenIn(v, FirstHeaders) \ {1})
  BY <1>11 DEF Loosened
<1>13. Mem1 \in TakenIn(v, FirstHeaders) \ {1} /\ Mem3 \in TakenIn(v, FirstHeaders) \ {1}
  BY <1>3, <1>6 DEF FirstHeaders
<1>14. /\ Mem1 \in TakenIn(t, FirstHeaders) /\ t[Mem1].n = 1
       /\ Mem3 \in TakenIn(t, FirstHeaders) /\ t[Mem3].n = 1
  BY <1>6, <1>12, <1>13 DEF Kept, TakenIn
<1>15. Closed(t, FirstHeaders, SlabSize + 1)
  <2>1. (SlabSize + 1) - 1 = Mem3
    BY FirstHeadersAre
  <2>2. (SlabSize + 1) - 1 \in TakenIn(t, FirstHeaders) /\ t[(SlabSize + 1) - 1].n = 1
    BY <1>14, <2>1
  <2> QED BY <2>2 DEF Closed
<1> QED BY <1>12, <1>14, <1>15

-----------------------------------------------------------------------------
(***************************************************************************)
(* Code memory: going round the free list meets the free blocks.           *)
(***************************************************************************)
ListMore(l, m, list) ==
  IF NextOf(m, Last(l)) = list THEN l ELSE Append(l, NextOf(m, Last(l)))

ListRun(run, m, list, n) ==
  DOMAIN run = 0..n /\ run[0] = <<list>> /\ \A i \in 1..n : run[i] = ListMore(run[i - 1], m, list)

LEMMA ListRunExists ==
  ASSUME NEW m, NEW list, NEW n \in Nat
  PROVE  \E run : ListRun(run, m, list, n)
<1>1. PICK T : T = {k \in Nat : \E run : ListRun(run, m, list, k)}
  OBVIOUS
<1>2. 0 \in T
  <2>1. PICK run : run = [i \in 0..0 |-> <<list>>]
    OBVIOUS
  <2>2. ListRun(run, m, list, 0)
    BY <2>1 DEF ListRun
  <2> QED BY <1>1, <2>2
<1>3. ASSUME NEW k \in Nat, k \in T PROVE k + 1 \in T
  <2>1. PICK run : ListRun(run, m, list, k)
    BY <1>1, <1>3
  <2>2. PICK f : f = [i \in 0..(k + 1) |-> IF i <= k THEN run[i] ELSE ListMore(run[k], m, list)]
    OBVIOUS
  <2>3. ListRun(f, m, list, k + 1)
    BY <2>1, <2>2 DEF ListRun
  <2> QED BY <1>1, <2>3
<1> QED BY <1>1, <1>2, <1>3, InductionInSet

LEMMA FreeListRuns ==
  ASSUME NEW m, NEW list, NEW N \in Nat, N = MaxWords \div MinBlock
  PROVE  \E run : ListRun(run, m, list, N) /\ FreeList(m, list) = run[N]
<1> DEFINE IsMet(p) == p = [n \in 0..(MaxWords \div MinBlock) |->
                              IF n = 0 THEN <<list>>
                              ELSE IF NextOf(m, Last(p[n - 1])) = list THEN p[n - 1]
                                   ELSE Append(p[n - 1], NextOf(m, Last(p[n - 1])))]
           Met == CHOOSE p : IsMet(p)
<1>1. FreeList(m, list) = Met[MaxWords \div MinBlock]
  BY DEF FreeList
<1>2. \E p : IsMet(p)
  <2>1. PICK run : ListRun(run, m, list, N)
    BY ListRunExists
  <2>2. PICK p : p = [n \in 0..N |-> run[n]]
    OBVIOUS
  <2>3. ASSUME NEW n \in 0..N
        PROVE  run[n] = IF n = 0 THEN <<list>> ELSE ListMore(p[n - 1], m, list)
    <3>1. CASE n = 0
      BY <2>1, <3>1 DEF ListRun
    <3>2. CASE n # 0
      <4>1. n \in 1..N /\ n - 1 \in 0..N
        BY <3>2
      <4>2. run[n] = ListMore(run[n - 1], m, list) /\ p[n - 1] = run[n - 1]
        BY <2>1, <2>2, <4>1 DEF ListRun
      <4> QED BY <3>2, <4>2
    <3> QED BY <3>1, <3>2
  <2>4. p = [n \in 0..N |-> IF n = 0 THEN <<list>> ELSE ListMore(p[n - 1], m, list)]
    BY <2>2, <2>3
  <2>5. IsMet(p)
    BY <2>4 DEF ListMore
  <2> HIDE DEF IsMet
  <2> QED BY <2>5
<1> HIDE DEF IsMet
<1>3. IsMet(Met)
  BY <1>2
<1> HIDE DEF Met
<1>4. DOMAIN Met = 0..N /\ Met[0] = <<list>>
  BY <1>3 DEF IsMet
<1>5. ASSUME NEW i \in 1..N PROVE Met[i] = ListMore(Met[i - 1], m, list)
  <2>1. i \in 0..N /\ i # 0
    OBVIOUS
  <2> QED BY <1>3, <2>1 DEF IsMet, ListMore
<1>6. ListRun(Met, m, list, N)
  BY <1>4, <1>5 DEF ListRun
<1> QED BY <1>1, <1>6

\* A way along the list.
OnList(l, m, F, list) ==
  /\ l \in Seq(F) /\ Len(l) >= 1 /\ l[1] = list
  /\ \A j \in 1..(Len(l) - 1) : l[j + 1] = NextOf(m, l[j]) /\ l[j + 1] # list

LEMMA ListMoreIs ==
  ASSUME NEW m, NEW F, Linked(m, F), NEW list, NEW l, OnList(l, m, F, list),
         NEW t, t = ListMore(l, m, list)
  PROVE  /\ OnList(t, m, F, list)
         /\ Len(t) = Len(l) + 1 \/ (t = l /\ NextOf(m, Last(t)) = list)
<1>1. /\ l \in Seq(F) /\ Len(l) \in Nat /\ Len(l) >= 1 /\ l[1] = list
      /\ \A j \in 1..(Len(l) - 1) : l[j + 1] = NextOf(m, l[j]) /\ l[j + 1] # list
  BY DEF OnList
<1>2. Last(l) = l[Len(l)] /\ l[Len(l)] \in F
  BY <1>1 DEF Last
<1>3. PICK x : x = NextOf(m, Last(l))
  OBVIOUS
<1>4. x \in F
  BY <1>2, <1>3, LinkedLinks
<1>5. CASE x = list
  BY <1>3, <1>5 DEF ListMore
<1>6. CASE x # list
  <2>1. t = Append(l, x)
    BY <1>3, <1>6 DEF ListMore
  <2>2. t \in Seq(F) /\ Len(t) = Len(l) + 1 /\ t[Len(l) + 1] = x /\ \A i \in 1..Len(l) : t[i] = l[i]
    BY <1>1, <1>4, <2>1, AppendProperties
  <2>3. ASSUME NEW j \in 1..(Len(t) - 1) PROVE t[j + 1] = NextOf(m, t[j]) /\ t[j + 1] # list
    <3>1. CASE j = Len(l)
      BY <1>1, <1>2, <1>3, <1>6, <2>2, <3>1
    <3>2. CASE j # Len(l)
      <4>1. j \in 1..(Len(l) - 1) /\ j \in 1..Len(l) /\ j + 1 \in 1..Len(l)
        BY <1>1, <2>2, <3>2
      <4> QED BY <1>1, <2>2, <4>1
    <3> QED BY <3>1, <3>2
  <2>4. t[1] = list /\ Len(t) >= 1
    BY <1>1, <2>2
  <2> QED BY <2>2, <2>3, <2>4 DEF OnList
<1> QED BY <1>5, <1>6

LEMMA OnListGoes ==
  ASSUME NEW m, NEW F, Linked(m, F), NEW list \in F, NEW N \in Nat, NEW run, ListRun(run, m, list, N)
  PROVE  /\ OnList(run[N], m, F, list)
         /\ Len(run[N]) = N + 1 \/ NextOf(m, Last(run[N])) = list
<1>1. PICK T : T = {i \in Nat : i <= N => /\ OnList(run[i], m, F, list)
                                          /\ \/ Len(run[i]) = i + 1
                                             \/ NextOf(m, Last(run[i])) = list}
  OBVIOUS
<1>2. 0 \in T
  <2>1. run[0] = <<list>>
    BY DEF ListRun
  <2>2. OnList(<<list>>, m, F, list)
    BY DEF OnList
  <2>3. Len(<<list>>) = 1
    OBVIOUS
  <2> QED BY <1>1, <2>1, <2>2, <2>3
<1>3. ASSUME NEW i \in Nat, i \in T PROVE i + 1 \in T
  <2>1. CASE i + 1 <= N
    <3>1. i <= N /\ i + 1 \in 1..N /\ (i + 1) - 1 = i
      BY <2>1
    <3>2. run[i + 1] = ListMore(run[i], m, list)
      BY <3>1 DEF ListRun
    <3>3. PICK l, t : l = run[i] /\ t = run[i + 1]
      OBVIOUS
    <3>4. OnList(l, m, F, list) /\ (Len(l) = i + 1 \/ NextOf(m, Last(l)) = list)
      BY <1>1, <1>3, <3>1, <3>3
    <3>5. t = ListMore(l, m, list)
      BY <3>2, <3>3
    <3>6. /\ OnList(t, m, F, list)
          /\ Len(t) = Len(l) + 1 \/ (t = l /\ NextOf(m, Last(t)) = list)
      BY <3>4, <3>5, ListMoreIs
    <3>7. Len(t) = (i + 1) + 1 \/ NextOf(m, Last(t)) = list
      <4>1. CASE NextOf(m, Last(l)) = list
        <5>1. t = l
          BY <3>5, <4>1 DEF ListMore
        <5> QED BY <4>1, <5>1
      <4>2. CASE Len(l) = i + 1
        BY <3>6, <4>2
      <4> QED BY <3>4, <4>1, <4>2
    <3> QED BY <1>1, <3>3, <3>6, <3>7
  <2>2. CASE ~(i + 1 <= N)
    BY <1>1, <2>2
  <2> QED BY <2>1, <2>2
<1>4. N \in T
  BY <1>2, <1>3, InductionInSet
<1> QED BY <1>1, <1>4

\* The list does not come back on itself before it ends.
LEMMA OnListOnce ==
  ASSUME NEW m, NEW F, Linked(m, F), NEW list, NEW l, OnList(l, m, F, list)
  PROVE  \A i, j \in 1..Len(l) : l[i] = l[j] => i = j
<1>1. /\ l \in Seq(F) /\ Len(l) \in Nat /\ Len(l) >= 1 /\ l[1] = list
      /\ \A j \in 1..(Len(l) - 1) : l[j + 1] = NextOf(m, l[j]) /\ l[j + 1] # list
  BY DEF OnList
<1>2. PICK T : T = {i \in 1..Len(l) : \E j \in 1..Len(l) : i < j /\ l[i] = l[j]}
  OBVIOUS
<1>3. T = {}
  <2>1. SUFFICES ASSUME T # {} PROVE FALSE
    OBVIOUS
  <2>2. T \in SUBSET Nat
    BY <1>1, <1>2
  <2>3. PICK i \in T : \A k \in T : i <= k
    BY <2>1, <2>2, LeastNat
  <2>4. PICK j \in 1..Len(l) : i < j /\ l[i] = l[j]
    BY <1>2, <2>3
  <2>5. i \in 1..Len(l) /\ j - 1 \in 1..(Len(l) - 1) /\ (j - 1) + 1 = j /\ j - 1 \in 1..Len(l)
    BY <1>1, <1>2, <2>3, <2>4
  <2>6. l[j] = NextOf(m, l[j - 1]) /\ l[j] # list
    BY <1>1, <2>5
  <2>7. i # 1
    BY <1>1, <2>4, <2>6
  <2>8. i - 1 \in 1..(Len(l) - 1) /\ (i - 1) + 1 = i /\ i - 1 \in 1..Len(l)
    BY <1>1, <2>5, <2>7
  <2>9. l[i] = NextOf(m, l[i - 1])
    BY <1>1, <2>8
  <2>10. l[i - 1] \in F /\ l[j - 1] \in F
    BY <1>1, <2>5, <2>8
  <2>11. l[i - 1] = PrevOf(m, l[i]) /\ l[j - 1] = PrevOf(m, l[j])
    BY <2>6, <2>9, <2>10, LinkedLinks
  <2>12. l[i - 1] = l[j - 1]
    BY <2>4, <2>11
  <2>13. i - 1 \in T
    BY <1>1, <1>2, <2>4, <2>5, <2>8, <2>12
  <2> QED BY <1>1, <2>3, <2>5, <2>13
<1>4. ASSUME NEW i \in 1..Len(l), NEW j \in 1..Len(l), l[i] = l[j], i # j PROVE FALSE
  <2>1. i < j \/ j < i
    BY <1>1, <1>4
  <2> QED BY <1>2, <1>3, <1>4, <2>1
<1> QED BY <1>4

\* FreeList.
\* Free blocks lie apart: there are no more of them than fit.
Spread(F) ==
  /\ F \subseteq Addr
  /\ \A b \in F : b + 3 <= MaxWords
  /\ \A b, c \in F : b < c => b + 4 <= c

LEMMA FreeSpread ==
  ASSUME NEW m, NEW H, NEW e, Heap(m, H, e)
  PROVE  Spread(FreeIn(m, H))
<1>1. Tiled(m, H, e)
  BY DEF Heap
<1>2. ASSUME NEW b \in FreeIn(m, H)
      PROVE  /\ b \in H /\ b \in Addr /\ b \in Nat /\ m[b].n \in Nat /\ m[b].n >= 4
             /\ BlockAfter(m, b) = b + m[b].n /\ BlockAfter(m, b) \in Addr
  BY FreeBlockIs
<1>3. ASSUME NEW b \in FreeIn(m, H) PROVE b + 3 <= MaxWords
  <2>1. BlockAfter(m, b) <= MaxWords /\ MaxWords \in Nat
    BY <1>2, AddrIs
  <2> QED BY <1>2, <2>1
<1>4. ASSUME NEW b \in FreeIn(m, H), NEW c \in FreeIn(m, H), b < c PROVE b + 4 <= c
  <2>1. BlockAfter(m, b) <= c
    BY <1>1, <1>2, <1>4 DEF Tiled
  <2> QED BY <1>2, <2>1
<1> QED BY <1>2, <1>3, <1>4 DEF Spread

LEMMA Quarter ==
  ASSUME NEW n \in Nat
  PROVE  /\ n \div 4 \in Nat
         /\ 4 * (n \div 4) <= n /\ n < 4 * (n \div 4) + 4
OBVIOUS

LEMMA FreeListIs ==
  ASSUME NEW m, NEW F, Spread(F), Linked(m, F), NEW list \in F
  PROVE  /\ FreeList(m, list) \in Seq(F) /\ Len(FreeList(m, list)) >= 1
         /\ Range(FreeList(m, list)) = F
<1>1. PICK N \in Nat : N = MaxWords \div MinBlock
  BY AddrIs DEF MinBlock
<1>2. PICK run : ListRun(run, m, list, N) /\ FreeList(m, list) = run[N]
  BY <1>1, FreeListRuns
<1>3. PICK l : l = run[N]
  OBVIOUS
<1>4. /\ OnList(l, m, F, list)
      /\ Len(l) = N + 1 \/ NextOf(m, Last(l)) = list
  BY <1>2, <1>3, OnListGoes
<1>5. /\ l \in Seq(F) /\ Len(l) \in Nat /\ Len(l) >= 1 /\ l[1] = list
      /\ \A j \in 1..(Len(l) - 1) : l[j + 1] = NextOf(m, l[j])
  BY <1>4 DEF OnList
<1>6. Len(l) <= N
  <2>1. \A i, j \in 1..Len(l) : l[i] = l[j] => i = j
    BY <1>4, OnListOnce
  <2>2. PICK f : f = [i \in 1..Len(l) |-> ((l[i] - 1) \div 4) + 1]
    OBVIOUS
  <2>3. ASSUME NEW i \in 1..Len(l) PROVE f[i] \in 1..N
    <3>1. PICK b \in Nat : b = l[i] /\ b >= 1 /\ b + 3 <= MaxWords
      <4>1. l[i] \in F
        BY <1>5
      <4> QED BY <4>1, AddrIs DEF Spread
    <3>2. N = MaxWords \div 4 /\ MaxWords \in Nat
      BY <1>1, AddrIs DEF MinBlock
    <3>3. PICK x \in Nat : x = (b - 1) \div 4 /\ 4 * x <= b - 1
      <4>1. b - 1 \in Nat
        BY <3>1
      <4> QED BY <4>1, Quarter
    <3>4. MaxWords < 4 * N + 4
      BY <3>2, Quarter
    <3>5. x + 1 \in 1..N
      <4>1. PICK M \in Nat : M = MaxWords
        BY <3>2
      <4>2. 4 * x + 1 <= b /\ b + 3 <= M /\ M < 4 * N + 4
        <5>1. 4 * x <= b - 1
          BY <3>3
        <5> QED BY <3>1, <3>4, <4>1, <5>1
      <4> QED BY <4>2
    <3> QED BY <2>2, <3>1, <3>3, <3>5
  <2>8. ASSUME NEW i \in 1..Len(l), NEW j \in 1..Len(l), f[i] = f[j] PROVE i = j
    <3>1. PICK b \in Nat, c \in Nat :
            /\ b = l[i] /\ c = l[j] /\ b >= 1 /\ c >= 1
            /\ b < c => b + 4 <= c
            /\ c < b => c + 4 <= b
      <4>1. l[i] \in F /\ l[j] \in F
        BY <1>5
      <4> QED BY <4>1, AddrIs DEF Spread
    <3>2. PICK x \in Nat : x = (b - 1) \div 4 /\ 4 * x <= b - 1 /\ b - 1 < 4 * x + 4
      <4>1. b - 1 \in Nat
        BY <3>1
      <4> QED BY <4>1, Quarter
    <3>4. PICK y \in Nat : y = (c - 1) \div 4 /\ 4 * y <= c - 1 /\ c - 1 < 4 * y + 4
      <4>1. c - 1 \in Nat
        BY <3>1
      <4> QED BY <4>1, Quarter
    <3>5. x = y
      <4>1. x + 1 = y + 1
        BY <2>2, <2>8, <3>1, <3>2, <3>4
      <4> QED BY <4>1
    <3>6. b = c
      <4>1. /\ 4 * x <= b - 1 /\ b - 1 < 4 * x + 4 /\ 4 * x <= c - 1 /\ c - 1 < 4 * x + 4
            /\ b < c => b + 4 <= c
            /\ c < b => c + 4 <= b
        BY <3>1, <3>2, <3>4, <3>5
      <4> QED BY <4>1
    <3> QED BY <2>1, <3>1, <3>6
  <2>4. f \in Injection(1..Len(l), 1..N)
    BY <2>2, <2>3, <2>8 DEF Injection, IsInjective
  <2>5. IsFiniteSet(1..N) /\ Cardinality(1..N) = N
    BY FS_Interval
  <2>6. IsFiniteSet(1..Len(l)) /\ Cardinality(1..Len(l)) = Len(l)
    BY <1>5, FS_Interval
  <2>7. Cardinality(1..Len(l)) <= Cardinality(1..N)
    BY <2>4, <2>5, FS_Injection
  <2> QED BY <2>5, <2>6, <2>7
<1>7. NextOf(m, Last(l)) = list /\ Last(l) = l[Len(l)]
  BY <1>4, <1>5, <1>6 DEF Last
<1>8. PICK S : S = {l[i] : i \in 1..Len(l)}
  OBVIOUS
<1>9. S \subseteq F /\ S # {}
  BY <1>5, <1>8
<1>10. ASSUME NEW b \in S PROVE NextOf(m, b) \in S
  <2>1. PICK i \in 1..Len(l) : b = l[i]
    BY <1>8
  <2>2. CASE i = Len(l)
    <3>1. 1 \in 1..Len(l)
      BY <1>5
    <3> QED BY <1>5, <1>7, <1>8, <2>1, <2>2, <3>1
  <2>3. CASE i # Len(l)
    <3>1. i \in 1..(Len(l) - 1) /\ i + 1 \in 1..Len(l)
      BY <1>5, <2>3
    <3> QED BY <1>5, <1>8, <2>1, <3>1
  <2> QED BY <2>2, <2>3
<1>11. S = F
  <2>1. PICK nx : nx = [b \in F |-> NextOf(m, b)]
    OBVIOUS
  <2>2. PICK pv : pv = [b \in F |-> PrevOf(m, b)]
    OBVIOUS
  <2>3. Ring(F, nx, pv)
    BY <2>1, <2>2 DEF Linked
  <2>4. \A b \in S : nx[b] \in S
    BY <1>9, <1>10, <2>1
  <2> QED BY <1>9, <2>3, <2>4 DEF Ring
<1>12. Range(l) = S
  BY <1>5, <1>8 DEF Range
<1> QED BY <1>2, <1>3, <1>5, <1>11, <1>12

\* Candidate is one of the free blocks.
LEMMA CandidateIsFree ==
  ASSUME NEW H, NEW e, Sane(mem, FreeMemoryList, H, e)
  PROVE  Candidate \in FreeIn(mem, H)
<1>1. PICK l : l = FreeList(mem, FreeMemoryList)
  OBVIOUS
<1>2. /\ Heap(mem, H, e) /\ Linked(mem, FreeIn(mem, H)) /\ FreeMemoryList \in FreeIn(mem, H)
      /\ FreeIn(mem, H) \subseteq Addr /\ mem \in [Addr -> Cell]
  BY DEF Sane, FreeIn, Heap, Tiled
<1>3. l \in Seq(FreeIn(mem, H)) /\ Len(l) \in Nat /\ Len(l) >= 1 /\ DOMAIN l = 1..Len(l)
  <2>1. Spread(FreeIn(mem, H))
    BY <1>2, FreeSpread
  <2> QED BY <1>1, <1>2, <2>1, FreeListIs
<1>4. \A i \in DOMAIN l : l[i] \in FreeIn(mem, H)
  BY <1>3
<1>5. PICK sz : sz = [i \in DOMAIN l |-> mem[l[i]].n]
  OBVIOUS
<1>6. ASSUME NEW i \in DOMAIN l PROVE sz[i] \in Nat /\ sz[i] <= MaxWords
  <2>1. l[i] \in FreeIn(mem, H)
    BY <1>4
  <2>2. PICK b : b = l[i]
    OBVIOUS
  <2>3. /\ b \in Nat /\ b >= 1 /\ mem[b].n \in Nat /\ BlockAfter(mem, b) = b + mem[b].n
        /\ BlockAfter(mem, b) \in Addr
    BY <1>2, <2>1, <2>2, FreeBlockIs
  <2>4. mem[b].n <= MaxWords
    BY <2>3, AddrIs
  <2> QED BY <1>5, <2>2, <2>3, <2>4
<1>7. PICK T : T = {MaxWords - sz[i] : i \in DOMAIN l}
  OBVIOUS
<1>8. T \in SUBSET Nat /\ T # {}
  <2>1. 1 \in DOMAIN l
    BY <1>3
  <2> QED BY <1>6, <1>7, <2>1, AddrIs
<1>9. PICK k \in T : \A y \in T : k <= y
  BY <1>8, LeastNat
<1>10. PICK i0 \in DOMAIN l : k = MaxWords - sz[i0]
  BY <1>7, <1>9
<1>11. \A j \in DOMAIN l : sz[j] <= sz[i0]
  BY <1>6, <1>7, <1>9, <1>10, AddrIs
<1>12. PICK U : U = {i \in DOMAIN l : \A j \in DOMAIN l : sz[j] <= sz[i]}
  OBVIOUS
<1>13. U \in SUBSET Nat /\ i0 \in U
  BY <1>3, <1>11, <1>12
<1>14. PICK i \in U : \A y \in U : i <= y
  BY <1>13, LeastNat
<1> DEFINE largest(x) == \A j \in DOMAIN l : mem[l[j]].n <= mem[l[x]].n
<1>15. largest(i) /\ i \in DOMAIN l /\ \A j \in 1..(i - 1) : ~largest(j)
  <2>1. \A x \in DOMAIN l : largest(x) <=> x \in U
    BY <1>5, <1>12
  <2>2. i \in DOMAIN l /\ i \in 1..Len(l)
    BY <1>3, <1>12, <1>14
  <2>3. ASSUME NEW j \in 1..(i - 1), largest(j) PROVE FALSE
    <3>1. j \in DOMAIN l /\ j < i /\ j \in Nat
      BY <1>3, <2>2
    <3>2. j \in U
      BY <2>1, <2>3, <3>1
    <3> QED BY <1>3, <1>14, <2>2, <3>1, <3>2
  <2> QED BY <1>14, <2>1, <2>2, <2>3
<1>16. Candidate = l[CHOOSE x \in DOMAIN l : largest(x) /\ \A j \in 1..(x - 1) : ~largest(j)]
  BY <1>1 DEF Candidate
<1> HIDE DEF largest
<1>17. PICK c : c = CHOOSE x \in DOMAIN l : largest(x) /\ \A j \in 1..(x - 1) : ~largest(j)
  OBVIOUS
<1>18. c \in DOMAIN l
  BY <1>15, <1>17
<1> QED BY <1>4, <1>16, <1>17, <1>18

-----------------------------------------------------------------------------
(***************************************************************************)
(* Code memory: going from block to block meets the headers of a slab.     *)
(***************************************************************************)
SlabMore(l, m, z) ==
  IF BlockAfter(m, Last(l)) \in (Last(l) + 1)..(z - 1) THEN Append(l, BlockAfter(m, Last(l))) ELSE l

SlabRun(run, m, a, z, n) ==
  DOMAIN run = 0..n /\ run[0] = <<a>> /\ \A i \in 1..n : run[i] = SlabMore(run[i - 1], m, z)

LEMMA SlabRunExists ==
  ASSUME NEW m, NEW a, NEW z, NEW n \in Nat
  PROVE  \E run : SlabRun(run, m, a, z, n)
<1>1. PICK T : T = {k \in Nat : \E run : SlabRun(run, m, a, z, k)}
  OBVIOUS
<1>2. 0 \in T
  <2>1. PICK run : run = [i \in 0..0 |-> <<a>>]
    OBVIOUS
  <2>2. SlabRun(run, m, a, z, 0)
    BY <2>1 DEF SlabRun
  <2> QED BY <1>1, <2>2
<1>3. ASSUME NEW k \in Nat, k \in T PROVE k + 1 \in T
  <2>1. PICK run : SlabRun(run, m, a, z, k)
    BY <1>1, <1>3
  <2>2. PICK f : f = [i \in 0..(k + 1) |-> IF i <= k THEN run[i] ELSE SlabMore(run[k], m, z)]
    OBVIOUS
  <2>3. SlabRun(f, m, a, z, k + 1)
    BY <2>1, <2>2 DEF SlabRun
  <2> QED BY <1>1, <2>3
<1> QED BY <1>1, <1>2, <1>3, InductionInSet

LEMMA HeadersRun ==
  ASSUME NEW s, NEW N \in Nat, s.size = N
  PROVE  \E run : SlabRun(run, mem, s.base, EndOf(s), N) /\ Headers(s) = run[N]
<1> DEFINE IsMet(p) == p = [n \in 0..s.size |->
                              IF n = 0 THEN <<s.base>>
                              ELSE IF BlockAfter(mem, Last(p[n - 1]))
                                        \in (Last(p[n - 1]) + 1)..(EndOf(s) - 1)
                                   THEN Append(p[n - 1], BlockAfter(mem, Last(p[n - 1])))
                                   ELSE p[n - 1]]
           Met == CHOOSE p : IsMet(p)
<1>1. Headers(s) = Met[s.size]
  BY DEF Headers
<1>2. \E p : IsMet(p)
  <2>1. PICK run : SlabRun(run, mem, s.base, EndOf(s), N)
    BY SlabRunExists
  <2>2. PICK p : p = [n \in 0..N |-> run[n]]
    OBVIOUS
  <2>3. ASSUME NEW n \in 0..N
        PROVE  run[n] = IF n = 0 THEN <<s.base>> ELSE SlabMore(p[n - 1], mem, EndOf(s))
    <3>1. CASE n = 0
      BY <2>1, <3>1 DEF SlabRun
    <3>2. CASE n # 0
      <4>1. n \in 1..N /\ n - 1 \in 0..N
        BY <3>2
      <4>2. run[n] = SlabMore(run[n - 1], mem, EndOf(s)) /\ p[n - 1] = run[n - 1]
        BY <2>1, <2>2, <4>1 DEF SlabRun
      <4> QED BY <3>2, <4>2
    <3> QED BY <3>1, <3>2
  <2>4. p = [n \in 0..N |-> IF n = 0 THEN <<s.base>> ELSE SlabMore(p[n - 1], mem, EndOf(s))]
    BY <2>2, <2>3
  <2>5. IsMet(p)
    BY <2>4 DEF SlabMore
  <2> HIDE DEF IsMet
  <2> QED BY <2>5
<1> HIDE DEF IsMet
<1>3. IsMet(Met)
  BY <1>2
<1> HIDE DEF Met
<1>4. DOMAIN Met = 0..N /\ Met[0] = <<s.base>>
  BY <1>3 DEF IsMet
<1>5. ASSUME NEW i \in 1..N PROVE Met[i] = SlabMore(Met[i - 1], mem, EndOf(s))
  <2>1. i \in 0..N /\ i # 0
    OBVIOUS
  <2> QED BY <1>3, <2>1 DEF IsMet, SlabMore
<1>6. SlabRun(Met, mem, s.base, EndOf(s), N)
  BY <1>4, <1>5 DEF SlabRun
<1> QED BY <1>1, <1>6

\* A way along the slab.
OnSlab(l, m, H, a, z) ==
  /\ l \in Seq(H) /\ Len(l) >= 1 /\ l[1] = a
  /\ \A j \in 1..(Len(l) - 1) : l[j + 1] = BlockAfter(m, l[j]) /\ l[j + 1] < z

LEMMA SlabMoreIs ==
  ASSUME NEW m, NEW H, NEW e, Tiled(m, H, e), NEW a, NEW z \in Nat, z <= e,
         NEW l, OnSlab(l, m, H, a, z), NEW t, t = SlabMore(l, m, z)
  PROVE  /\ OnSlab(t, m, H, a, z)
         /\ Len(t) = Len(l) + 1 \/ (t = l /\ BlockAfter(m, Last(t)) >= z)
<1>1. /\ l \in Seq(H) /\ Len(l) \in Nat /\ Len(l) >= 1 /\ l[1] = a
      /\ \A j \in 1..(Len(l) - 1) : l[j + 1] = BlockAfter(m, l[j]) /\ l[j + 1] < z
  BY DEF OnSlab
<1>2. Last(l) = l[Len(l)] /\ l[Len(l)] \in H
  BY <1>1 DEF Last
<1>3. PICK y \in H : y = Last(l)
  BY <1>2
<1>4. PICK x : x = BlockAfter(m, y)
  OBVIOUS
<1>5. /\ x \in Nat /\ y \in Nat /\ m[y].n \in Nat /\ m[y].n >= 1 /\ x = y + m[y].n /\ e \in Nat
      /\ (x # e => x \in H)
  BY <1>4, BlockAfterIs DEF Tiled
<1>6. CASE x \in (y + 1)..(z - 1)
  <2>1. t = Append(l, x)
    BY <1>3, <1>4, <1>6 DEF SlabMore
  <2>2. x \in H /\ x < z
    BY <1>5, <1>6
  <2>3. t \in Seq(H) /\ Len(t) = Len(l) + 1 /\ t[Len(l) + 1] = x /\ \A i \in 1..Len(l) : t[i] = l[i]
    BY <1>1, <2>1, <2>2, AppendProperties
  <2>4. ASSUME NEW j \in 1..(Len(t) - 1) PROVE t[j + 1] = BlockAfter(m, t[j]) /\ t[j + 1] < z
    <3>1. CASE j = Len(l)
      BY <1>1, <1>2, <1>3, <1>4, <2>2, <2>3, <3>1
    <3>2. CASE j # Len(l)
      <4>1. j \in 1..(Len(l) - 1) /\ j \in 1..Len(l) /\ j + 1 \in 1..Len(l)
        BY <1>1, <2>3, <3>2
      <4> QED BY <1>1, <2>3, <4>1
    <3> QED BY <3>1, <3>2
  <2>5. t[1] = a /\ Len(t) >= 1
    BY <1>1, <2>3
  <2> QED BY <2>3, <2>4, <2>5 DEF OnSlab
<1>7. CASE x \notin (y + 1)..(z - 1)
  <2>1. t = l
    BY <1>3, <1>4, <1>7 DEF SlabMore
  <2>2. x >= z
    BY <1>5, <1>7
  <2> QED BY <1>3, <1>4, <2>1, <2>2
<1> QED BY <1>6, <1>7

LEMMA OnSlabGoes ==
  ASSUME NEW m, NEW H, NEW e, Tiled(m, H, e), NEW a \in H, NEW z \in Nat, z <= e, NEW N \in Nat,
         NEW run, SlabRun(run, m, a, z, N)
  PROVE  /\ OnSlab(run[N], m, H, a, z)
         /\ Len(run[N]) = N + 1 \/ BlockAfter(m, Last(run[N])) >= z
<1>1. PICK T : T = {i \in Nat : i <= N => /\ OnSlab(run[i], m, H, a, z)
                                          /\ \/ Len(run[i]) = i + 1
                                             \/ BlockAfter(m, Last(run[i])) >= z}
  OBVIOUS
<1>2. 0 \in T
  <2>1. run[0] = <<a>>
    BY DEF SlabRun
  <2>2. OnSlab(<<a>>, m, H, a, z)
    BY DEF OnSlab
  <2>3. Len(<<a>>) = 1
    OBVIOUS
  <2> QED BY <1>1, <2>1, <2>2, <2>3
<1>3. ASSUME NEW i \in Nat, i \in T PROVE i + 1 \in T
  <2>1. CASE i + 1 <= N
    <3>1. i <= N /\ i + 1 \in 1..N /\ (i + 1) - 1 = i
      BY <2>1
    <3>2. run[i + 1] = SlabMore(run[i], m, z)
      BY <3>1 DEF SlabRun
    <3>3. PICK l, t : l = run[i] /\ t = run[i + 1]
      OBVIOUS
    <3>4. OnSlab(l, m, H, a, z) /\ (Len(l) = i + 1 \/ BlockAfter(m, Last(l)) >= z)
      BY <1>1, <1>3, <3>1, <3>3
    <3>5. t = SlabMore(l, m, z)
      BY <3>2, <3>3
    <3>6. /\ OnSlab(t, m, H, a, z)
          /\ Len(t) = Len(l) + 1 \/ (t = l /\ BlockAfter(m, Last(t)) >= z)
      BY <3>4, <3>5, SlabMoreIs
    <3>7. Len(t) = (i + 1) + 1 \/ BlockAfter(m, Last(t)) >= z
      <4>1. CASE BlockAfter(m, Last(l)) >= z
        <5>1. PICK x \in Nat : x = BlockAfter(m, Last(l))
          <6>1. l \in Seq(H) /\ Len(l) >= 1 /\ Len(l) \in Nat
            BY <3>4 DEF OnSlab
          <6>2. Last(l) \in H
            BY <6>1 DEF Last
          <6> QED BY <6>2, BlockAfterIs
        <5>2. x \notin (Last(l) + 1)..(z - 1)
          BY <4>1, <5>1
        <5>3. t = l
          BY <3>5, <5>1, <5>2 DEF SlabMore
        <5> QED BY <4>1, <5>3
      <4>2. CASE Len(l) = i + 1
        BY <3>6, <4>2
      <4> QED BY <3>4, <4>1, <4>2
    <3> QED BY <1>1, <3>3, <3>6, <3>7
  <2>2. CASE ~(i + 1 <= N)
    BY <1>1, <2>2
  <2> QED BY <2>1, <2>2
<1>4. N \in T
  BY <1>2, <1>3, InductionInSet
<1> QED BY <1>1, <1>4

\* One goes forward.
LEMMA OnSlabFar ==
  ASSUME NEW m, NEW H, NEW e, Tiled(m, H, e), NEW a, NEW z \in Nat, NEW l, OnSlab(l, m, H, a, z),
         a < z
  PROVE  \A j \in 1..Len(l) : l[j] \in H /\ l[j] >= a + j - 1 /\ l[j] < z
<1>1. /\ l \in Seq(H) /\ Len(l) \in Nat /\ Len(l) >= 1 /\ l[1] = a
      /\ \A j \in 1..(Len(l) - 1) : l[j + 1] = BlockAfter(m, l[j]) /\ l[j + 1] < z
  BY DEF OnSlab
<1>2. a \in Nat /\ a \in H
  BY <1>1, BlockAfterIs
<1>3. PICK T : T = {j \in Nat : j + 1 <= Len(l) => l[j + 1] >= a + j /\ l[j + 1] < z}
  OBVIOUS
<1>4. 0 \in T
  BY <1>1, <1>2, <1>3
<1>5. ASSUME NEW j \in Nat, j \in T PROVE j + 1 \in T
  <2>1. CASE j + 2 <= Len(l)
    <3>1. PICK i \in 1..(Len(l) - 1) : i = j + 1
      BY <1>1, <2>1
    <3>2. l[i] \in H /\ l[i] >= a + j /\ l[i + 1] = BlockAfter(m, l[i]) /\ l[i + 1] < z
      BY <1>1, <1>3, <1>5, <2>1, <3>1
    <3>3. PICK b \in H : b = l[i]
      BY <3>2
    <3>4. /\ b \in Nat /\ m[b].n \in Nat /\ m[b].n >= 1 /\ BlockAfter(m, b) = b + m[b].n
      BY BlockAfterIs
    <3>5. PICK d \in Nat : d = BlockAfter(m, b)
      BY <3>4
    <3>6. d >= a + (j + 1) /\ l[i + 1] = d /\ d < z
      BY <1>2, <3>2, <3>3, <3>4, <3>5
    <3>7. l[(j + 1) + 1] = d
      BY <3>1, <3>6
    <3> QED BY <1>3, <3>6, <3>7
  <2>2. CASE ~(j + 2 <= Len(l))
    BY <1>1, <1>3, <2>2
  <2> QED BY <2>1, <2>2
<1>6. Nat \subseteq T
  BY <1>4, <1>5, InductionInSet
<1>7. ASSUME NEW j \in 1..Len(l) PROVE l[j] \in H /\ l[j] >= a + j - 1 /\ l[j] < z
  <2>1. PICK i \in Nat : i = j - 1
    BY <1>1
  <2>2. i \in T /\ i + 1 = j /\ i + 1 <= Len(l)
    BY <1>1, <1>6, <2>1
  <2>3. l[j] >= a + i /\ l[j] < z
    BY <1>3, <2>2
  <2> QED BY <1>1, <1>2, <2>1, <2>3
<1> QED BY <1>7

\* Headers.
LEMMA HeadersAre ==
  ASSUME NEW H, NEW e, Tiled(mem, H, e), NEW s, s.base \in H, s.size \in Nat, s.size >= 1,
         EndOf(s) <= e, NEW l, l = Headers(s)
  PROVE  /\ OnSlab(l, mem, H, s.base, EndOf(s))
         /\ {l[j] : j \in 1..Len(l)} = {h \in H : s.base <= h /\ h < EndOf(s)}
<1>1. PICK N \in Nat : N = s.size
  OBVIOUS
<1>2. PICK a \in H, z \in {EndOf(s)} : a = s.base /\ z = EndOf(s)
  OBVIOUS
<1>3. a \in Nat /\ z \in Nat /\ z = a + N /\ N >= 1 /\ a < z /\ z <= e
  <2>1. a \in Nat
    BY BlockAfterIs
  <2> QED BY <1>1, <1>2, <2>1 DEF EndOf
<1>4. PICK run : SlabRun(run, mem, s.base, EndOf(s), N) /\ Headers(s) = run[N]
  BY <1>1, HeadersRun
<1>5. /\ OnSlab(l, mem, H, a, z)
      /\ Len(l) = N + 1 \/ BlockAfter(mem, Last(l)) >= z
  <2>1. SlabRun(run, mem, a, z, N) /\ l = run[N]
    BY <1>2, <1>4
  <2> QED BY <1>3, <2>1, OnSlabGoes
<1>6. /\ l \in Seq(H) /\ Len(l) \in Nat /\ Len(l) >= 1 /\ l[1] = a
      /\ \A j \in 1..(Len(l) - 1) : l[j + 1] = BlockAfter(mem, l[j]) /\ l[j + 1] < z
  BY <1>5 DEF OnSlab
<1>7. \A j \in 1..Len(l) : l[j] \in H /\ l[j] >= a + j - 1 /\ l[j] < z
  BY <1>3, <1>5, OnSlabFar
<1>8. \A h \in H : h \in Nat
  BY BlockAfterIs
<1>9. BlockAfter(mem, l[Len(l)]) >= z
  <2>1. Len(l) # N + 1
    <3>1. SUFFICES ASSUME Len(l) = N + 1 PROVE FALSE
      OBVIOUS
    <3>2. N + 1 \in 1..Len(l)
      BY <1>6, <3>1
    <3>3. PICK h \in H : h = l[N + 1]
      BY <1>7, <3>2
    <3>4. h >= a + (N + 1) - 1 /\ h < z /\ h \in Nat
      BY <1>7, <1>8, <3>2, <3>3
    <3> QED BY <1>3, <3>4
  <2> QED BY <1>5, <1>6, <2>1 DEF Last
<1>10. ASSUME NEW j \in 1..Len(l) PROVE l[j] \in H /\ a <= l[j] /\ l[j] < z
  <2>1. PICK h \in H : h = l[j]
    BY <1>7
  <2>2. h \in Nat /\ h >= a + j - 1 /\ h < z /\ j >= 1 /\ j \in Nat
    BY <1>6, <1>7, <1>8, <2>1
  <2> QED BY <1>3, <2>1, <2>2
<1>11. ASSUME NEW h \in H, a <= h, h < z, \A j \in 1..Len(l) : l[j] # h PROVE FALSE
  <2>1. h \in Nat
    BY <1>8
  <2>2. PICK T : T = {j \in Nat : j + 1 <= Len(l) => l[j + 1] < h}
    OBVIOUS
  <2>3. 0 \in T
    <3>1. 1 \in 1..Len(l) /\ a # h
      BY <1>6, <1>11
    <3> QED BY <1>3, <1>6, <1>11, <2>1, <2>2, <3>1
  <2>4. ASSUME NEW j \in Nat, j \in T PROVE j + 1 \in T
    <3>1. CASE j + 2 <= Len(l)
      <4>1. PICK i \in 1..(Len(l) - 1) : i = j + 1
        BY <1>6, <3>1
      <4>2. l[i] \in H /\ l[i] < h /\ l[i + 1] = BlockAfter(mem, l[i]) /\ i + 1 \in 1..Len(l)
        BY <1>6, <2>2, <2>4, <3>1, <4>1
      <4>3. PICK b \in H : b = l[i]
        BY <4>2
      <4>4. h >= BlockAfter(mem, b) /\ BlockAfter(mem, b) \in Nat
        BY <4>2, <4>3, NoHeaderInside, BlockAfterIs
      <4>5. BlockAfter(mem, b) # h
        BY <1>11, <4>2, <4>3
      <4>6. l[(j + 1) + 1] < h
        <5>1. PICK d \in Nat : d = BlockAfter(mem, b)
          BY <4>4
        <5>2. d < h
          BY <2>1, <4>4, <4>5, <5>1
        <5>3. l[(j + 1) + 1] = d
          BY <4>1, <4>2, <4>3, <5>1
        <5> QED BY <5>2, <5>3
      <4> QED BY <2>2, <4>6
    <3>2. CASE ~(j + 2 <= Len(l))
      BY <1>6, <2>2, <3>2
    <3> QED BY <3>1, <3>2
  <2>5. Nat \subseteq T
    BY <2>3, <2>4, InductionInSet
  <2>6. PICK i \in Nat : i + 1 = Len(l)
    <3>1. Len(l) - 1 \in Nat /\ (Len(l) - 1) + 1 = Len(l)
      BY <1>6
    <3> QED BY <3>1
  <2>7. l[Len(l)] < h
    BY <1>6, <2>2, <2>5, <2>6
  <2>8. PICK b \in H : b = l[Len(l)]
    BY <1>6
  <2>9. h >= BlockAfter(mem, b) /\ BlockAfter(mem, b) \in Nat
    BY <2>7, <2>8, NoHeaderInside, BlockAfterIs
  <2> QED BY <1>3, <1>9, <1>11, <2>1, <2>8, <2>9
<1>12. {l[j] : j \in 1..Len(l)} = {h \in H : a <= h /\ h < z}
  BY <1>10, <1>11
<1> QED BY <1>2, <1>5, <1>12

-----------------------------------------------------------------------------
(***************************************************************************)
(* Code memory: the state.                                                 *)
(***************************************************************************)
\* The slabs lie one behind the other.
Contiguous(slabs) ==
  /\ slabs \in Seq([base : Nat, size : Nat]) /\ Len(slabs) >= 1
  /\ slabs[1].base = 1 /\ slabs[1].size = SlabSize
  /\ \A i \in 1..Len(slabs) : slabs[i].size >= 2
  /\ \A i \in 1..(Len(slabs) - 1) : slabs[i + 1].base = EndOf(slabs[i])

\* The separators.
Walls(slabs) == {Mem1} \cup {EndOf(slabs[i]) - 1 : i \in 1..Len(slabs)}

\* The separators W, and the blocks of functions, are allocated.
Holding(m, H, W, blocks, fill) ==
  /\ \A w \in W : w \in TakenIn(m, H) /\ m[w].n = 1
  /\ \A p \in Kind \X Function : blocks[p] # 0 =>
       /\ blocks[p] \in TakenIn(m, H) /\ m[blocks[p]].n >= 4 /\ fill[p] <= m[blocks[p]].n - 1
       /\ \A i \in 1..fill[p] : m[blocks[p] + i].by = p
  /\ \A p, q \in Kind \X Function : blocks[p] # 0 /\ blocks[p] = blocks[q] => p = q

Held(m, list, H, slabs, blocks, fill) ==
  Sane(m, list, H, EndOf(Last(slabs))) /\ Holding(m, H, Walls(slabs), blocks, fill)

HeldBy(g, H, slabs, blocks, fill) == Held(g.mem, g.list, H, slabs, blocks, fill)

\* For each kind and function: where its block is, or how far it is filled.
BlockMap == [Kind \X Function -> Nat]

\* The block that is emitted into.
Opened(m, H, b, blocks) ==
  /\ b \in TakenIn(m, H) /\ m[b].n >= 4 /\ BlockAfter(m, b) \in TakenIn(m, H)
  /\ \A p \in Kind \X Function : blocks[p] # b

Started == emitting # <<>> /\ emitting[3] = TRUE

MemoryTypes ==
  /\ CurBlock \in Nat /\ Contiguous(CodeSlabs)
  /\ Blocks \in BlockMap /\ filled \in BlockMap
  /\ emitting = <<>> \/ \E k \in Kind, f \in Function, s \in BOOLEAN : emitting = <<k, f, s>>

MemoryIs(H) ==
  /\ Held(mem, FreeMemoryList, H, CodeSlabs, Blocks, filled)
  /\ Started => Opened(mem, H, CurBlock, Blocks)

MemoryInv == MemoryTypes /\ \E H : MemoryIs(H)

LEMMA LastSlabIs ==
  ASSUME NEW slabs, Contiguous(slabs)
  PROVE  /\ Len(slabs) \in Nat /\ Len(slabs) \in 1..Len(slabs) /\ 1 \in 1..Len(slabs)
         /\ Last(slabs) = slabs[Len(slabs)]
         /\ \A i \in 1..Len(slabs) : /\ slabs[i].base \in Nat /\ slabs[i].size \in Nat
                                     /\ EndOf(slabs[i]) = slabs[i].base + slabs[i].size
                                     /\ EndOf(slabs[i]) \in Nat /\ slabs[i].size >= 2
         /\ EndOf(Last(slabs)) - 1 \in Walls(slabs) /\ Mem1 \in Walls(slabs)
         /\ Mem3 \in Walls(slabs) /\ EndOf(slabs[1]) = SlabSize + 1
<1>1. /\ slabs \in Seq([base : Nat, size : Nat]) /\ Len(slabs) \in Nat /\ Len(slabs) >= 1
      /\ slabs[1].base = 1 /\ slabs[1].size = SlabSize
      /\ \A i \in 1..Len(slabs) : slabs[i].size >= 2
  BY DEF Contiguous
<1>2. Len(slabs) \in 1..Len(slabs) /\ 1 \in 1..Len(slabs)
  BY <1>1
<1>3. Last(slabs) = slabs[Len(slabs)]
  BY DEF Last
<1>4. ASSUME NEW i \in 1..Len(slabs)
      PROVE  /\ slabs[i].base \in Nat /\ slabs[i].size \in Nat
             /\ EndOf(slabs[i]) = slabs[i].base + slabs[i].size
             /\ EndOf(slabs[i]) \in Nat /\ slabs[i].size >= 2
  <2>1. slabs[i] \in [base : Nat, size : Nat]
    BY <1>1, ElementOfSeq
  <2> QED BY <1>1, <2>1 DEF EndOf
<1>5. EndOf(slabs[1]) = SlabSize + 1 /\ EndOf(slabs[1]) - 1 = Mem3
  <2>1. EndOf(slabs[1]) = 1 + SlabSize
    BY <1>1 DEF EndOf
  <2> QED BY <2>1, FirstHeadersAre
<1>6. EndOf(Last(slabs)) - 1 \in Walls(slabs) /\ Mem1 \in Walls(slabs) /\ Mem3 \in Walls(slabs)
  BY <1>2, <1>3, <1>5 DEF Walls
<1> QED BY <1>1, <1>2, <1>3, <1>4, <1>5, <1>6

LEMMA ClosedIs ==
  ASSUME NEW slabs, Contiguous(slabs), NEW m, NEW H, NEW blocks, NEW fill,
         Holding(m, H, Walls(slabs), blocks, fill)
  PROVE  Closed(m, H, EndOf(Last(slabs)))
BY LastSlabIs DEF Closed, Holding

\* A block of a function may be freed.
LEMMA OwnedFreeable ==
  ASSUME NEW slabs, Contiguous(slabs), NEW m, NEW list, NEW H, NEW blocks, NEW fill,
         Held(m, list, H, slabs, blocks, fill), NEW b \in TakenIn(m, H), m[b].n >= 4
  PROVE  Freeable(m, H, b)
<1>1. PICK e : e = EndOf(Last(slabs))
  OBVIOUS
<1>2. /\ Tiled(m, H, e) /\ Tomb(m, H) /\ b \in H
      /\ \A w \in Walls(slabs) : w \in H /\ m[w].n = 1
  BY <1>1 DEF Held, Sane, Heap, Holding, TakenIn
<1>3. e - 1 \in H /\ m[e - 1].n = 1 /\ Mem1 \in H /\ m[Mem1].n = 1 /\ Mem3 \in H /\ m[Mem3].n = 1
      /\ e \in Nat
  <2>1. e \in Nat
    BY <1>1, LastSlabIs
  <2> QED BY <1>1, <1>2, <2>1, LastSlabIs
<1>4. BlockAfter(m, e - 1) = e /\ BlockAfter(m, Mem1) = Mem2 /\ BlockAfter(m, Mem2) = Mem3
      /\ Mem2 \in H
  BY <1>2, <1>3, FirstHeadersAre DEF BlockAfter, Tomb, MinBlock
<1>5. b # e - 1 /\ b # Mem1 /\ b # Mem3
  BY <1>3
<1>6. BlockAfter(m, b) # e /\ BlockAfter(m, b) # Mem2
  BY <1>2, <1>3, <1>4, <1>5, OneBefore
<1>7. BlockAfter(m, b) \in H
  BY <1>2, <1>6 DEF Tiled
<1> QED BY <1>4, <1>5, <1>6, <1>7 DEF Freeable

\* What is kept goes on holding.
LEMMA HoldingKept ==
  ASSUME NEW m, NEW H, NEW W, NEW blocks \in BlockMap,
         NEW fill \in BlockMap,
         Holding(m, H, W, blocks, fill), NEW e, Tiled(m, H, e), NEW t, NEW J, NEW K,
         Kept(m, t, J, K), W \subseteq K, \A p \in Kind \X Function : blocks[p] # 0 => blocks[p] \in K
  PROVE  Holding(t, J, W, blocks, fill)
<1>1. \A w \in W : w \in TakenIn(t, J) /\ t[w].n = 1
  BY DEF Holding, Kept, TakenIn
<1>2. ASSUME NEW p \in Kind \X Function, blocks[p] # 0
      PROVE  /\ blocks[p] \in TakenIn(t, J) /\ t[blocks[p]].n >= 4 /\ fill[p] <= t[blocks[p]].n - 1
             /\ \A i \in 1..fill[p] : t[blocks[p] + i].by = p
  <2>1. PICK b \in K : b = blocks[p]
    BY <1>2
  <2>2. /\ b \in TakenIn(m, H) /\ m[b].n >= 4 /\ fill[p] <= m[b].n - 1
        /\ \A i \in 1..fill[p] : m[b + i].by = p
    BY <1>2, <2>1 DEF Holding
  <2>3. /\ b \in J /\ t[b].ta = 1 /\ t[b].n = m[b].n
        /\ \A x \in (b + 1)..(BlockAfter(m, b) - 1) : t[x] = m[x]
    BY DEF Kept
  <2>4. b \in Nat /\ m[b].n \in Nat /\ BlockAfter(m, b) = b + m[b].n
    <3>1. b \in H
      BY <2>2 DEF TakenIn
    <3> QED BY <3>1, BlockAfterIs
  <2>5. ASSUME NEW i \in 1..fill[p] PROVE t[b + i].by = p
    <3>1. fill[p] \in Nat
      BY DEF BlockMap
    <3>2. b + i \in (b + 1)..(BlockAfter(m, b) - 1)
      BY <2>2, <2>4, <3>1
    <3> QED BY <2>2, <2>3, <3>2
  <2> QED BY <2>1, <2>2, <2>3, <2>5 DEF TakenIn
<1>3. \A p, q \in Kind \X Function : blocks[p] # 0 /\ blocks[p] = blocks[q] => p = q
  BY DEF Holding
<1> QED BY <1>1, <1>2, <1>3 DEF Holding

\* A function has no block of a kind any more.
Dropped(f, q) == [f EXCEPT ![q] = 0]

LEMMA Drops ==
  ASSUME NEW f \in BlockMap, NEW q \in Kind \X Function, NEW g, g = Dropped(f, q)
  PROVE  /\ g \in BlockMap /\ g[q] = 0
         /\ \A p \in Kind \X Function : p # q => g[p] = f[p]
BY DEF Dropped, BlockMap

LEMMA HoldingDrops ==
  ASSUME NEW m, NEW H, NEW W, NEW blocks \in BlockMap,
         NEW fill \in BlockMap, Holding(m, H, W, blocks, fill),
         NEW q \in Kind \X Function, NEW bs, bs = Dropped(blocks, q),
         NEW fs, fs = Dropped(fill, q)
  PROVE  Holding(m, H, W, bs, fs)
<1>1. /\ bs[q] = 0 /\ \A p \in Kind \X Function : p # q => bs[p] = blocks[p] /\ fs[p] = fill[p]
  BY DEF Dropped, BlockMap
<1>2. \A p \in Kind \X Function : bs[p] # 0 => p # q /\ bs[p] = blocks[p] /\ fs[p] = fill[p]
  BY <1>1
<1>3. \A w \in W : w \in TakenIn(m, H) /\ m[w].n = 1
  BY DEF Holding
<1>4. \A p \in Kind \X Function : bs[p] # 0 =>
        /\ bs[p] \in TakenIn(m, H) /\ m[bs[p]].n >= 4 /\ fs[p] <= m[bs[p]].n - 1
        /\ \A i \in 1..fs[p] : m[bs[p] + i].by = p
  BY <1>2 DEF Holding
<1>5. \A p, r \in Kind \X Function : bs[p] # 0 /\ bs[p] = bs[r] => p = r
  BY <1>2 DEF Holding
<1> QED BY <1>3, <1>4, <1>5 DEF Holding

\* Freed, of what a function may have.
LEMMA FreesHeld ==
  ASSUME NEW slabs, Contiguous(slabs), NEW H, NEW blocks \in BlockMap,
         NEW fill \in BlockMap, NEW g0,
         HeldBy(g0, H, slabs, blocks, fill), NEW q \in Kind \X Function,
         NEW g, g = Freed(g0, blocks[q]), NEW bs, bs = Dropped(blocks, q),
         NEW fs, fs = Dropped(fill, q)
  PROVE  \E J : HeldBy(g, J, slabs, bs, fs)
<1>1. PICK m, list : m = g0.mem /\ list = g0.list
  OBVIOUS
<1>2. PICK e, W : e = EndOf(Last(slabs)) /\ W = Walls(slabs)
  OBVIOUS
<1>3. /\ Sane(m, list, H, e) /\ Holding(m, H, W, blocks, fill)
      /\ Held(m, list, H, slabs, blocks, fill)
  BY <1>1, <1>2 DEF Held, HeldBy
<1>4. Holding(m, H, W, bs, fs)
  BY <1>3, HoldingDrops
<1>5. CASE blocks[q] = 0
  <2>1. g = g0
    BY <1>5 DEF Freed
  <2> QED BY <1>1, <1>2, <1>3, <1>4, <2>1 DEF Held, HeldBy
<1>6. CASE blocks[q] # 0
  <2>1. PICK b \in Nat \ {0} : b = blocks[q]
    BY <1>6 DEF BlockMap
  <2>2. b \in TakenIn(m, H) /\ m[b].n >= 4
    BY <1>3, <1>6, <2>1 DEF Holding
  <2>3. Freeable(m, H, b)
    BY <1>3, <2>2, OwnedFreeable
  <2>4. g = Freed(g0, b)
    BY <2>1
  <2>5. \E J : Sane(g.mem, g.list, J, e) /\ Kept(m, g.mem, J, TakenIn(m, H) \ {b})
    BY <1>1, <1>3, <2>3, <2>4, FreesIt
  <2>6. PICK J : Sane(g.mem, g.list, J, e) /\ Kept(m, g.mem, J, TakenIn(m, H) \ {b})
    BY <2>5
  <2>7. W \subseteq TakenIn(m, H) \ {b}
    <3>1. m[b].n # 1
      BY <2>2
    <3> QED BY <1>3, <3>1 DEF Holding
  <2>8. \A p \in Kind \X Function : bs[p] # 0 => bs[p] \in TakenIn(m, H) \ {b}
    <3>1. ASSUME NEW p \in Kind \X Function, bs[p] # 0 PROVE bs[p] \in TakenIn(m, H) \ {b}
      <4>1. p # q /\ bs[p] = blocks[p]
        BY <3>1 DEF Dropped, BlockMap
      <4>2. blocks[p] # blocks[q]
        BY <1>3, <3>1, <4>1 DEF Holding
      <4> QED BY <1>3, <2>1, <3>1, <4>1, <4>2 DEF Holding
    <3> QED BY <3>1
  <2>9. bs \in BlockMap /\ fs \in BlockMap /\ Tiled(m, H, e)
    BY <1>3, Drops DEF Sane, Heap
  <2>10. Holding(g.mem, J, W, bs, fs)
    BY <1>4, <2>6, <2>7, <2>8, <2>9, HoldingKept
  <2>11. HeldBy(g, J, slabs, bs, fs)
    BY <1>2, <2>6, <2>10 DEF Held, HeldBy
  <2> QED BY <2>11
<1> QED BY <1>5, <1>6

-----------------------------------------------------------------------------
(***************************************************************************)
(* Code memory: the steps.                                                 *)
(***************************************************************************)
\* AllocateBlock, of a free block that is not the tiny one.
LEMMA TakesHeld ==
  ASSUME NEW m, NEW list, NEW H, NEW slabs, NEW blocks \in BlockMap,
         NEW fill \in BlockMap, Held(m, list, H, slabs, blocks, fill),
         NEW b \in FreeIn(m, H), b # Mem2, NEW g, g = AllocateBlock(m, b)
  PROVE  /\ Held(g.mem, g.list, H, slabs, blocks, fill) /\ Opened(g.mem, H, b, blocks)
         /\ g.mem[b].n = m[b].n
<1>1. PICK e, W : e = EndOf(Last(slabs)) /\ W = Walls(slabs)
  OBVIOUS
<1>2. Sane(m, list, H, e) /\ Holding(m, H, W, blocks, fill) /\ Heap(m, H, e) /\ Tiled(m, H, e)
  BY <1>1 DEF Held, Sane, Heap
<1>3. /\ Sane(g.mem, g.list, H, e) /\ FreeIn(g.mem, H) = FreeIn(m, H) \ {b}
      /\ Kept(m, g.mem, H, TakenIn(m, H))
      /\ b \in TakenIn(g.mem, H) /\ g.mem[b].n = m[b].n
  BY <1>2, Allocates
<1>4. W \subseteq TakenIn(m, H) /\ \A p \in Kind \X Function : blocks[p] # 0 => blocks[p] \in TakenIn(m, H)
  BY <1>2 DEF Holding
<1>5. Holding(g.mem, H, W, blocks, fill)
  BY <1>2, <1>3, <1>4, HoldingKept
<1>6. /\ b \in H /\ b \in Nat /\ b >= 1 /\ m[b].n >= 4 /\ m[b].ta = 0
      /\ BlockAfter(m, b) \in H /\ m[BlockAfter(m, b)].ta = 1
  BY <1>2, FreeBlockIs
<1>7. BlockAfter(g.mem, b) = BlockAfter(m, b)
  BY <1>3 DEF BlockAfter
<1>8. BlockAfter(g.mem, b) \in TakenIn(g.mem, H)
  BY <1>3, <1>6, <1>7 DEF Kept, TakenIn
<1>9. \A p \in Kind \X Function : blocks[p] # b
  <2>1. b \notin TakenIn(m, H) /\ b # 0
    BY <1>6 DEF TakenIn
  <2> QED BY <1>4, <2>1
<1>10. Opened(g.mem, H, b, blocks)
  BY <1>3, <1>6, <1>8, <1>9 DEF Opened
<1> QED BY <1>1, <1>3, <1>5, <1>10 DEF Held

LEMMA SlabFollows ==
  ASSUME NEW slabs, Contiguous(slabs), NEW s \in [base : Nat, size : Nat],
         s.base = EndOf(Last(slabs)), s.size >= 2, NEW ss, ss = Append(slabs, s)
  PROVE  /\ Contiguous(ss) /\ Last(ss) = s
         /\ Walls(ss) = Walls(slabs) \cup {EndOf(s) - 1}
<1>1. /\ slabs \in Seq([base : Nat, size : Nat]) /\ Len(slabs) \in Nat /\ Len(slabs) >= 1
      /\ slabs[1].base = 1 /\ slabs[1].size = SlabSize
      /\ \A i \in 1..Len(slabs) : slabs[i].size >= 2
      /\ \A i \in 1..(Len(slabs) - 1) : slabs[i + 1].base = EndOf(slabs[i])
  BY DEF Contiguous
<1>2. PICK n \in Nat : n = Len(slabs)
  BY <1>1
<1>3. /\ ss \in Seq([base : Nat, size : Nat]) /\ Len(ss) = n + 1 /\ ss[n + 1] = s
      /\ \A i \in 1..n : ss[i] = slabs[i]
  BY <1>1, <1>2, AppendProperties
<1>4. Last(ss) = s /\ s.base = EndOf(slabs[n])
  BY <1>2, <1>3, LastSlabIs DEF Last
<1>5. \A i \in 1..(n + 1) : ss[i].size >= 2
  BY <1>1, <1>2, <1>3
<1>6. ASSUME NEW i \in 1..n PROVE ss[i + 1].base = EndOf(ss[i])
  <2>1. CASE i = n
    BY <1>3, <1>4, <2>1
  <2>2. CASE i # n
    <3>1. i \in 1..(n - 1) /\ i + 1 \in 1..n
      BY <2>2
    <3> QED BY <1>1, <1>2, <1>3, <3>1
  <2> QED BY <2>1, <2>2
<1>7. ss[1].base = 1 /\ ss[1].size = SlabSize
  <2>1. 1 \in 1..n
    BY <1>1, <1>2
  <2> QED BY <1>1, <1>3, <2>1
<1>8. Contiguous(ss)
  <2>1. Len(ss) >= 1 /\ Len(ss) - 1 = n
    BY <1>3
  <2> QED BY <1>3, <1>5, <1>6, <1>7, <2>1 DEF Contiguous
<1>9. Walls(ss) = Walls(slabs) \cup {EndOf(s) - 1}
  <2>1. 1..Len(ss) = (1..n) \cup {n + 1}
    BY <1>3
  <2>2. {EndOf(ss[i]) - 1 : i \in 1..Len(ss)}
          = {EndOf(slabs[i]) - 1 : i \in 1..n} \cup {EndOf(s) - 1}
    BY <1>3, <2>1
  <2> QED BY <1>2, <2>2 DEF Walls
<1> QED BY <1>4, <1>8, <1>9

\* allocateNewCodeSlab.
LEMMA SlabHeld ==
  ASSUME NEW m, NEW list, NEW H, NEW slabs, Contiguous(slabs),
         NEW blocks \in BlockMap, NEW fill \in BlockMap,
         Held(m, list, H, slabs, blocks, fill), NEW s \in [base : Nat, size : Nat],
         s.base = EndOf(Last(slabs)), s.size >= 6, EndOf(s) - 1 <= MaxWords,
         NEW t, t = WithSlab(m, list, s)
  PROVE  \E J : /\ Held(t, s.base, J, Append(slabs, s), blocks, fill)
                /\ s.base \in FreeIn(t, J) /\ s.base # Mem2 /\ t[s.base].n = s.size - 1
<1>1. PICK e, W : e = EndOf(Last(slabs)) /\ W = Walls(slabs)
  OBVIOUS
<1>2. PICK z \in Nat : z = s.size /\ z >= 6 /\ EndOf(s) = e + z
  BY <1>1 DEF EndOf
<1>3. /\ Sane(m, list, H, e) /\ Holding(m, H, W, blocks, fill) /\ Tiled(m, H, e) /\ Tomb(m, H)
      /\ e \in Nat
  BY <1>1 DEF Held, Sane, Heap, Tiled
<1>4. Closed(m, H, e)
  BY <1>1, <1>3, ClosedIs
<1>5. \E J : Slabbed(m, t, H, J, e, z)
  <2>1. z >= 5 /\ e + z - 1 <= MaxWords /\ s.base = e /\ s.size = z
    BY <1>1, <1>2
  <2> QED BY <1>3, <1>4, <2>1, Slabs
<1>6. PICK J : Slabbed(m, t, H, J, e, z)
  BY <1>5
<1>7. /\ Sane(t, e, J, e + z) /\ FreeIn(t, J) = FreeIn(m, H) \cup {e} /\ t[e].n = z - 1
      /\ Closed(t, J, e + z) /\ Kept(m, t, J, TakenIn(m, H))
  BY <1>6 DEF Slabbed
<1>8. PICK ss : ss = Append(slabs, s)
  OBVIOUS
<1>9. Contiguous(ss) /\ Last(ss) = s /\ Walls(ss) = W \cup {(e + z) - 1}
  <2>1. s.size >= 2
    BY <1>2
  <2>2. /\ Contiguous(ss) /\ Last(ss) = s
        /\ Walls(ss) = Walls(slabs) \cup {EndOf(s) - 1}
    BY <1>8, <2>1, SlabFollows
  <2> QED BY <1>1, <1>2, <2>2
<1>10. W \subseteq TakenIn(m, H) /\ \A p \in Kind \X Function : blocks[p] # 0 => blocks[p] \in TakenIn(m, H)
  BY <1>3 DEF Holding
<1>11. Holding(t, J, W, blocks, fill)
  BY <1>3, <1>7, <1>10, HoldingKept
<1>12. Holding(t, J, W \cup {(e + z) - 1}, blocks, fill)
  BY <1>7, <1>11 DEF Holding, Closed
<1>13. Held(t, e, J, ss, blocks, fill)
  BY <1>2, <1>7, <1>9, <1>12 DEF Held
<1>14. e # Mem2
  <2>1. BlockAfter(m, Mem2) <= e /\ BlockAfter(m, Mem2) = Mem2 + m[Mem2].n /\ m[Mem2].n \in Nat
        /\ m[Mem2].n >= 1 /\ Mem2 \in Nat
    BY <1>3, BlockAfterIs DEF Tomb
  <2> QED BY <1>3, <2>1
<1>15. e \in FreeIn(t, J)
  BY <1>7
<1> QED BY <1>1, <1>2, <1>7, <1>8, <1>13, <1>14, <1>15

LEMMA NewSlabIs ==
  ASSUME Contiguous(CodeSlabs), NEW ask \in Nat, NEW s, s = NewSlab(ask)
  PROVE  /\ s \in [base : Nat, size : Nat] /\ s.base = EndOf(Last(CodeSlabs))
         /\ s.size >= 6 /\ s.size - 2 >= ask
<1>1. SlabSize \in Nat /\ SlabSize >= 10
  BY CodeMemoryAssumption DEF MinBlock
<1>2. PICK z : z = Max({SlabSize, ask + 2})
  OBVIOUS
<1>3. z = CHOOSE x \in {SlabSize, ask + 2} : \A y \in {SlabSize, ask + 2} : x >= y
  BY <1>2 DEF Max
<1>4. \E x \in {SlabSize, ask + 2} : \A y \in {SlabSize, ask + 2} : x >= y
  <2>1. CASE SlabSize >= ask + 2
    BY <1>1, <2>1
  <2>2. CASE ~(SlabSize >= ask + 2)
    BY <1>1, <2>2
  <2> QED BY <2>1, <2>2
<1>5. z \in {SlabSize, ask + 2} /\ \A y \in {SlabSize, ask + 2} : z >= y
  BY <1>3, <1>4
<1>6. z \in Nat /\ z >= 6 /\ z - 2 >= ask
  BY <1>1, <1>5
<1>7. s = [base |-> Last(CodeSlabs).base + Last(CodeSlabs).size, size |-> z]
  BY <1>2 DEF NewSlab
<1>8. EndOf(Last(CodeSlabs)) \in Nat
        /\ EndOf(Last(CodeSlabs)) = Last(CodeSlabs).base + Last(CodeSlabs).size
  BY LastSlabIs DEF EndOf
<1> QED BY <1>6, <1>7, <1>8

\* EndFunctionBody and EndExceptionTable: what is in the block, and the trimming.
Emission(m, list, b, k, f, n) ==
  LET room == m[b].n - 1
  IN  TrimAllocationToSize(
        Fill(Fill(m, b + 1, b + room, Poison), b + 1, b + n, Emitted(k, f)), list, b, n + 1)

\* A function has a block of a kind, or has it filled up to there.
Given(map, k, f, n) == [map EXCEPT ![<<k, f>>] = n]

LEMMA EmitsHeld ==
  ASSUME NEW m, NEW list, NEW H, NEW slabs, NEW blocks \in BlockMap,
         NEW fill \in BlockMap, Held(m, list, H, slabs, blocks, fill),
         NEW b \in Nat, Opened(m, H, b, blocks), NEW k \in Kind, NEW f \in Function,
         NEW n \in Nat, n + 1 <= m[b].n, NEW g, g = Emission(m, list, b, k, f, n),
         NEW bs, bs = Given(blocks, k, f, b), NEW fs, fs = Given(fill, k, f, n)
  PROVE  \E J : Held(g.mem, g.list, J, slabs, bs, fs)
<1>1. PICK e, W : e = EndOf(Last(slabs)) /\ W = Walls(slabs)
  OBVIOUS
<1>2. /\ Sane(m, list, H, e) /\ Holding(m, H, W, blocks, fill) /\ Tiled(m, H, e)
      /\ m \in [Addr -> Cell] /\ H \subseteq Addr
  BY <1>1 DEF Held, Sane, Heap, Tiled
<1>3. /\ b \in TakenIn(m, H) /\ m[b].n >= 4 /\ BlockAfter(m, b) \in TakenIn(m, H)
      /\ \A p \in Kind \X Function : blocks[p] # b
  BY DEF Opened
<1>4. /\ b \in H /\ b \in Addr /\ m[b].n \in Nat /\ BlockAfter(m, b) = b + m[b].n
      /\ BlockAfter(m, b) <= e /\ e \in Nat /\ e <= MaxWords + 1 /\ b >= 1
  <2>1. b \in H
    BY <1>3 DEF TakenIn
  <2> QED BY <1>2, <2>1, BlockAfterIs
<1>5. PICK c : c = Fill(m, b + 1, b + (m[b].n - 1), Poison)
  OBVIOUS
<1>6. c \in [Addr -> Cell] /\ OnlyWithin(m, c, b + 1, b + (m[b].n - 1))
  BY <1>2, <1>5, Fills, WordsAreCells
<1>7. PICK u : u = Fill(c, b + 1, b + n, Emitted(k, f))
  OBVIOUS
<1>8. /\ u \in [Addr -> Cell] /\ OnlyWithin(c, u, b + 1, b + n)
      /\ \A x \in Addr : b + 1 <= x /\ x <= b + n => u[x] = Emitted(k, f)
  BY <1>6, <1>7, Fills, WordsAreCells
<1>9. OnlyWithin(m, u, b + 1, BlockAfter(m, b) - 1)
  <2>1. ASSUME NEW x \in Addr, ~(b + 1 <= x /\ x <= BlockAfter(m, b) - 1) PROVE u[x] = m[x]
    <3>1. x \in Nat
      BY AddrIs
    <3>2. ~(b + 1 <= x /\ x <= b + (m[b].n - 1)) /\ ~(b + 1 <= x /\ x <= b + n)
      BY <1>4, <2>1, <3>1
    <3> QED BY <1>6, <1>8, <3>2 DEF OnlyWithin
  <2> QED BY <2>1 DEF OnlyWithin
<1>10. /\ Sane(u, list, H, e) /\ FreeIn(u, H) = FreeIn(m, H) /\ TakenIn(u, H) = TakenIn(m, H)
       /\ \A x \in H : u[x] = m[x]
       /\ Kept(m, u, H, TakenIn(m, H) \ {b})
  BY <1>2, <1>3, <1>8, <1>9, WritesInside
<1>11. g = TrimAllocationToSize(u, list, b, n + 1)
  BY <1>5, <1>7 DEF Emission
<1>12. u[b] = m[b] /\ BlockAfter(u, b) = BlockAfter(m, b)
  BY <1>4, <1>10 DEF BlockAfter
<1>13. \E J : Trimmed(u, g, H, J, e, b, n + 1)
  <2>1. b \in TakenIn(u, H) /\ BlockAfter(u, b) \in TakenIn(u, H) /\ n + 1 <= u[b].n /\ n + 1 \in Nat
    BY <1>3, <1>10, <1>12
  <2> QED BY <1>10, <1>11, <2>1, Trims
<1>14. PICK J : Trimmed(u, g, H, J, e, b, n + 1)
  BY <1>13
<1>15. PICK t : t = g.mem
  OBVIOUS
<1>16. /\ Sane(t, g.list, J, e) /\ Kept(u, t, J, TakenIn(u, H) \ {b})
       /\ b \in TakenIn(t, J) /\ t[b].n >= n + 1 /\ t[b].n >= 4
       /\ \A x \in (b + 1)..(b + (n + 1) - 1) : t[x] = u[x]
  BY <1>3, <1>12, <1>14, <1>15 DEF Trimmed
<1>17. Kept(m, t, J, TakenIn(m, H) \ {b})
  <2>1. TakenIn(m, H) \ {b} \subseteq TakenIn(u, H) \ {b}
    BY <1>10
  <2> QED BY <1>10, <1>16, <2>1, KeptKept
<1>18. W \subseteq TakenIn(m, H) \ {b}
  <2>1. m[b].n # 1
    BY <1>3
  <2> QED BY <1>2, <2>1 DEF Holding
<1>19. \A p \in Kind \X Function : blocks[p] # 0 => blocks[p] \in TakenIn(m, H) \ {b}
  BY <1>2, <1>3 DEF Holding
<1>20. Holding(t, J, W, blocks, fill)
  BY <1>2, <1>17, <1>18, <1>19, HoldingKept
<1>21. PICK q \in Kind \X Function : q = <<k, f>>
  OBVIOUS
<1>22. /\ bs[q] = b /\ fs[q] = n
       /\ \A p \in Kind \X Function : p # q => bs[p] = blocks[p] /\ fs[p] = fill[p]
  BY <1>21 DEF BlockMap, Given
<1>23. ASSUME NEW i \in 1..n PROVE t[b + i].by = q
  <2>1. PICK x \in Nat : x = b + i
    OBVIOUS
  <2>2. x \in (b + 1)..(b + (n + 1) - 1) /\ x \in Addr /\ b + 1 <= x /\ x <= b + n
    BY <1>4, <2>1, AddrIs DEF Addr
  <2>3. t[x] = Emitted(k, f)
    BY <1>8, <1>16, <2>2
  <2> QED BY <1>21, <2>1, <2>3 DEF Emitted
<1>24. t[b].n \in Nat /\ n <= t[b].n - 1
  <2>1. b \in J /\ t \in [Addr -> Cell] /\ J \subseteq Addr
    BY <1>16 DEF TakenIn, Sane, Heap, Tiled
  <2>2. t[b].n \in Nat
    BY <2>1 DEF Cell
  <2> QED BY <1>16, <2>2
<1>25. ASSUME NEW p \in Kind \X Function, bs[p] # 0
       PROVE  /\ bs[p] \in TakenIn(t, J) /\ t[bs[p]].n >= 4 /\ fs[p] <= t[bs[p]].n - 1
              /\ \A i \in 1..fs[p] : t[bs[p] + i].by = p
  <2>1. CASE p = q
    BY <1>16, <1>22, <1>23, <1>24, <2>1
  <2>2. CASE p # q
    BY <1>20, <1>22, <1>25, <2>2 DEF Holding
  <2> QED BY <2>1, <2>2
<1>26. ASSUME NEW p \in Kind \X Function, NEW r \in Kind \X Function, bs[p] # 0, bs[p] = bs[r]
       PROVE  p = r
  BY <1>3, <1>20, <1>22, <1>26 DEF Holding
<1>27. Holding(t, J, W, bs, fs)
  <2>1. \A w \in W : w \in TakenIn(t, J) /\ t[w].n = 1
    BY <1>20 DEF Holding
  <2> QED BY <1>25, <1>26, <2>1 DEF Holding
<1> QED BY <1>1, <1>15, <1>16, <1>27 DEF Held

-----------------------------------------------------------------------------
\* startFunctionBody and startExceptionTable, whatever is being emitted.
LEMMA Starts ==
  ASSUME MemoryInv, NEW k \in Kind, NEW f \in Function, NEW ask \in Nat, StartBlock(k, f, ask)
  PROVE  MemoryInv' /\ Room' >= ask
<1>1. PICK H : MemoryIs(H)
  BY DEF MemoryInv
<1>2. /\ Contiguous(CodeSlabs) /\ Blocks \in BlockMap
      /\ filled \in BlockMap
  BY DEF MemoryInv, MemoryTypes
<1>3. Held(mem, FreeMemoryList, H, CodeSlabs, Blocks, filled)
  BY <1>1 DEF MemoryIs
<1>4. PICK e : e = EndOf(Last(CodeSlabs))
  OBVIOUS
<1>5. Sane(mem, FreeMemoryList, H, e) /\ Heap(mem, H, e) /\ Tomb(mem, H)
  BY <1>3, <1>4 DEF Held, Sane
<1>6. PICK b, s : b = Candidate /\ s = NewSlab(ask)
  OBVIOUS
<1>7. emitting' = <<k, f, TRUE>> /\ Blocks' = Blocks /\ filled' = filled
  BY DEF StartBlock
<1>8. CASE ~TooSmall(b, ask)
  <2>1. PICK g : g = AllocateBlock(mem, b)
    OBVIOUS
  <2>2. CodeSlabs' = CodeSlabs /\ CurBlock' = b /\ mem' = g.mem /\ FreeMemoryList' = g.list
    BY <1>6, <1>8, <2>1 DEF StartBlock
  <2>3. b \in FreeIn(mem, H)
    BY <1>5, <1>6, CandidateIsFree
  <2>4. b \in Nat /\ b >= 1 /\ mem[b].n \in Nat
    BY <1>5, <2>3, FreeBlockIs
  <2>5. mem[b].n - 1 >= ask /\ mem[b].n - 1 > 4
    BY <1>8, <2>4 DEF TooSmall, MinBlock
  <2>6. b # Mem2
    <3>1. mem[Mem2].n = 4
      BY <1>5 DEF Tomb, MinBlock
    <3> QED BY <2>4, <2>5, <3>1
  <2>7. /\ Held(g.mem, g.list, H, CodeSlabs, Blocks, filled) /\ Opened(g.mem, H, b, Blocks)
        /\ g.mem[b].n = mem[b].n
    <3>1. PICK m, list, slabs, bs, fs : /\ m = mem /\ list = FreeMemoryList /\ slabs = CodeSlabs
                                        /\ bs = Blocks /\ fs = filled
      OBVIOUS
    <3>2. /\ bs \in BlockMap /\ fs \in BlockMap
          /\ Held(m, list, H, slabs, bs, fs)
          /\ b \in FreeIn(m, H) /\ b # Mem2 /\ g = AllocateBlock(m, b)
      BY <1>2, <1>3, <2>1, <2>3, <2>6, <3>1
    <3>3. /\ Held(g.mem, g.list, H, slabs, bs, fs) /\ Opened(g.mem, H, b, bs)
          /\ g.mem[b].n = m[b].n
      BY <3>2, TakesHeld
    <3> QED BY <3>1, <3>3
  <2>8. /\ Held(mem', FreeMemoryList', H, CodeSlabs', Blocks', filled')
        /\ Opened(mem', H, CurBlock', Blocks')
        /\ mem'[CurBlock'].n - 1 >= ask /\ CurBlock' \in Nat \ {0} /\ Contiguous(CodeSlabs')
    BY <1>2, <1>7, <2>2, <2>4, <2>5, <2>7
  <2> QED BY <2>8, <1>7, <1>2 DEF MemoryInv, MemoryIs, MemoryTypes, Room
<1>9. CASE TooSmall(b, ask)
  <2>1. PICK t : t = WithSlab(mem, FreeMemoryList, s)
    OBVIOUS
  <2>2. PICK g : g = AllocateBlock(t, s.base)
    OBVIOUS
  <2>3. /\ s.base + s.size - 1 <= MaxWords /\ CodeSlabs' = Append(CodeSlabs, s)
        /\ CurBlock' = s.base /\ mem' = g.mem /\ FreeMemoryList' = g.list
    BY <1>6, <1>9, <2>1, <2>2 DEF StartBlock
  <2>4. /\ s \in [base : Nat, size : Nat] /\ s.base = EndOf(Last(CodeSlabs))
        /\ s.size >= 6 /\ s.size - 2 >= ask
    BY <1>2, <1>6, NewSlabIs
  <2>5. EndOf(s) - 1 <= MaxWords
    <3>1. s.base \in Nat /\ s.size \in Nat
      BY <2>4
    <3>2. PICK a, z : a = s.base /\ z = s.size
      OBVIOUS
    <3>3. a + z - 1 <= MaxWords
      BY <2>3, <3>2
    <3>4. EndOf(s) = a + z
      BY <3>2 DEF EndOf
    <3> QED BY <3>1, <3>2, <3>3, <3>4
  <2>6. \E J : /\ Held(t, s.base, J, Append(CodeSlabs, s), Blocks, filled)
               /\ s.base \in FreeIn(t, J) /\ s.base # Mem2 /\ t[s.base].n = s.size - 1
    <3>1. PICK m, list, slabs, bs, fs : /\ m = mem /\ list = FreeMemoryList /\ slabs = CodeSlabs
                                        /\ bs = Blocks /\ fs = filled
      OBVIOUS
    <3>2. /\ Contiguous(slabs)
          /\ bs \in BlockMap /\ fs \in BlockMap
          /\ Held(m, list, H, slabs, bs, fs)
          /\ s \in [base : Nat, size : Nat] /\ s.base = EndOf(Last(slabs))
          /\ s.size >= 6 /\ EndOf(s) - 1 <= MaxWords /\ t = WithSlab(m, list, s)
      BY <1>2, <1>3, <2>1, <2>4, <2>5, <3>1
    <3>3. \E J : /\ Held(t, s.base, J, Append(slabs, s), bs, fs)
                 /\ s.base \in FreeIn(t, J) /\ s.base # Mem2 /\ t[s.base].n = s.size - 1
      BY <3>2, SlabHeld
    <3> QED BY <3>1, <3>3
  <2>7. PICK J : /\ Held(t, s.base, J, CodeSlabs', Blocks, filled)
                 /\ s.base \in FreeIn(t, J) /\ s.base # Mem2 /\ t[s.base].n = s.size - 1
    BY <2>3, <2>6
  <2>8. Contiguous(CodeSlabs')
    <3>1. s.size >= 2
      BY <2>4
    <3> QED BY <1>2, <2>3, <2>4, <3>1, SlabFollows
  <2>9. /\ Held(g.mem, g.list, J, CodeSlabs', Blocks, filled) /\ Opened(g.mem, J, s.base, Blocks)
        /\ g.mem[s.base].n = t[s.base].n
    <3>1. PICK a, ss, bs, fs : a = s.base /\ ss = CodeSlabs' /\ bs = Blocks /\ fs = filled
      OBVIOUS
    <3>2. /\ bs \in BlockMap /\ fs \in BlockMap
          /\ Held(t, a, J, ss, bs, fs)
          /\ a \in FreeIn(t, J) /\ a # Mem2 /\ g = AllocateBlock(t, a)
      BY <1>2, <2>2, <2>7, <3>1
    <3>3. /\ Held(g.mem, g.list, J, ss, bs, fs) /\ Opened(g.mem, J, a, bs)
          /\ g.mem[a].n = t[a].n
      BY <3>2, TakesHeld
    <3> QED BY <3>1, <3>3
  <2>10. s.base \in Nat \ {0} /\ s.size \in Nat
    <3>1. Heap(t, J, EndOf(Last(CodeSlabs')))
      BY <2>7 DEF Held, Sane
    <3>2. s.base \in Nat /\ s.base >= 1
      BY <2>7, <3>1, FreeBlockIs
    <3> QED BY <2>4, <3>2
  <2>11. g.mem[s.base].n - 1 >= ask
    BY <2>4, <2>7, <2>9, <2>10
  <2>12. /\ Held(mem', FreeMemoryList', J, CodeSlabs', Blocks', filled')
         /\ Opened(mem', J, CurBlock', Blocks')
         /\ mem'[CurBlock'].n - 1 >= ask /\ CurBlock' \in Nat \ {0}
    BY <1>7, <2>3, <2>9, <2>10, <2>11
  <2> QED BY <2>8, <2>12, <1>7, <1>2 DEF MemoryInv, MemoryIs, MemoryTypes, Room
<1> QED BY <1>8, <1>9

\* endFunctionBody and endExceptionTable.
LEMMA Ends ==
  ASSUME MemoryInv, NEW k \in Kind, NEW f \in Function, NEW n, End(k, f, n)
  PROVE  MemoryInv'
<1>1. PICK H : MemoryIs(H)
  BY DEF MemoryInv
<1>2. /\ Contiguous(CodeSlabs) /\ Blocks \in BlockMap
      /\ filled \in BlockMap /\ CurBlock \in Nat
  BY DEF MemoryInv, MemoryTypes
<1>3. Held(mem, FreeMemoryList, H, CodeSlabs, Blocks, filled)
  BY <1>1 DEF MemoryIs
<1>4. emitting = <<k, f, TRUE>> /\ n \in 1..Room
  BY DEF End
<1>5. Opened(mem, H, CurBlock, Blocks)
  <2>1. Started
    BY <1>4 DEF Started
  <2> QED BY <1>1, <2>1 DEF MemoryIs
<1>6. CurBlock # 0 /\ mem[CurBlock].n \in Nat
  <2>1. CurBlock \in H
    BY <1>5 DEF Opened, TakenIn
  <2>2. Tiled(mem, H, EndOf(Last(CodeSlabs)))
    BY <1>3 DEF Held, Sane, Heap
  <2>3. CurBlock >= 1 /\ mem[CurBlock].n \in Nat
    BY <2>1, <2>2, BlockAfterIs
  <2> QED BY <2>3
<1>7. Room = mem[CurBlock].n - 1
  BY <1>6 DEF Room
<1>8. n \in Nat /\ n + 1 <= mem[CurBlock].n
  BY <1>4, <1>6, <1>7
<1>9. PICK g : g = Emission(mem, FreeMemoryList, CurBlock, k, f, n)
  OBVIOUS
<1>10. /\ mem' = g.mem /\ FreeMemoryList' = g.list
       /\ Blocks' = [Blocks EXCEPT ![<<k, f>>] = CurBlock]
       /\ filled' = [filled EXCEPT ![<<k, f>>] = n]
       /\ CodeSlabs' = CodeSlabs /\ CurBlock' = CurBlock
  BY <1>7, <1>9 DEF End, Emission
<1>11. PICK bs, fs : bs = Blocks' /\ fs = filled'
  OBVIOUS
<1>12. \E J : Held(g.mem, g.list, J, CodeSlabs, bs, fs)
  <2>1. PICK b, m, list, slabs, bl, fl : /\ b = CurBlock /\ m = mem /\ list = FreeMemoryList
                                         /\ slabs = CodeSlabs /\ bl = Blocks /\ fl = filled
    OBVIOUS
  <2>2. /\ bl \in BlockMap /\ fl \in BlockMap
        /\ Held(m, list, H, slabs, bl, fl)
        /\ b \in Nat /\ Opened(m, H, b, bl) /\ n \in Nat /\ n + 1 <= m[b].n
        /\ g = Emission(m, list, b, k, f, n)
        /\ bs = Given(bl, k, f, b) /\ fs = Given(fl, k, f, n)
    BY <1>2, <1>3, <1>5, <1>8, <1>9, <1>10, <1>11, <2>1 DEF Given
  <2>3. \E J : Held(g.mem, g.list, J, slabs, bs, fs)
    BY <2>2, EmitsHeld
  <2> QED BY <2>1, <2>3
<1>13. PICK J : Held(mem', FreeMemoryList', J, CodeSlabs', Blocks', filled')
  BY <1>10, <1>11, <1>12
<1>14. emitting' = <<>> \/ emitting' = <<"table", f, FALSE>>
  BY DEF End
<1>15. ~Started'
  <2>1. CASE emitting' = <<>>
    BY <2>1 DEF Started
  <2>2. CASE emitting' = <<"table", f, FALSE>>
    <3>1. emitting'[3] = FALSE
      BY <2>2
    <3> QED BY <3>1 DEF Started
  <2> QED BY <1>14, <2>1, <2>2
<1>16. MemoryTypes'
  <2>1. Blocks' \in BlockMap /\ filled' \in BlockMap
    BY <1>2, <1>8, <1>10 DEF BlockMap
  <2>2. "table" \in Kind
    BY DEF Kind
  <2>3. emitting' = <<>> \/ \E l \in Kind, h \in Function, z \in BOOLEAN : emitting' = <<l, h, z>>
    BY <1>14, <2>2
  <2> QED BY <1>2, <1>10, <2>1, <2>3 DEF MemoryTypes
<1> QED BY <1>13, <1>15, <1>16 DEF MemoryInv, MemoryIs

\* deallocateMemForFunction: the code, then the table.
LEMMA Deallocates ==
  ASSUME MemoryInv, NEW f \in Function, Deallocate(f)
  PROVE  MemoryInv'
<1>1. PICK H : MemoryIs(H)
  BY DEF MemoryInv
<1>2. /\ Contiguous(CodeSlabs) /\ Blocks \in BlockMap
      /\ filled \in BlockMap /\ CurBlock \in Nat
  BY DEF MemoryInv, MemoryTypes
<1>3. Held(mem, FreeMemoryList, H, CodeSlabs, Blocks, filled)
  BY <1>1 DEF MemoryIs
<1>4. PICK slabs, bl, fl : slabs = CodeSlabs /\ bl = Blocks /\ fl = filled
  OBVIOUS
<1>5. PICK c \in Kind \X Function, d \in Kind \X Function : c = <<"code", f>> /\ d = <<"table", f>>
  BY DEF Kind
<1>6. c # d
  BY <1>5
<1>7. PICK g0 : g0 = [mem |-> mem, list |-> FreeMemoryList]
  OBVIOUS
<1>8. PICK bs, fs : bs = Dropped(bl, c) /\ fs = Dropped(fl, c)
  OBVIOUS
<1>9. PICK g1 : g1 = Freed(g0, bl[c])
  OBVIOUS
<1>10. \E J : HeldBy(g1, J, slabs, bs, fs)
  <2>1. HeldBy(g0, H, slabs, bl, fl)
    BY <1>3, <1>7, <1>4 DEF HeldBy
  <2>2. /\ Contiguous(slabs) /\ c \in Kind \X Function
        /\ bl \in BlockMap /\ fl \in BlockMap
        /\ HeldBy(g0, H, slabs, bl, fl)
        /\ g1 = Freed(g0, bl[c]) /\ bs = Dropped(bl, c) /\ fs = Dropped(fl, c)
    BY <1>2, <1>5, <1>8, <1>9, <1>4, <2>1
  <2> QED BY <2>2, FreesHeld
<1>11. PICK J : HeldBy(g1, J, slabs, bs, fs)
  BY <1>10
<1>12. /\ bs \in BlockMap /\ fs \in BlockMap
       /\ bs[d] = bl[d]
  <2>1. /\ bl \in BlockMap /\ bs = Dropped(bl, c)
        /\ fl \in BlockMap /\ fs = Dropped(fl, c)
    BY <1>2, <1>8, <1>4
  <2>2. bs \in BlockMap /\ \A p \in Kind \X Function : p # c => bs[p] = bl[p]
    BY <1>5, <2>1, Drops
  <2>3. fs \in BlockMap
    BY <1>5, <2>1, Drops
  <2> QED BY <1>6, <2>2, <2>3
<1>13. PICK bt, ft : bt = Dropped(bs, d) /\ ft = Dropped(fs, d)
  OBVIOUS
<1>14. PICK g2 : g2 = Freed(g1, bs[d])
  OBVIOUS
<1>15. \E K : HeldBy(g2, K, slabs, bt, ft)
  <2>1. /\ Contiguous(slabs) /\ d \in Kind \X Function
        /\ bs \in BlockMap /\ fs \in BlockMap
        /\ HeldBy(g1, J, slabs, bs, fs)
        /\ g2 = Freed(g1, bs[d]) /\ bt = Dropped(bs, d) /\ ft = Dropped(fs, d)
    BY <1>2, <1>5, <1>11, <1>12, <1>13, <1>14, <1>4
  <2> QED BY <2>1, FreesHeld
<1>16. FreedAll(f) = g2
  BY <1>5, <1>7, <1>9, <1>12, <1>14, <1>4 DEF FreedAll
<1>17. /\ mem' = g2.mem /\ FreeMemoryList' = g2.list /\ emitting' = <<>>
       /\ CurBlock' = CurBlock /\ CodeSlabs' = CodeSlabs
  BY <1>16 DEF Deallocate
<1>18. Blocks' = bt
  BY <1>5, <1>8, <1>13, <1>4 DEF Deallocate, Dropped
<1>19. filled' = ft
  BY <1>5, <1>8, <1>13, <1>4 DEF Deallocate, Dropped
<1>20. bt \in BlockMap /\ ft \in BlockMap
  BY <1>5, <1>12, <1>13, Drops
<1>21. MemoryTypes'
  BY <1>2, <1>17, <1>18, <1>19, <1>20 DEF MemoryTypes
<1>22. ~Started'
  BY <1>17 DEF Started
<1>23. \E K : Held(mem', FreeMemoryList', K, CodeSlabs', Blocks', filled')
  BY <1>15, <1>17, <1>18, <1>19, <1>4 DEF HeldBy
<1> QED BY <1>21, <1>22, <1>23 DEF MemoryInv, MemoryIs

\* allocateSpace: the block is taken, and what it leaves is given back.
Spaced(m, b, size) ==
  LET g == AllocateBlock(m, b)
  IN  TrimAllocationToSize(Fill(g.mem, b + 1, BlockAfter(g.mem, b) - 1, Poison), g.list, b, size)

LEMMA SpaceHeld ==
  ASSUME NEW m, NEW list, NEW H, NEW slabs, NEW blocks \in BlockMap, NEW fill \in BlockMap,
         Held(m, list, H, slabs, blocks, fill), NEW b \in FreeIn(m, H), b # Mem2,
         NEW size \in Nat, size <= m[b].n, NEW t, t = Spaced(m, b, size)
  PROVE  \E J : HeldBy(t, J, slabs, blocks, fill)
<1>1. PICK e, W : e = EndOf(Last(slabs)) /\ W = Walls(slabs)
  OBVIOUS
<1>2. PICK g : g = AllocateBlock(m, b)
  OBVIOUS
<1>3. /\ Held(g.mem, g.list, H, slabs, blocks, fill) /\ Opened(g.mem, H, b, blocks)
      /\ g.mem[b].n = m[b].n
  <2>1. /\ Held(m, list, H, slabs, blocks, fill) /\ b \in FreeIn(m, H) /\ b # Mem2
        /\ g = AllocateBlock(m, b)
    BY <1>2
  <2> QED BY <2>1, TakesHeld
<1>4. PICK a, l : a = g.mem /\ l = g.list
  OBVIOUS
<1>5. Sane(a, l, H, e) /\ Holding(a, H, W, blocks, fill) /\ a \in [Addr -> Cell] /\ Tiled(a, H, e)
  BY <1>1, <1>3, <1>4 DEF Held, Sane, Heap, Tiled
<1>6. /\ b \in TakenIn(a, H) /\ a[b].n >= 4 /\ BlockAfter(a, b) \in TakenIn(a, H)
      /\ \A p \in Kind \X Function : blocks[p] # b
  BY <1>3, <1>4 DEF Opened
<1>7. PICK u : u = Fill(a, b + 1, BlockAfter(a, b) - 1, Poison)
  OBVIOUS
<1>8. u \in [Addr -> Cell] /\ OnlyWithin(a, u, b + 1, BlockAfter(a, b) - 1)
  BY <1>5, <1>7, Fills, WordsAreCells
<1>9. /\ Sane(u, l, H, e) /\ FreeIn(u, H) = FreeIn(a, H) /\ TakenIn(u, H) = TakenIn(a, H)
      /\ \A x \in H : u[x] = a[x]
      /\ Kept(a, u, H, TakenIn(a, H) \ {b})
  <2>1. /\ Sane(a, l, H, e) /\ b \in TakenIn(a, H) /\ u \in [Addr -> Cell]
        /\ OnlyWithin(a, u, b + 1, BlockAfter(a, b) - 1)
    BY <1>5, <1>6, <1>8
  <2> QED BY <2>1, WritesInside
<1>10. t = TrimAllocationToSize(u, l, b, size)
  BY <1>2, <1>4, <1>7 DEF Spaced
<1>11. u[b] = a[b] /\ BlockAfter(u, b) = BlockAfter(a, b)
  <2>1. b \in H
    BY <1>6 DEF TakenIn
  <2> QED BY <1>9, <2>1 DEF BlockAfter
<1>12. \E J : Trimmed(u, t, H, J, e, b, size)
  <2>1. /\ b \in TakenIn(u, H) /\ BlockAfter(u, b) \in TakenIn(u, H) /\ size <= u[b].n
        /\ Sane(u, l, H, e)
    BY <1>3, <1>4, <1>6, <1>9, <1>11
  <2> QED BY <1>10, <2>1, Trims
<1>13. PICK J : Trimmed(u, t, H, J, e, b, size)
  BY <1>12
<1>14. Sane(t.mem, t.list, J, e) /\ Kept(u, t.mem, J, TakenIn(u, H) \ {b})
  BY <1>13 DEF Trimmed
<1>15. Kept(a, t.mem, J, TakenIn(a, H) \ {b})
  <2>1. TakenIn(a, H) \ {b} \subseteq TakenIn(u, H) \ {b}
    BY <1>9
  <2> QED BY <1>9, <1>14, <2>1, KeptKept
<1>16. W \subseteq TakenIn(a, H) \ {b}
  <2>1. a[b].n # 1
    BY <1>6
  <2> QED BY <1>5, <2>1 DEF Holding
<1>17. \A p \in Kind \X Function : blocks[p] # 0 => blocks[p] \in TakenIn(a, H) \ {b}
  BY <1>5, <1>6 DEF Holding
<1>18. Holding(t.mem, J, W, blocks, fill)
  BY <1>5, <1>15, <1>16, <1>17, HoldingKept
<1> QED BY <1>1, <1>14, <1>18 DEF Held, HeldBy

\* Rounding up to the next multiple.
LEMMA RoundsUp ==
  ASSUME NEW b \in Nat, NEW a \in Nat \ {0}
  PROVE  /\ ((b + a) \div a) * a \in Nat
         /\ ((b + a) \div a) * a > b
<1>1. PICK q : q = (b + a) \div a
  OBVIOUS
<1>2. q \in Nat /\ b + a < (q + 1) * a
  BY <1>1
<1>3. PICK p \in Nat : p = q * a
  BY <1>2
<1>4. (q + 1) * a = p + a
  BY <1>2, <1>3
<1>5. p > b
  BY <1>2, <1>4
<1> QED BY <1>1, <1>3, <1>5

LEMMA AllocatesSpace ==
  ASSUME MemoryInv, NEW size \in Nat, NEW alignment \in Nat \ {0}, AllocateSpace(size, alignment)
  PROVE  MemoryInv'
<1>1. PICK H : MemoryIs(H)
  BY DEF MemoryInv
<1>2. /\ Contiguous(CodeSlabs) /\ Blocks \in BlockMap /\ filled \in BlockMap
  BY DEF MemoryInv, MemoryTypes
<1>3. Held(mem, FreeMemoryList, H, CodeSlabs, Blocks, filled)
  BY <1>1 DEF MemoryIs
<1>4. PICK b, m, slabs, bs, fs : /\ b = FreeMemoryList /\ m = mem /\ slabs = CodeSlabs
                                 /\ bs = Blocks /\ fs = filled
  OBVIOUS
<1>5. PICK at : at = ((b + alignment) \div alignment) * alignment
  OBVIOUS
<1>6. PICK sz : sz = at + size - b
  OBVIOUS
<1>7. PICK t : t = Spaced(m, b, sz)
  OBVIOUS
<1>8. /\ emitting = <<>> /\ b # Mem2 /\ at + size <= BlockAfter(m, b)
      /\ CurBlock' = b /\ mem' = t.mem /\ FreeMemoryList' = t.list /\ emitting' = emitting
      /\ CodeSlabs' = CodeSlabs /\ Blocks' = Blocks /\ filled' = filled
  BY <1>4, <1>5, <1>6, <1>7 DEF AllocateSpace, Spaced
<1>9. PICK e : Sane(m, b, H, e)
  BY <1>3, <1>4 DEF Held
<1>10. b \in FreeIn(m, H) /\ Heap(m, H, e)
  BY <1>9 DEF Sane
<1>11. b \in Nat /\ b >= 1 /\ m[b].n \in Nat /\ BlockAfter(m, b) = b + m[b].n
  BY <1>10, FreeBlockIs
<1>12. at \in Nat /\ at > b
  BY <1>5, <1>11, RoundsUp
<1>13. sz \in Nat /\ sz <= m[b].n
  BY <1>6, <1>8, <1>11, <1>12
<1>14. \E J : HeldBy(t, J, slabs, bs, fs)
  <2>1. /\ Held(m, b, H, slabs, bs, fs) /\ bs \in BlockMap /\ fs \in BlockMap
        /\ b \in FreeIn(m, H) /\ b # Mem2 /\ sz \in Nat /\ sz <= m[b].n /\ t = Spaced(m, b, sz)
    BY <1>2, <1>3, <1>4, <1>7, <1>8, <1>10, <1>13
  <2> QED BY <2>1, SpaceHeld
<1>15. \E J : Held(mem', FreeMemoryList', J, CodeSlabs', Blocks', filled')
  BY <1>4, <1>8, <1>14 DEF HeldBy
<1>16. MemoryTypes'
  BY <1>2, <1>8, <1>11 DEF MemoryTypes
<1>17. ~Started'
  BY <1>8 DEF Started
<1> QED BY <1>15, <1>16, <1>17 DEF MemoryInv, MemoryIs

LEMMA MemoryBegins ==
  ASSUME MemoryInit
  PROVE  MemoryInv
<1>1. PICK laid : laid = [[x \in Addr |-> Poison] EXCEPT
                 ![Mem3] = Header(1, 0, 1),
                 ![Mem2] = Header(0, 1, MinBlock), ![Mem2 + 1] = Word(Mem2), ![Mem2 + 2] = Word(Mem2),
                 ![Mem1] = Header(1, 0, 1), ![1] = Header(0, 1, Mem1 - 1)]
  OBVIOUS
<1>2. /\ mem = AddToFreeList(SetEndOfBlockSizeMarker(SetEndOfBlockSizeMarker(laid, Mem2), 1), 1, Mem2)
      /\ FreeMemoryList = 1 /\ CurBlock = 0 /\ CodeSlabs = <<[base |-> 1, size |-> SlabSize]>>
      /\ Blocks = [p \in Kind \X Function |-> 0] /\ filled = [p \in Kind \X Function |-> 0]
      /\ emitting = <<>>
  BY <1>1 DEF MemoryInit
<1>3. Laid(laid)
  BY <1>1, Lays
<1>4. /\ Sane(mem, 1, FirstHeaders, SlabSize + 1) /\ Closed(mem, FirstHeaders, SlabSize + 1)
      /\ Mem1 \in TakenIn(mem, FirstHeaders) /\ mem[Mem1].n = 1
  <2>1. PICK t : t = mem
    OBVIOUS
  <2>2. t = AddToFreeList(SetEndOfBlockSizeMarker(SetEndOfBlockSizeMarker(laid, Mem2), 1), 1, Mem2)
    BY <1>2, <2>1
  <2>3. /\ Sane(t, 1, FirstHeaders, SlabSize + 1) /\ Closed(t, FirstHeaders, SlabSize + 1)
        /\ Mem1 \in TakenIn(t, FirstHeaders) /\ t[Mem1].n = 1
    BY <1>3, <2>2, Begins
  <2> QED BY <2>1, <2>3
<1>5. PICK s : s = [base |-> 1, size |-> SlabSize]
  OBVIOUS
<1>6. s \in [base : Nat, size : Nat] /\ s.base = 1 /\ s.size = SlabSize /\ SlabSize \in Nat /\ SlabSize >= 2
  BY <1>5, FirstHeadersAre
<1>7. /\ CodeSlabs \in Seq([base : Nat, size : Nat]) /\ Len(CodeSlabs) = 1 /\ CodeSlabs[1] = s
  BY <1>2, <1>5, <1>6
<1>8. Contiguous(CodeSlabs)
  BY <1>6, <1>7 DEF Contiguous
<1>9. EndOf(Last(CodeSlabs)) = SlabSize + 1
  BY <1>6, <1>7 DEF EndOf, Last
<1>10. Walls(CodeSlabs) = {Mem1} \cup {SlabSize}
  <2>1. EndOf(CodeSlabs[1]) = SlabSize + 1
    BY <1>6, <1>7 DEF EndOf
  <2>2. 1..Len(CodeSlabs) = {1}
    BY <1>7
  <2>3. {EndOf(CodeSlabs[i]) - 1 : i \in 1..Len(CodeSlabs)} = {EndOf(CodeSlabs[1]) - 1}
    BY <2>2
  <2>4. EndOf(CodeSlabs[1]) - 1 = SlabSize
    BY <1>6, <2>1
  <2> QED BY <2>3, <2>4 DEF Walls
<1>11. \A w \in Walls(CodeSlabs) : w \in TakenIn(mem, FirstHeaders) /\ mem[w].n = 1
  <2>1. PICK x : x = (SlabSize + 1) - 1
    OBVIOUS
  <2>2. x \in TakenIn(mem, FirstHeaders) /\ mem[x].n = 1
    BY <1>4, <2>1 DEF Closed
  <2>3. x = SlabSize
    BY <1>6, <2>1
  <2> QED BY <1>4, <1>10, <2>2, <2>3
<1>12. Holding(mem, FirstHeaders, Walls(CodeSlabs), Blocks, filled)
  BY <1>2, <1>11 DEF Holding
<1>13. Held(mem, FreeMemoryList, FirstHeaders, CodeSlabs, Blocks, filled)
  BY <1>2, <1>4, <1>9, <1>12 DEF Held
<1>14. MemoryTypes
  BY <1>2, <1>8 DEF MemoryTypes, BlockMap
<1>15. ~Started
  BY <1>2 DEF Started
<1> QED BY <1>13, <1>14, <1>15 DEF MemoryInv, MemoryIs

LEMMA MemoryGoesOn ==
  ASSUME MemoryInv, [MemoryNext]_memoryVars
  PROVE  MemoryInv'
<1>1. CASE UNCHANGED memoryVars
  <2>1. PICK H : MemoryIs(H)
    BY DEF MemoryInv
  <2>2. MemoryTypes'
    BY <1>1 DEF MemoryInv, MemoryTypes, memoryVars
  <2>3. MemoryIs(H)'
    BY <1>1, <2>1 DEF MemoryIs, Started, memoryVars
  <2> QED BY <2>2, <2>3 DEF MemoryInv
<1>2. ASSUME NEW f \in Function, NEW ask \in Sizes, StartFunctionBody(f, ask) PROVE MemoryInv'
  <2>1. "code" \in Kind /\ ask \in Nat /\ StartBlock("code", f, ask)
    BY <1>2, CodeMemoryAssumption DEF Kind, StartFunctionBody
  <2> QED BY <2>1, Starts
<1>3. ASSUME NEW f \in Function, StartExceptionTable(f) PROVE MemoryInv'
  <2>1. "table" \in Kind /\ 0 \in Nat /\ StartBlock("table", f, 0)
    BY <1>3 DEF Kind, StartExceptionTable
  <2> QED BY <2>1, Starts
<1>4. ASSUME NEW f \in Function, NEW n, EndFunctionBody(f, n) \/ EndExceptionTable(f, n)
      PROVE  MemoryInv'
  <2>1. "code" \in Kind /\ "table" \in Kind
    BY DEF Kind
  <2>2. End("code", f, n) \/ End("table", f, n)
    BY <1>4 DEF EndFunctionBody, EndExceptionTable
  <2> QED BY <2>1, <2>2, Ends
<1>5. ASSUME NEW f \in Function, Deallocate(f) PROVE MemoryInv'
  BY <1>5, Deallocates
<1>6. ASSUME NEW s \in Spaces, AllocateSpace(s[1], s[2]) PROVE MemoryInv'
  <2>1. s \in Nat \X (Nat \ {0})
    BY CodeMemoryAssumption
  <2>2. s[1] \in Nat /\ s[2] \in Nat \ {0}
    BY <2>1
  <2> QED BY <1>6, <2>2, AllocatesSpace
<1>7. CASE MemoryNext
  <2>1. \/ \E f \in Function, ask \in Sizes : StartFunctionBody(f, ask)
        \/ \E f \in Function : StartExceptionTable(f)
        \/ \E f \in Function, n \in Used \cup {Room} : EndFunctionBody(f, n) \/ EndExceptionTable(f, n)
        \/ \E f \in Function : Deallocate(f)
        \/ \E s \in Spaces : AllocateSpace(s[1], s[2])
    BY <1>7 DEF MemoryNext
  <2>2. CASE \E f \in Function, n \in Used \cup {Room} : EndFunctionBody(f, n) \/ EndExceptionTable(f, n)
    <3>1. PICK f \in Function, n \in Used \cup {Room} : EndFunctionBody(f, n) \/ EndExceptionTable(f, n)
      BY <2>2
    <3> QED BY <1>4, <3>1
  <2> QED BY <1>2, <1>3, <1>5, <1>6, <2>1, <2>2
<1> QED BY <1>1, <1>7

\* The headers tile the memory, markers and flags agree with them, the free blocks
\* form a ring, and separators and blocks of functions are allocated.
THEOREM MemoryInvariance == MemorySpec => []MemoryInv
BY MemoryBegins, MemoryGoesOn, PTL DEF MemorySpec

-----------------------------------------------------------------------------
(***************************************************************************)
(* Code memory: the properties.                                            *)
(***************************************************************************)
\* The slabs tile what the headers tile, and each ends with a separator.
LEMMA SlabsLie ==
  ASSUME NEW m, NEW list, NEW H, NEW slabs, NEW blocks, NEW fill, Contiguous(slabs),
         Held(m, list, H, slabs, blocks, fill), NEW e, e = EndOf(Last(slabs)),
         NEW i \in 1..Len(slabs), NEW s, s = slabs[i]
  PROVE  /\ s.base \in H /\ s.size \in Nat /\ s.size >= 1 /\ EndOf(s) <= e /\ m[s.base].pa = 1
         /\ EndOf(s) \in Nat /\ EndOf(s) - 1 \in H /\ m[EndOf(s) - 1].ta = 1
<1>1. Tiled(m, H, e) /\ Marked(m, H) /\ \A w \in Walls(slabs) : w \in H /\ m[w].ta = 1 /\ m[w].n = 1
  BY DEF Held, Sane, Heap, Holding, TakenIn
<1>2. ASSUME NEW j \in 1..Len(slabs)
      PROVE  /\ slabs[j].base \in Nat /\ slabs[j].size \in Nat /\ slabs[j].size >= 2
             /\ EndOf(slabs[j]) = slabs[j].base + slabs[j].size /\ EndOf(slabs[j]) \in Nat
             /\ EndOf(slabs[j]) - 1 \in H /\ m[EndOf(slabs[j]) - 1].ta = 1
             /\ BlockAfter(m, EndOf(slabs[j]) - 1) = EndOf(slabs[j]) /\ EndOf(slabs[j]) <= e
  <2>1. /\ slabs[j].base \in Nat /\ slabs[j].size \in Nat /\ slabs[j].size >= 2
        /\ EndOf(slabs[j]) = slabs[j].base + slabs[j].size /\ EndOf(slabs[j]) \in Nat
    BY LastSlabIs
  <2>2. PICK w : w = EndOf(slabs[j]) - 1
    OBVIOUS
  <2>3. w \in Walls(slabs)
    BY <2>2 DEF Walls
  <2>4. w \in H /\ m[w].ta = 1 /\ m[w].n = 1
    BY <1>1, <2>3
  <2>5. BlockAfter(m, w) <= e
    BY <1>1, <2>4 DEF Tiled
  <2>6. BlockAfter(m, w) = w + 1
    BY <2>4 DEF BlockAfter
  <2>7. w + 1 = EndOf(slabs[j])
    BY <2>1, <2>2
  <2> QED BY <2>1, <2>2, <2>4, <2>5, <2>6, <2>7
<1>3. s.base \in H /\ m[s.base].pa = 1
  <2>1. CASE i = 1
    <3>1. s.base = 1
      BY <2>1 DEF Contiguous
    <3> QED BY <1>1, <3>1 DEF Tiled, Marked
  <2>2. CASE i # 1
    <3>1. PICK j \in 1..Len(slabs) : i = j + 1 /\ j \in 1..(Len(slabs) - 1)
      <4>1. Len(slabs) \in Nat
        BY LastSlabIs
      <4>2. i - 1 \in 1..Len(slabs) /\ i = (i - 1) + 1 /\ i - 1 \in 1..(Len(slabs) - 1)
        BY <2>2, <4>1
      <4> QED BY <4>2
    <3>2. s.base = EndOf(slabs[j])
      BY <3>1 DEF Contiguous
    <3>3. PICK w : w = EndOf(slabs[j]) - 1
      OBVIOUS
    <3>4. w \in H /\ m[w].ta = 1 /\ BlockAfter(m, w) = s.base
      BY <1>2, <3>2, <3>3
    <3>5. s.base # e
      <4>1. s.base \in Nat /\ s.size \in Nat /\ s.size >= 2 /\ s.base + s.size <= e
        BY <1>2
      <4>2. e \in Nat
        BY <1>1 DEF Tiled
      <4> QED BY <4>1, <4>2
    <3>6. s.base \in H
      BY <1>1, <3>4, <3>5 DEF Tiled
    <3> QED BY <1>1, <3>4, <3>6 DEF Marked
  <2> QED BY <2>1, <2>2
<1>4. s.size >= 1
  <2>1. s.size \in Nat /\ s.size >= 2
    BY <1>2
  <2> QED BY <2>1
<1> QED BY <1>2, <1>3, <1>4

LEMMA SomeSlab ==
  ASSUME NEW m, NEW list, NEW H, NEW slabs, NEW blocks, NEW fill, Contiguous(slabs),
         Held(m, list, H, slabs, blocks, fill), NEW h \in H
  PROVE  \E i \in 1..Len(slabs) : slabs[i].base <= h /\ h < EndOf(slabs[i])
<1>1. PICK e : e = EndOf(Last(slabs))
  OBVIOUS
<1>2. Tiled(m, H, e)
  BY <1>1 DEF Held, Sane, Heap
<1>3. PICK n \in Nat : n = Len(slabs) /\ n \in 1..n /\ e = EndOf(slabs[n])
  BY <1>1, LastSlabIs
<1>4. h \in Nat /\ h >= 1 /\ h < e
  <2>1. /\ h \in Nat /\ h >= 1 /\ m[h].n \in Nat /\ m[h].n >= 1 /\ e \in Nat
        /\ h + m[h].n <= e
    BY <1>2, BlockAfterIs
  <2> QED BY <2>1
<1>5. PICK S : S = {i \in 1..n : h < EndOf(slabs[i])}
  OBVIOUS
<1>6. n \in S /\ S \subseteq Nat
  BY <1>3, <1>4, <1>5
<1>7. PICK i \in S : \A j \in S : i <= j
  BY <1>6, LeastNat
<1>8. i \in 1..n /\ h < EndOf(slabs[i])
  BY <1>5
<1>9. slabs[i].base <= h
  <2>1. CASE i = 1
    BY <1>4, <2>1 DEF Contiguous
  <2>2. CASE i # 1
    <3>1. PICK j \in 1..n : i = j + 1 /\ j \in 1..(n - 1)
      <4>1. i - 1 \in 1..n /\ i = (i - 1) + 1 /\ i - 1 \in 1..(n - 1)
        BY <1>8, <2>2
      <4> QED BY <4>1
    <3>2. slabs[i].base = EndOf(slabs[j]) /\ EndOf(slabs[j]) \in Nat
      BY <1>3, <3>1, LastSlabIs DEF Contiguous
    <3>3. j \notin S
      BY <1>7, <3>1
    <3>4. ~(h < EndOf(slabs[j]))
      BY <1>5, <3>1, <3>3
    <3> QED BY <1>4, <3>2, <3>4
  <2> QED BY <2>1, <2>2
<1> QED BY <1>3, <1>8, <1>9

\* What CheckInvariants sees of one slab, and what coalescing leaves there.
SlabIsSound(s, free) ==
  LET nth == Headers(s) IN
  /\ mem[s.base].pa = 1
  /\ \A j \in DOMAIN nth :
       /\ mem[nth[j]].ta = 0 =>
            /\ nth[j] \in free
            /\ BlockAfter(mem, nth[j]) - 1 \in s.base..(EndOf(s) - 1)
            /\ mem[BlockAfter(mem, nth[j]) - 1].n = mem[nth[j]].n
       /\ j > 1 => mem[nth[j]].pa = mem[nth[j - 1]].ta
  /\ \A j \in DOMAIN nth \ {1} : mem[nth[j]].ta = 1 \/ mem[nth[j - 1]].ta = 1

LEMMA SlabSound ==
  ASSUME NEW H, NEW e, Heap(mem, H, e), NEW s, s.base \in H, s.size \in Nat, s.size >= 1,
         EndOf(s) <= e, mem[s.base].pa = 1, EndOf(s) \in Nat, EndOf(s) - 1 \in H,
         mem[EndOf(s) - 1].ta = 1, NEW free, free = FreeIn(mem, H)
  PROVE  SlabIsSound(s, free)
<1>1. PICK l : l = Headers(s)
  OBVIOUS
<1>2. PICK m, a, z : m = mem /\ a = s.base /\ z = EndOf(s)
  OBVIOUS
<1>3. Tiled(m, H, e) /\ Marked(m, H) /\ Heap(m, H, e)
  BY <1>2 DEF Heap
<1>4. OnSlab(l, m, H, a, z) /\ {l[j] : j \in 1..Len(l)} = {h \in H : a <= h /\ h < z}
  <2>1. Tiled(mem, H, e)
    BY <1>2, <1>3
  <2>2. /\ OnSlab(l, mem, H, s.base, EndOf(s))
        /\ {l[j] : j \in 1..Len(l)} = {h \in H : s.base <= h /\ h < EndOf(s)}
    BY <1>1, <2>1, HeadersAre
  <2> QED BY <1>2, <2>2
<1>5. PICK n \in Nat : n = Len(l) /\ l \in Seq(H)
  BY <1>4 DEF OnSlab
<1>6. DOMAIN l = 1..n
  BY <1>5
<1>7. \A j \in 1..n : l[j] \in H /\ a <= l[j] /\ l[j] < z
  <2>1. ASSUME NEW j \in 1..n PROVE l[j] \in H /\ a <= l[j] /\ l[j] < z
    <3>1. l[j] \in {l[i] : i \in 1..Len(l)}
      BY <1>5
    <3> QED BY <1>4, <3>1
  <2> QED BY <2>1
<1>8. ASSUME NEW j \in 1..n, m[l[j]].ta = 0
      PROVE  /\ l[j] \in FreeIn(m, H) /\ BlockAfter(m, l[j]) - 1 \in a..(z - 1)
             /\ m[BlockAfter(m, l[j]) - 1].n = m[l[j]].n
  <2>1. PICK h \in H : h = l[j] /\ a <= h /\ h < z /\ m[h].ta = 0
    BY <1>7, <1>8
  <2>2. /\ h \in Nat /\ BlockAfter(m, h) \in Nat /\ BlockAfter(m, h) = h + m[h].n
        /\ m[h].n \in Nat /\ m[h].n >= 1
    BY <1>3, BlockAfterIs
  <2>3. PICK w \in H : w = z - 1 /\ m[w].ta = 1
    BY <1>2
  <2>4. z \in Nat /\ a \in Nat /\ w \in Nat
    <3>1. a \in H
      BY <1>2
    <3> QED BY <1>2, <1>3, <2>3, <3>1, BlockAfterIs
  <2>5. h < w
    <3>1. h # w
      BY <2>1, <2>3
    <3> QED BY <2>1, <2>2, <2>3, <2>4, <3>1
  <2>6. BlockAfter(m, h) <= w
    BY <1>3, <2>3, <2>5 DEF Tiled
  <2>7. BlockAfter(m, h) - 1 \in a..(z - 1)
    BY <2>1, <2>2, <2>3, <2>4, <2>6
  <2>8. h \in FreeIn(m, H) /\ m[BlockAfter(m, h) - 1].n = m[h].n
    BY <1>3, <2>1 DEF FreeIn, Marked
  <2> QED BY <2>1, <2>7, <2>8
<1>9. ASSUME NEW j \in 1..n, j # 1
      PROVE  /\ m[l[j]].pa = m[l[j - 1]].ta
             /\ m[l[j]].ta = 1 \/ m[l[j - 1]].ta = 1
  <2>1. PICK i \in 1..n : i = j - 1 /\ i \in 1..(Len(l) - 1) /\ i + 1 = j
    <3>1. j - 1 \in 1..n /\ j - 1 \in 1..(Len(l) - 1) /\ (j - 1) + 1 = j
      BY <1>5, <1>9
    <3> QED BY <3>1
  <2>2. l[j] = BlockAfter(m, l[i])
    BY <1>4, <2>1 DEF OnSlab
  <2>3. PICK h \in H, g \in H : h = l[i] /\ g = l[j] /\ g = BlockAfter(m, h)
    BY <1>7, <2>2
  <2>4. m[g].pa = m[h].ta
    BY <1>3, <2>3 DEF Marked
  <2>5. m[h].ta = 0 => m[g].ta = 1
    BY <1>3, <2>3 DEF Marked
  <2>6. m[h].ta = 0 \/ m[h].ta = 1
    <3>1. m[h] \in Cell
      BY <1>3, BlockAfterIs
    <3> QED BY <3>1 DEF Cell
  <2> QED BY <2>1, <2>3, <2>4, <2>5, <2>6
<1>10. /\ m[a].pa = 1
       /\ \A j \in DOMAIN l :
            /\ m[l[j]].ta = 0 =>
                 /\ l[j] \in FreeIn(m, H)
                 /\ BlockAfter(m, l[j]) - 1 \in a..(z - 1)
                 /\ m[BlockAfter(m, l[j]) - 1].n = m[l[j]].n
            /\ j > 1 => m[l[j]].pa = m[l[j - 1]].ta
       /\ \A j \in DOMAIN l \ {1} : m[l[j]].ta = 1 \/ m[l[j - 1]].ta = 1
  <2>1. m[a].pa = 1
    BY <1>2
  <2>2. \A j \in 1..n : j > 1 => m[l[j]].pa = m[l[j - 1]].ta
    <3>1. \A j \in 1..n : j > 1 => j # 1
      OBVIOUS
    <3> QED BY <1>9, <3>1
  <2> QED BY <1>6, <1>8, <1>9, <2>1, <2>2
<1> QED BY <1>1, <1>2, <1>10 DEF SlabIsSound

LEMMA SoundIs ==
  ASSUME MemoryInv
  PROVE  Sound
<1>1. PICK H : MemoryIs(H)
  BY DEF MemoryInv
<1>2. PICK e, slabs, m, list, bs, fs :
        /\ e = EndOf(Last(slabs)) /\ slabs = CodeSlabs /\ m = mem /\ list = FreeMemoryList
        /\ bs = Blocks /\ fs = filled
  OBVIOUS
<1>3. Contiguous(slabs) /\ Held(m, list, H, slabs, bs, fs)
  BY <1>1, <1>2 DEF MemoryIs, MemoryInv, MemoryTypes
<1>4. /\ Sane(m, list, H, e) /\ Heap(m, H, e) /\ Tiled(m, H, e) /\ Linked(m, FreeIn(m, H))
      /\ list \in FreeIn(m, H) /\ H \subseteq Addr /\ Holding(m, H, Walls(slabs), bs, fs)
  BY <1>2, <1>3 DEF Held, Sane, Heap, Tiled
<1>5. PICK F : F = FreeIn(m, H)
  OBVIOUS
<1>6. FreeSet = F
  <2>1. Spread(F)
    BY <1>4, <1>5, FreeSpread
  <2>2. Range(FreeList(m, list)) = F
    BY <1>4, <1>5, <2>1, FreeListIs
  <2> QED BY <1>2, <2>2 DEF FreeSet
<1>7. DOMAIN CodeSlabs = 1..Len(slabs)
  BY <1>2, <1>3 DEF Contiguous
<1>8. ASSUME NEW i \in 1..Len(slabs)
      PROVE  /\ SlabIsSound(CodeSlabs[i], F)
             /\ Range(Headers(CodeSlabs[i]))
                  = {h \in H : CodeSlabs[i].base <= h /\ h < EndOf(CodeSlabs[i])}
             /\ \A h \in H : CodeSlabs[i].base <= h /\ h < EndOf(CodeSlabs[i])
                               => h \in CodeSlabs[i].base..(EndOf(CodeSlabs[i]) - 1)
  <2>1. PICK s : s = slabs[i]
    OBVIOUS
  <2>2. /\ s.base \in H /\ s.size \in Nat /\ s.size >= 1 /\ EndOf(s) <= e /\ m[s.base].pa = 1
        /\ EndOf(s) \in Nat /\ EndOf(s) - 1 \in H /\ m[EndOf(s) - 1].ta = 1
    BY <1>2, <1>3, <2>1, SlabsLie
  <2>3. SlabIsSound(s, F)
    <3>1. /\ Heap(mem, H, e) /\ s.base \in H /\ s.size \in Nat /\ s.size >= 1 /\ EndOf(s) <= e
          /\ mem[s.base].pa = 1 /\ EndOf(s) \in Nat /\ EndOf(s) - 1 \in H
          /\ mem[EndOf(s) - 1].ta = 1 /\ F = FreeIn(mem, H)
      BY <1>2, <1>4, <1>5, <2>2
    <3> QED BY <3>1, SlabSound
  <2>4. PICK l : l = Headers(s)
    OBVIOUS
  <2>5. /\ OnSlab(l, mem, H, s.base, EndOf(s))
        /\ {l[j] : j \in 1..Len(l)} = {h \in H : s.base <= h /\ h < EndOf(s)}
    <3>1. Tiled(mem, H, e)
      BY <1>2, <1>4
    <3> QED BY <2>2, <2>4, <3>1, HeadersAre
  <2>6. Range(l) = {l[j] : j \in 1..Len(l)}
    <3>1. l \in Seq(H)
      BY <2>5 DEF OnSlab
    <3>2. DOMAIN l = 1..Len(l)
      BY <3>1
    <3> QED BY <3>2 DEF Range
  <2>7. \A h \in H : s.base <= h /\ h < EndOf(s) => h \in s.base..(EndOf(s) - 1)
    <3>1. PICK a \in Nat, z \in Nat : a = s.base /\ z = EndOf(s)
      BY <1>4, <2>2, AddrIs
    <3>2. ASSUME NEW h \in H, a <= h, h < z PROVE h \in a..(z - 1)
      <4>1. h \in Nat
        BY <1>4, AddrIs
      <4> QED BY <3>2, <4>1
    <3> QED BY <3>1, <3>2
  <2> QED BY <1>2, <2>1, <2>3, <2>4, <2>5, <2>6, <2>7
<1>9. \A h \in H : \E i \in 1..Len(slabs) : CodeSlabs[i].base <= h /\ h < EndOf(CodeSlabs[i])
  BY <1>2, <1>3, SomeSlab
<1>10. \A b \in F : /\ \E i \in DOMAIN CodeSlabs :
                         b \in CodeSlabs[i].base..(EndOf(CodeSlabs[i]) - 1)
                    /\ PrevOf(mem, NextOf(mem, b)) = b
  <2>1. ASSUME NEW b \in F PROVE PrevOf(mem, NextOf(mem, b)) = b
    BY <1>2, <1>4, <1>5, LinkedLinks
  <2>2. F \subseteq H
    BY <1>5 DEF FreeIn
  <2> QED BY <1>7, <1>8, <1>9, <2>1, <2>2
<1>11. CheckInvariants
  BY <1>6, <1>7, <1>8, <1>10 DEF CheckInvariants, SlabIsSound
<1>12. Coalesced
  BY <1>7, <1>8 DEF Coalesced, SlabIsSound
<1>13. TombstoneFree
  <2>1. Mem1 \in Walls(slabs) /\ Mem3 \in Walls(slabs)
    BY <1>3, LastSlabIs
  <2> QED BY <1>2, <1>4, <2>1 DEF TombstoneFree, Holding, TakenIn, Sane, Tomb
<1>14. FreeSet \subseteq {b \in AllHeaders : mem[b].ta = 0}
  <2>1. ASSUME NEW b \in F PROVE b \in AllHeaders /\ mem[b].ta = 0
    <3>1. b \in H /\ mem[b].ta = 0
      BY <1>2, <1>5 DEF FreeIn
    <3>2. PICK i \in 1..Len(slabs) : CodeSlabs[i].base <= b /\ b < EndOf(CodeSlabs[i])
      BY <1>9, <3>1
    <3>3. b \in Range(Headers(CodeSlabs[i]))
      BY <1>8, <3>1, <3>2
    <3> QED BY <1>7, <3>1, <3>3 DEF AllHeaders
  <2> QED BY <1>6, <2>1
<1> QED BY <1>11, <1>12, <1>13, <1>14 DEF Sound

LEMMA CodeKeptIs ==
  ASSUME MemoryInv
  PROVE  CodeKept
<1>1. PICK H : MemoryIs(H)
  BY DEF MemoryInv
<1>2. Holding(mem, H, Walls(CodeSlabs), Blocks, filled)
  BY <1>1 DEF MemoryIs, Held
<1>3. DOMAIN Blocks = Kind \X Function
  BY DEF MemoryInv, MemoryTypes, BlockMap
<1> QED BY <1>2, <1>3 DEF Holding, CodeKept

\* The manager is sound, whatever is allocated, grown and freed in whatever order,
\* for every slab size and every size it is asked for.
THEOREM CodeMemorySound == MemorySpec => []Sound
BY MemoryInvariance, SoundIs, PTL

\* The code and the table of a function stay as they were emitted until it is freed.
THEOREM CodeIsKept == MemorySpec => []CodeKept
BY MemoryInvariance, CodeKeptIs, PTL

\* startFunctionBody returns a block with at least as much space as it is asked for,
\* also where another slab is made for it.
THEOREM SpaceIsEnough == MemorySpec => EnoughSpace
<1> DEFINE Enough == \A f \in Function, ask \in Sizes : StartFunctionBody(f, ask) => Room' >= ask
<1>1. MemoryInv /\ [MemoryNext]_memoryVars => [Enough]_memoryVars
  <2>1. ASSUME MemoryInv, NEW f \in Function, NEW ask \in Sizes, StartFunctionBody(f, ask)
        PROVE  Room' >= ask
    <3>1. "code" \in Kind /\ ask \in Nat /\ StartBlock("code", f, ask)
      BY <2>1, CodeMemoryAssumption DEF Kind, StartFunctionBody
    <3> QED BY <2>1, <3>1, Starts
  <2> QED BY <2>1
<1>2. MemorySpec => [][Enough]_memoryVars
  <2> HIDE DEF Enough
  <2> QED BY MemoryInvariance, <1>1, PTL DEF MemorySpec
<1> QED BY <1>2 DEF EnoughSpace
=============================================================================
