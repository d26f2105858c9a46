------------------------------- MODULE LazyJIT -------------------------------
(***************************************************************************)
(* Threads that run code of the JIT while others compile                   *)
(* (lib/ExecutionEngine/JIT/JIT.cpp, JITEmitter.cpp, and the 32-bit        *)
(* callback of lib/Target/X86/X86JITInfo.cpp).  A function is compiled     *)
(* under the JIT lock, in steps the others may interleave with.  Compiling *)
(* lazily, a call of a function without code goes to the resolver, which   *)
(* compiles it and rewrites the instruction in place, without the lock; a  *)
(* pointer to a function is the address of a stub, which is rewritten in   *)
(* the same way.  Compiling eagerly, the stub is filled in by the thread   *)
(* that compiles, before it releases the lock.                             *)
(*                                                                         *)
(* Code is <<f, n>>, the n-th attempt to emit f.  An instruction is        *)
(* [op, to], found at <<"site", f, n, g>>, the call of g in the code       *)
(* <<f, n>>, or at a stub <<"stub", g, k>>, which has a marker behind it.  *)
(* The return stack, exception tables, the GOT, dlsym stubs, external      *)
(* functions and code that is freed by the program are left out.           *)
(***************************************************************************)
EXTENDS Integers, FiniteSets

CONSTANTS
  Threads, Functions, NoThread,
  Calls,        \* <<f, g, kind>>: f calls g, by name ("call") or through its
                \* address ("pointer")
  MaxAttempts   \* bound: a function fits its buffer after that many attempts

ASSUME ProgramAssumption ==
  /\ Calls \subseteq Functions \X Functions \X {"call", "pointer"}
  /\ MaxAttempts \in Nat \ {0}
  /\ NoThread \notin Threads

VARIABLES
  lazy,        \* lazy compilation, or not: DisableLazyCompilation does not change
  thread,      \* what each thread does: [at, ...]
  lock,        \* who holds TheJIT->lock
  job,         \* what the holder compiles: [fn, n, left, started]
  pending,     \* PendingFunctions
  mapping,     \* GlobalAddressMap: code, a stub or None
  code,        \* attempts: "emitting", "freed" or "ready"
  instr,       \* the instructions that are rewritten
  stubOf,      \* FunctionToStubMap: the stub of a function, or None
  known        \* the keys of StubToFunctionMap

vars == <<lazy, thread, lock, job, pending, mapping, code, instr, stubOf, known>>
jitVars == <<lazy, job, pending, mapping, code, stubOf, known>>

None     == <<"none">>
Resolver == <<"resolver">>
Idle     == [at |-> "idle"]
NoJob    == [fn |-> None]

Callee(loc) == IF loc[1] = "stub" THEN loc[2] ELSE loc[4]
CallsOf(f)  == {c \in Calls : c[1] = f}
Stubs(g)    == {loc \in DOMAIN instr : loc[1] = "stub" /\ loc[2] = g}
NewStub(g)  == <<"stub", g, Cardinality(Stubs(g)) + 1>>

\* The function h that is v at x, where it may not be defined.
With(h, x, v) == [y \in DOMAIN h \cup {x} |-> IF y = x THEN v ELSE h[y]]

Init ==
  /\ lazy \in BOOLEAN
  /\ thread = [t \in Threads |-> Idle]
  /\ lock = NoThread /\ job = NoJob /\ pending = {}
  /\ mapping = [f \in Functions |-> None]
  /\ code = <<>> /\ instr = <<>>
  /\ stubOf = [f \in Functions |-> None] /\ known = {}

Goes(t, state) == thread' = [thread EXCEPT ![t] = state]
Runs(t, c)     == Goes(t, [at |-> "run", code |-> c])
Executes(t, l) == Goes(t, [at |-> "exec", loc |-> l])

\* A thread that asks for fn; loc is the instruction to rewrite, or None if
\* the program asks.
Asks(t, where, loc, fn) == Goes(t, [at |-> where, loc |-> loc, fn |-> fn])
\* It has the address.
Has(t, c) ==
  IF thread[t].loc = None THEN Runs(t, c)
  ELSE Goes(t, [at |-> "erase", loc |-> thread[t].loc, to |-> c])

(***************************************************************************)
(* Running code.                                                           *)
(***************************************************************************)
\* The program asks for a function, or is back from the one it ran.
Ask(t) ==
  /\ thread[t] = Idle
  /\ \E f \in Functions : Asks(t, "get", None, f)
  /\ UNCHANGED <<jitVars, lock, instr>>

Return(t) ==
  /\ thread[t].at = "run" /\ Goes(t, Idle)
  /\ UNCHANGED <<jitVars, lock, instr>>

Call(t) ==
  /\ thread[t].at = "run"
  /\ \E loc \in DOMAIN instr :
       /\ loc[1] = "site" /\ <<loc[2], loc[3]>> = thread[t].code
       /\ Executes(t, loc)
  /\ UNCHANGED <<jitVars, lock, instr>>

\* The resolver is X86CompilationCallback2.
Execute(t) ==
  /\ thread[t].at = "exec"
  /\ LET loc == thread[t].loc  i == instr[loc] IN
     IF i.to = Resolver THEN Asks(t, "lookup", loc, None)
     ELSE IF i.to \in DOMAIN instr THEN Executes(t, i.to)
     ELSE Runs(t, i.to)
  /\ UNCHANGED <<jitVars, lock, instr>>

(***************************************************************************)
(* X86CompilationCallback2 and JITCompilerFn.                              *)
(***************************************************************************)
Free == lock = NoThread

\* Only lock for getting the Function.
Lookup(t) ==
  /\ thread[t].at = "lookup" /\ Free
  /\ thread[t].loc \in known
  /\ Asks(t, "check", thread[t].loc, Callee(thread[t].loc))
  /\ UNCHANGED <<jitVars, lock, instr>>

\* Fault: the map is read without the lock.
LooksAnytime(t) == TRUE

\* getPointerToGlobalIfAvailable takes the lock itself.
Looks(t) == Free

\* In JITCompilerFn, then at the entry of getPointerToFunction.
Check(t) ==
  /\ thread[t].at \in {"check", "get"} /\ Looks(t)
  /\ LET f == thread[t].fn IN
     IF mapping[f] # None THEN Has(t, mapping[f])
     ELSE Asks(t, IF thread[t].at = "check" THEN "get" ELSE "acquire", thread[t].loc, f)
  /\ UNCHANGED <<jitVars, lock, instr>>

Job(f) ==
  [fn |-> f, left |-> CallsOf(f), started |-> FALSE,
   n |-> Cardinality({c \in DOMAIN code : c[1] = f}) + 1]

\* Fault: nobody asks whether another thread was faster.
AcquireBlindly(t) ==
  /\ thread[t].at = "acquire" /\ Free
  /\ lock' = t /\ job' = Job(thread[t].fn)
  /\ Asks(t, "compile", thread[t].loc, thread[t].fn)
  /\ UNCHANGED <<lazy, pending, mapping, code, stubOf, known, instr>>

\* Now that this thread owns the lock, check if another has already.
Acquire(t) ==
  /\ thread[t].at = "acquire" /\ Free
  /\ LET f == thread[t].fn IN
     IF mapping[f] # None
       THEN Has(t, mapping[f]) /\ UNCHANGED <<lock, job>>
       ELSE lock' = t /\ job' = Job(f) /\ Asks(t, "compile", thread[t].loc, f)
  /\ UNCHANGED <<lazy, pending, mapping, code, stubOf, known, instr>>

\* Reacquire the lock to erase the stub in the map: other threads may still be
\* about to look the function up.
Erase(t) ==
  /\ thread[t].at = "erase" /\ Free
  /\ stubOf' = [stubOf EXCEPT ![Callee(thread[t].loc)] = None]
  /\ Goes(t, [thread[t] EXCEPT !.at = "patch"])
  /\ UNCHANGED <<lazy, lock, job, pending, mapping, code, known, instr>>

\* Fault: the target stays the resolver.
PatchOp(t) ==
  /\ thread[t].at = "patch"
  /\ Executes(t, thread[t].loc)
  /\ instr' = [instr EXCEPT ![thread[t].loc].op = "jmp"]
  /\ UNCHANGED <<jitVars, lock>>

\* Rewrite the call target; a stub becomes an unconditional branch in a second
\* write.
Patch(t) ==
  /\ thread[t].at = "patch"
  /\ LET loc == thread[t].loc IN
     /\ instr' = [instr EXCEPT ![loc].to = thread[t].to]
     /\ IF loc[1] = "stub" THEN Goes(t, [at |-> "branch", loc |-> loc])
        ELSE Executes(t, loc)
  /\ UNCHANGED <<jitVars, lock>>

Branch(t) ==
  /\ thread[t].at = "branch"
  /\ instr' = [instr EXCEPT ![thread[t].loc].op = "jmp"]
  /\ Executes(t, thread[t].loc)
  /\ UNCHANGED <<jitVars, lock>>

(***************************************************************************)
(* Compiling: runJITOnFunctionUnlocked and the emitter, by the holder.     *)
(***************************************************************************)
\* startFunction: the address is in the map before there is any code.
Start(t) ==
  /\ lock = t /\ job # NoJob /\ ~job.started
  /\ job' = [job EXCEPT !.started = TRUE]
  /\ mapping' = [mapping EXCEPT ![job.fn] = <<job.fn, job.n>>]
  /\ code' = With(code, <<job.fn, job.n>>, "emitting")
  /\ UNCHANGED <<lazy, thread, lock, pending, instr, stubOf, known>>

\* The site of the job that calls g leads to to, or to a new stub.
Site(g) == <<"site", job.fn, job.n, g>>
Refers(g, to) == instr' = With(instr, Site(g), [op |-> "call", to |-> to])
Stubbed(g, i) == instr' = With(With(instr, NewStub(g), i),
                               Site(g), [op |-> "call", to |-> NewStub(g)])

\* JITEmitter::getPointerToGlobal, lazily: a call goes to the code or to the
\* resolver, a pointer to the stub.
RelocateLazily(c) ==
  LET g == c[2] IN
  /\ UNCHANGED <<mapping, pending>>
  /\ \/ /\ c[3] = "call" /\ mapping[g] # None
        /\ Refers(g, mapping[g]) /\ UNCHANGED <<stubOf, known>>
     \/ /\ c[3] = "call" /\ mapping[g] = None
        /\ Refers(g, Resolver) /\ known' = known \cup {Site(g)} /\ UNCHANGED stubOf
     \/ /\ c[3] = "pointer" /\ stubOf[g] # None
        /\ Refers(g, stubOf[g]) /\ UNCHANGED <<stubOf, known>>
     \/ /\ c[3] = "pointer" /\ stubOf[g] = None
        /\ Stubbed(g, [op |-> "call", to |-> Resolver])
        /\ known' = known \cup {NewStub(g)}
        /\ stubOf' = [stubOf EXCEPT ![g] = NewStub(g)]

\* Eagerly: to the code, else to an empty stub; then the function is pending
\* and the address of the stub is in the map.
RelocateEagerly(c) ==
  LET g == c[2] IN
  IF mapping[g] # None
    THEN Refers(g, mapping[g]) /\ UNCHANGED <<mapping, pending, stubOf, known>>
    ELSE /\ Stubbed(g, [op |-> "jmp", to |-> None])
         /\ known' = known \cup {NewStub(g)}
         /\ stubOf' = [stubOf EXCEPT ![g] = NewStub(g)]
         /\ mapping' = [mapping EXCEPT ![g] = NewStub(g)]
         /\ pending' = pending \cup {g}

Relocate(t) ==
  /\ lock = t /\ job # NoJob /\ job.started
  /\ \E c \in job.left :
       /\ job' = [job EXCEPT !.left = @ \ {c}]
       /\ IF lazy THEN RelocateLazily(c) ELSE RelocateEagerly(c)
  /\ UNCHANGED <<lazy, thread, lock, code>>

\* The buffer was too small: finishFunction frees it and emits again.
Retry(t) ==
  /\ lock = t /\ job # NoJob /\ job.started /\ job.left \in {{}, CallsOf(job.fn)}
  /\ job.n < MaxAttempts
  /\ code' = [code EXCEPT ![<<job.fn, job.n>>] = "freed"]
  /\ job' = Job(job.fn)
  /\ UNCHANGED <<lazy, thread, lock, pending, mapping, instr, stubOf, known>>

\* Fault: pending functions are left for later.
FinishAlone(t) ==
  /\ lock = t /\ job # NoJob /\ job.started /\ job.left = {}
  /\ code' = [code EXCEPT ![<<job.fn, job.n>>] = "ready"]
  /\ job' = NoJob
  /\ UNCHANGED <<lazy, thread, lock, pending, mapping, instr, stubOf, known>>

\* A pending function fills its stub in when it is ready; then the next one.
Finish(t) ==
  /\ lock = t /\ job # NoJob /\ job.started /\ job.left = {}
  /\ code' = [code EXCEPT ![<<job.fn, job.n>>] = "ready"]
  /\ IF ~lazy /\ stubOf[job.fn] # None
       THEN instr' = [instr EXCEPT ![stubOf[job.fn]] =
                        [op |-> "jmp", to |-> mapping[job.fn]]]
       ELSE UNCHANGED instr
  /\ \/ pending = {} /\ job' = NoJob /\ UNCHANGED pending
     \/ \E f \in pending : job' = Job(f) /\ pending' = pending \ {f}
  /\ UNCHANGED <<lazy, thread, lock, mapping, stubOf, known>>

\* getPointerToFunction returns.
Release(t) ==
  /\ lock = t /\ job = NoJob
  /\ lock' = NoThread
  /\ Has(t, mapping[thread[t].fn])
  /\ UNCHANGED <<jitVars, instr>>

Resolve(t) ==
  \/ Execute(t) \/ Lookup(t) \/ Check(t) \/ Acquire(t)
  \/ Start(t) \/ Relocate(t) \/ Finish(t) \/ Release(t)
  \/ Erase(t) \/ Patch(t) \/ Branch(t)

Next == \E t \in Threads : Resolve(t) \/ Retry(t) \/ Ask(t) \/ Call(t) \/ Return(t)

\* A thread that is in the JIT goes on; threads are scheduled fairly.
Spec == Init /\ [][Next]_vars /\ \A t \in Threads : WF_vars(Resolve(t))

(***************************************************************************)
(* Properties.                                                             *)
(***************************************************************************)
\* No thread runs code that is not finished, was freed by a retry or belongs
\* to nobody, though the address of a function is known before its code is.
RunsFinishedCode ==
  \A t \in Threads :
     thread[t].at = "run" =>
       thread[t].code \in DOMAIN code /\ code[thread[t].code] = "ready"

\* Two threads that need the same function compile it once.
CompiledOnce ==
  \A f \in Functions :
     Cardinality({c \in DOMAIN code : c[1] = f /\ code[c] = "ready"}) <= 1

\* With nobody compiling, no instruction of finished code leads nowhere, not
\* over a stub either, and JITCompilerFn knows whatever leads to the resolver.
NothingDangles ==
  Free => \A loc \in DOMAIN instr :
            (loc[1] = "site" => code[<<loc[2], loc[3]>>] = "ready")
              => /\ instr[loc].to # None
                 /\ instr[loc].to = Resolver => loc \in known

\* A call that went to the resolver gets to run, whoever else is compiling.
CallsGetThere ==
  \A t \in Threads : thread[t].at = "lookup" ~> thread[t].at = "run"
=============================================================================
