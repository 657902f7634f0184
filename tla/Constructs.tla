----------------------------- MODULE Constructs -----------------------------
(***************************************************************************)
(* The language constructs of Plasma as the source translator expands them *)
(* into calls of the thread interface (src/parser): par and pfor blocks,   *)
(* the spawn operator with its Result, and the methods of pMutex classes.  *)
(*                                                                         *)
(* The first part gives the code that is generated, a sequence of calls;   *)
(* the second executes one such sequence per thread, in preemptive mode,   *)
(* on the scheduler that Sched describes.                                  *)
(***************************************************************************)
EXTENDS Integers, FiniteSets, SequencesExt

CONSTANTS NULL,
          Threads,
          Main,       \* The thread of pMain.
          Programs    \* Programs[...]: [thread -> code] that are explored.

ASSUME ConstructsAssumption == NULL \notin Threads /\ Main \in Threads

-----------------------------------------------------------------------------
(* Generated code.                                                         *)

(* A call op about thread t, in d methods.                                 *)
Instr(op, t) == [op |-> op, t |-> t, d |-> 0]
Each(op, ts) == [i \in DOMAIN ts |-> Instr(op, ts[i])]

(* TranslatePar: a thread per statement, and a pWait for each, in reverse  *)
(* because convertToThread puts the names in front of the list.            *)
Par(kids) == Each("spawn", kids) \o Each("wait", Reverse(kids))

(* TranslatePfor: a thread per iteration, and a loop of pWait.             *)
Pfor(kids) == Each("spawn", kids) \o Each("wait", kids)

(* The spawn operator, Result::value() and Result::kill().                 *)
SpawnOp(k) == <<Instr("spawn", k)>>
Value(k) == <<Instr("wait", k)>>
ResultKill(k) == <<Instr("kill", k)>>

(* Mutex::makeWrapperBody: the original method between pLock() and         *)
(* pUnlock(), and a handler that unlocks and throws on.  mprintf() and its *)
(* kind are written in the same way.                                       *)
MutexCall(body) ==
  LET inside == Append(body, Instr("unlock", NULL))
  IN  <<Instr("lock", NULL)>> \o [i \in DOMAIN inside |-> [inside[i] EXCEPT !.d = @ + 1]]

(* Statements of a method, which may throw.                                *)
Work == <<Instr("work", NULL)>>

(* Code in which no method calls another, or blocks: a method is work up   *)
(* to its unlock.                                                          *)
Method(c, i, j) == /\ \A m \in i..(j - 1) : c[m].op = "work" /\ c[m].d = 1
                   /\ c[j].op = "unlock" /\ c[j].d = 1
Flat(c) ==
  /\ c = <<>> \/ c[1].d = 0
  /\ \A i \in DOMAIN c :
       \/ /\ c[i].d = 0
          /\ \/ c[i].op \in {"spawn", "wait", "kill"} /\ c[i].t \in Threads
             \/ c[i].op = "work"
          /\ i < Len(c) => c[i + 1].d = 0
       \/ c[i].d = 0 /\ c[i].op = "lock" /\ i < Len(c) /\ c[i + 1].d = 1
       \/ /\ c[i].d = 1 /\ (\E j \in i..Len(c) : Method(c, i, j))
          /\ c[i].op = "unlock" /\ i < Len(c) => c[i + 1].d = 0

(* A Result is there to be killed once its thread has been spawned.        *)
KillsSpawned(c) ==
  \A i \in DOMAIN c : c[i].op = "kill" =>
    \E j \in 1..(i - 1) : c[j].op = "spawn" /\ c[j].t = c[i].t

-----------------------------------------------------------------------------
VARIABLES
  code,     \* code[t]: what thread t executes.
  st,       \* st[t]: as in Sched.
  cur,      \* The thread that runs, or NULL.
  locked,   \* Cluster::_kernel.
  pc,       \* pc[t]: the next instruction of t.
  throws,   \* throws[t]: an exception is on its way out of a method of t.
  waiters,  \* waiters[t]: Thread::_waiters.
  result    \* result[t]: the result in t's argument block, or NULL before.

vars == <<code, st, cur, locked, pc, throws, waiters, result>>

Init ==
  /\ code \in Programs
  /\ st = [t \in Threads |-> IF t = Main THEN "ready" ELSE "none"]
  /\ cur = NULL /\ locked = FALSE
  /\ pc = [t \in Threads |-> 1]
  /\ throws = [t \in Threads |-> FALSE]
  /\ waiters = [t \in Threads |-> <<>>]
  /\ result = [t \in Threads |-> NULL]

(* How many methods thread t is in.                                        *)
Depth(t) == IF pc[t] \in DOMAIN code[t] THEN code[t][pc[t]].d ELSE 0

(* The handler of the innermost method around instruction i.               *)
HandlerOf(t, i) ==
  Min({j \in i..Len(code[t]) : code[t][j].op = "unlock" /\ code[t][j].d = code[t][i].d})

-----------------------------------------------------------------------------
Does(t, op) ==
  /\ cur = t /\ pc[t] <= Len(code[t]) /\ code[t][pc[t]].op = op
  /\ UNCHANGED code
Arg(t) == code[t][pc[t]].t
Step(t) == pc' = [pc EXCEPT ![t] = @ + 1]

(* pSpawn: the thread is created, and the cluster left unlocked.           *)
Spawn(t) ==
  /\ Does(t, "spawn") /\ st[Arg(t)] = "none"
  /\ st' = [st EXCEPT ![Arg(t)] = "ready"] /\ locked' = FALSE
  /\ Step(t) /\ UNCHANGED <<cur, throws, waiters, result>>

(* Mutant of Wait: a thread that is not ready is taken for done.           *)
WaitReady(t) ==
  /\ Does(t, "wait")
  /\ IF st[Arg(t)] # "ready" THEN UNCHANGED <<st, cur, waiters>>
     ELSE /\ st' = [st EXCEPT ![t] = "sleep"] /\ cur' = NULL
          /\ waiters' = [waiters EXCEPT ![Arg(t)] = Append(@, t)]
  /\ locked' = FALSE
  /\ Step(t) /\ UNCHANGED <<throws, result>>

(* pWait: a thread that is done is not waited for.  Its end resumes this   *)
(* one behind the call.                                                    *)
Wait(t) ==
  /\ Does(t, "wait")
  /\ IF st[Arg(t)] = "done" THEN UNCHANGED <<st, cur, waiters>>
     ELSE /\ st' = [st EXCEPT ![t] = "sleep"] /\ cur' = NULL
          /\ waiters' = [waiters EXCEPT ![Arg(t)] = Append(@, t)]
  /\ locked' = FALSE
  /\ Step(t) /\ UNCHANGED <<throws, result>>

(* Result::kill(): pTerminate of a thread that is not done.                *)
Kill(t) ==
  /\ Does(t, "kill")
  /\ st' = [st EXCEPT ![Arg(t)] = "done"]
  /\ locked' = IF st[Arg(t)] = "done" THEN locked ELSE FALSE
  /\ Step(t) /\ UNCHANGED <<cur, throws, waiters, result>>

Lock(t) ==
  /\ Does(t, "lock") /\ locked' = TRUE
  /\ Step(t) /\ UNCHANGED <<st, cur, throws, waiters, result>>

(* Mutant of Unlock: the handler does not unlock.                          *)
UnlockNormally(t) ==
  /\ Does(t, "unlock") /\ locked' = (locked /\ throws[t])
  /\ throws' = [throws EXCEPT ![t] = @ /\ Depth(t) > 1]
  /\ pc' = [pc EXCEPT ![t] = IF throws'[t] THEN HandlerOf(t, @ + 1) ELSE @ + 1]
  /\ UNCHANGED <<st, cur, waiters, result>>

(* pUnlock, at the end of the method or in its handler, which then throws  *)
(* on to the method around it or to the caller, taken to catch it there.   *)
Unlock(t) ==
  /\ Does(t, "unlock") /\ locked' = FALSE
  /\ throws' = [throws EXCEPT ![t] = @ /\ Depth(t) > 1]
  /\ pc' = [pc EXCEPT ![t] = IF throws'[t] THEN HandlerOf(t, @ + 1) ELSE @ + 1]
  /\ UNCHANGED <<st, cur, waiters, result>>

WorkOn(t) ==
  /\ Does(t, "work")
  /\ Step(t) /\ UNCHANGED <<st, cur, locked, throws, waiters, result>>

Throw(t) ==
  /\ Does(t, "work") /\ Depth(t) > 0
  /\ throws' = [throws EXCEPT ![t] = TRUE]
  /\ pc' = [pc EXCEPT ![t] = HandlerOf(t, @)]
  /\ UNCHANGED <<st, cur, locked, waiters, result>>

(* The launcher of the thread stores the result of the function.           *)
Return(t) ==
  /\ cur = t /\ pc[t] = Len(code[t]) + 1 /\ result[t] = NULL
  /\ result' = [result EXCEPT ![t] = t]
  /\ UNCHANGED <<code, st, cur, locked, pc, throws, waiters>>

(* Mutant of End: the waiters are forgotten.                               *)
EndForgets(t) ==
  /\ cur = t /\ pc[t] = Len(code[t]) + 1 /\ result[t] = t
  /\ st' = [st EXCEPT ![t] = "done"]
  /\ waiters' = [waiters EXCEPT ![t] = <<>>]
  /\ cur' = NULL /\ locked' = FALSE
  /\ UNCHANGED <<code, pc, throws, result>>

(* Mutant of End: waiters are made ready whatever their state.             *)
EndRevives(t) ==
  /\ cur = t /\ pc[t] = Len(code[t]) + 1 /\ result[t] = t
  /\ st' = [u \in Threads |-> IF u = t THEN "done"
                              ELSE IF u \in ToSet(waiters[t]) THEN "ready" ELSE st[u]]
  /\ waiters' = [waiters EXCEPT ![t] = <<>>]
  /\ cur' = NULL /\ locked' = FALSE
  /\ UNCHANGED <<code, pc, throws, result>>

(* terminate(): the waiters are made ready, unless they were killed, and   *)
(* the next thread runs.                                                   *)
End(t) ==
  /\ cur = t /\ pc[t] = Len(code[t]) + 1 /\ result[t] = t
  /\ st' = [u \in Threads |-> IF u = t THEN "done"
                              ELSE IF u \in ToSet(waiters[t]) /\ st[u] = "sleep" THEN "ready"
                              ELSE st[u]]
  /\ waiters' = [waiters EXCEPT ![t] = <<>>]
  /\ cur' = NULL /\ locked' = FALSE
  /\ UNCHANGED <<code, pc, throws, result>>

-----------------------------------------------------------------------------
(* The scheduler, as in Sched.                                             *)

Dispatch(t) ==
  /\ cur = NULL /\ st[t] = "ready"
  /\ st' = [st EXCEPT ![t] = "run"] /\ cur' = t /\ locked' = FALSE
  /\ UNCHANGED <<code, pc, throws, waiters, result>>

(* Mutant of Preempt: the lock is not looked at.                           *)
PreemptAnyway(t) ==
  /\ cur = t
  /\ st' = [st EXCEPT ![t] = "ready"] /\ cur' = NULL
  /\ UNCHANGED <<code, locked, pc, throws, waiters, result>>

(* The alarm handler, which returns at once if the cluster is locked.      *)
Preempt(t) ==
  /\ cur = t /\ ~locked
  /\ st' = [st EXCEPT ![t] = "ready"] /\ cur' = NULL
  /\ UNCHANGED <<code, locked, pc, throws, waiters, result>>

Run(t) == \/ Spawn(t) \/ Wait(t) \/ Kill(t) \/ Lock(t) \/ Unlock(t)
          \/ WorkOn(t) \/ Throw(t) \/ Return(t) \/ End(t)

Next == \E t \in Threads : Run(t) \/ Dispatch(t) \/ Preempt(t)

Spec == Init /\ [][Next]_vars

(* The ready queue is first in first out (ReadyRuns of Kernel), and a time *)
(* slice is longer than a step.                                            *)
FairSpec == Spec /\ \A t \in Threads : SF_vars(Dispatch(t)) /\ SF_vars(Run(t))

-----------------------------------------------------------------------------
(* Properties.                                                             *)

TypeOK ==
  /\ st \in [Threads -> {"none", "ready", "run", "sleep", "done"}]
  /\ cur \in Threads \cup {NULL} /\ locked \in BOOLEAN
  /\ \A t \in Threads : pc[t] \in 1..(Len(code[t]) + 1)
  /\ throws \in [Threads -> BOOLEAN]
  /\ \A t \in Threads : st[t] = "run" <=> cur = t

(* The methods of pMutex classes are serialized: whatever the alarm does,  *)
(* no two threads are inside methods at the same time.                     *)
MutexSerial == \A t, u \in Threads : Depth(t) > 0 /\ Depth(u) > 0 => t = u

(* A program that is outside of every method has the cluster unlocked: no  *)
(* way out of a method, by return or by exception, leaves preemption off.  *)
LockReleased == cur # NULL /\ locked => Depth(cur) > 0

(* A thread that goes on behind a par or pfor block, or behind value(),    *)
(* does so with every thread it waited for done and its result stored, or  *)
(* killed: no statement of the block still uses the variables in it.       *)
Killed(k) == \E t \in Threads : \E i \in 1..(pc[t] - 1) : code[t][i].op = "kill" /\ code[t][i].t = k
PastWait(t, i) == i < pc[t] /\ code[t][i].op = "wait" /\ (st[t] = "sleep" => i < pc[t] - 1)
JoinsSeeResults ==
  \A t \in Threads : ~Killed(t) => \A i \in DOMAIN code[t] :
    PastWait(t, i)
    => LET k == code[t][i].t IN st[k] = "done" /\ (result[k] = k \/ Killed(k))

(* Every thread that is created ends: no thread waits forever in a par     *)
(* block, nested ones included, and no exception leaves a thread unable to *)
(* run.                                                                    *)
AllEnd == <>(\A t \in Threads : st[t] \in {"none", "done"})

(* The execution assumes nothing of the scheduler but what Sched says,     *)
(* which Kernel implements.                                                *)
Scheduler == INSTANCE Sched
RunsOnSched == Scheduler!Spec
=============================================================================
