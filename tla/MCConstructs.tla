---------------------------- MODULE MCConstructs ----------------------------
(* Programs for TLC.                                                       *)
EXTENDS Constructs

CONSTANTS t1, t2, t3, t4

Prog(m1, m2, m3, m4) ==
  [t \in Threads |-> CASE t = t1 -> m1 [] t = t2 -> m2 [] t = t3 -> m3 [] t = t4 -> m4]

Call == MutexCall(Work)

(* par and pfor, nested, with methods called from every thread.            *)
Blocks ==
  {Prog(Par(<<t2, t3>>) \o Call, Pfor(<<t4>>) \o Call, Call \o Call, Call),
   Prog(Pfor(<<t2, t3>>) \o Par(<<t4>>), Work \o Call, MutexCall(Work \o Work), Call)}

(* spawn, kill and value.                                                  *)
Futures ==
  {Prog(SpawnOp(t2) \o SpawnOp(t3) \o Call \o ResultKill(t2) \o Value(t2) \o Value(t3),
        Call \o Work, Call, <<>>),
   Prog(SpawnOp(t2) \o Work \o ResultKill(t2) \o Value(t2), Par(<<t3, t4>>), Call, Work)}

SafePrograms == Blocks \cup Futures

(* What the theorems of ConstructsProofs suppose of programs.              *)
ASSUME \A p \in SafePrograms, t \in Threads : Flat(p[t]) /\ KillsSpawned(p[t])

(* A method that calls another method.                                     *)
Nested ==
  {Prog(Par(<<t2, t3>>), MutexCall(Call \o Work), Call, <<>>)}
=============================================================================
