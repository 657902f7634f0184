-------------------------- MODULE ConstructsProofs --------------------------
(***************************************************************************)
(* Proofs about Constructs, for any set of threads and any programs whose  *)
(* methods do not call one another.                                        *)
(***************************************************************************)
EXTENDS Constructs, TLAPS

Instrs == [op : {"spawn", "wait", "kill", "lock", "unlock", "work"},
           t : Threads \cup {NULL}, d : Nat]

(* Sequences of calls that a thread may be given.                          *)
Proper(c) == c \in Seq(Instrs) /\ Flat(c) /\ KillsSpawned(c)
ProperPrograms == \A p \in Programs : \A t \in Threads : Proper(p[t])

-----------------------------------------------------------------------------
(* The code of a method.                                                   *)

DepthAt(c, i) == IF i \in DOMAIN c THEN c[i].d ELSE 0

(* How deep the code is at an instruction and behind it.                   *)
LEMMA FlatSteps ==
  ASSUME NEW c, Proper(c), NEW i \in 1..Len(c)
  PROVE  /\ DepthAt(c, i) = c[i].d /\ c[i].d \in {0, 1}
         /\ c[i].op \in {"spawn", "wait", "kill"} =>
              c[i].d = 0 /\ DepthAt(c, i + 1) = 0 /\ c[i].t \in Threads
         /\ c[i].op = "lock" => c[i].d = 0 /\ DepthAt(c, i + 1) = 1
         /\ c[i].op = "unlock" => c[i].d = 1 /\ DepthAt(c, i + 1) = 0
         /\ c[i].op = "work" => DepthAt(c, i + 1) = c[i].d
         /\ c[i].d = 1 => \E j \in i..Len(c) : Method(c, i, j)
<1>1. c \in Seq(Instrs) /\ DOMAIN c = 1..Len(c) /\ Len(c) \in Nat
  BY DEF Proper
<1>2. i \in DOMAIN c /\ (i + 1 \in DOMAIN c <=> i < Len(c))
  BY <1>1
<1>3. \/ /\ c[i].d = 0
         /\ \/ c[i].op \in {"spawn", "wait", "kill"} /\ c[i].t \in Threads
            \/ c[i].op = "work"
         /\ i < Len(c) => c[i + 1].d = 0
      \/ c[i].d = 0 /\ c[i].op = "lock" /\ i < Len(c) /\ c[i + 1].d = 1
      \/ /\ c[i].d = 1 /\ (\E j \in i..Len(c) : Method(c, i, j))
         /\ c[i].op = "unlock" /\ i < Len(c) => c[i + 1].d = 0
  BY <1>2 DEF Proper, Flat
<1>4. CASE c[i].d = 0
  BY <1>2, <1>3, <1>4 DEF DepthAt
<1>5. CASE c[i].d = 1
  <2>1. PICK j \in i..Len(c) : Method(c, i, j)
    BY <1>3, <1>5
  <2>2. CASE j = i
    BY <1>1, <1>2, <1>3, <1>5, <2>1, <2>2 DEF DepthAt, Method
  <2>3. CASE j > i
    <3>1. c[i].op = "work" /\ i + 1 \in i..j
      BY <1>1, <2>1, <2>3 DEF Method
    <3>2. c[i + 1].d = 1
      BY <1>1, <2>1, <2>3, <3>1 DEF Method
    <3>3. i + 1 \in DOMAIN c
      BY <1>1, <2>1, <2>3
    <3>4. QED
      BY <1>2, <1>5, <2>1, <3>1, <3>2, <3>3 DEF DepthAt
  <2>4. QED
    BY <2>1, <2>2, <2>3
<1>6. QED
  BY <1>3, <1>4, <1>5

(* An exception goes to the unlock that ends the method.                   *)
LEMMA Handler ==
  ASSUME NEW t \in Threads, Proper(code[t]), NEW i \in 1..Len(code[t]),
         NEW j \in i..Len(code[t]), Method(code[t], i, j)
  PROVE  HandlerOf(t, i) = j
<1> DEFINE c == code[t]
           S == {m \in i..Len(c) : c[m].op = "unlock" /\ c[m].d = c[i].d}
<1>1. c \in Seq(Instrs) /\ Len(c) \in Nat
  BY DEF Proper
<1>2. c[i].d = 1
  BY <1>1 DEF Method
<1>3. j \in S
  BY <1>2 DEF Method
<1>4. \A m \in S : j <= m
  BY <1>1 DEF Method
<1>5. S \subseteq Nat
  BY <1>1
<1> HIDE DEF S
<1>6. Min(S) \in S /\ \A m \in S : Min(S) <= m
  <2>1. \E x \in S : \A y \in S : x <= y
    BY <1>3, <1>4
  <2>2. QED
    BY <2>1 DEF Min
<1>7. Min(S) = j
  <2>1. Min(S) <= j /\ j <= Min(S)
    BY <1>3, <1>4, <1>6
  <2>2. Min(S) \in Nat /\ j \in Nat
    BY <1>3, <1>5, <1>6
  <2>3. QED
    BY <2>1, <2>2
<1>8. QED
  BY <1>7 DEF HandlerOf, S

-----------------------------------------------------------------------------
(* Who runs, where, and with which lock.                                   *)

Types ==
  /\ st \in [Threads -> {"none", "ready", "run", "sleep", "done"}]
  /\ cur \in Threads \cup {NULL} /\ locked \in BOOLEAN
  /\ pc \in [Threads -> Nat] /\ throws \in [Threads -> BOOLEAN]
  /\ waiters \in [Threads -> Seq(Threads)]
  /\ result \in [Threads -> Threads \cup {NULL}]

(* Threads are inside their code; the one that is current runs.            *)
InCode == \A t \in Threads : /\ Proper(code[t]) /\ pc[t] \in 1..(Len(code[t]) + 1)
                             /\ st[t] = "run" <=> cur = t

(* Only the thread that runs is in a method, and the cluster is locked     *)
(* exactly while it is.                                                    *)
LockedInMethod == /\ \A t \in Threads : t # cur => Depth(t) = 0
                  /\ cur # NULL => (locked <=> Depth(cur) > 0)

(* A thread that was spawned is there, and is another.                     *)
SpawnedThere ==
  \A t \in Threads : \A i \in 1..(pc[t] - 1) :
    code[t][i].op = "spawn" => st[code[t][i].t] # "none" /\ code[t][i].t # t

Runs == Types /\ InCode /\ LockedInMethod /\ SpawnedThere

(* What one call does to the place of the thread that makes it: it goes on *)
(* behind the call or, with an exception, behind work only.                *)
Moves(t, q) ==
  /\ pc' = [pc EXCEPT ![t] = q] /\ q \in (pc[t] + 1)..(Len(code[t]) + 1)
  /\ \A i \in (pc[t] + 1)..(q - 1) : code[t][i].op = "work"

(* What a thread that runs finds at its place.                             *)
LEMMA AtCall ==
  ASSUME Runs, NEW t \in Threads, NEW op, Does(t, op)
  PROVE  /\ cur = t /\ st[t] = "run" /\ code' = code
         /\ Proper(code[t]) /\ pc[t] \in 1..Len(code[t]) /\ Len(code[t]) \in Nat
         /\ code[t][pc[t]].op = op /\ Depth(t) = code[t][pc[t]].d
         /\ Depth(t) = DepthAt(code[t], pc[t])
<1>1. cur = t /\ pc[t] <= Len(code[t]) /\ code[t][pc[t]].op = op /\ code' = code
  BY DEF Does
<1>2. Proper(code[t]) /\ pc[t] \in 1..(Len(code[t]) + 1) /\ st[t] = "run"
  BY <1>1 DEF Runs, InCode
<1>3. Len(code[t]) \in Nat /\ DOMAIN code[t] = 1..Len(code[t])
  BY <1>2 DEF Proper
<1>4. pc[t] \in 1..Len(code[t])
  BY <1>1, <1>2, <1>3
<1>5. QED
  BY <1>1, <1>2, <1>3, <1>4 DEF Depth, DepthAt

(* Going on to the next instruction.                                       *)
LEMMA StepMoves ==
  ASSUME Runs, NEW t \in Threads, NEW op, Does(t, op), Step(t)
  PROVE  Moves(t, pc[t] + 1)
<1>1. pc[t] \in 1..Len(code[t]) /\ Len(code[t]) \in Nat
  BY AtCall
<1>2. pc' = [pc EXCEPT ![t] = pc[t] + 1]
  BY DEF Step
<1>3. QED
  BY <1>1, <1>2 DEF Moves

(* The call keeps threads in their code, and only the depth of the thread  *)
(* that makes it changes.                                                  *)
LEMMA MoveKeeps ==
  ASSUME Runs, NEW t \in Threads, NEW q, Moves(t, q), code' = code
  PROVE  /\ pc' \in [Threads -> Nat] /\ pc'[t] = q
         /\ \A u \in Threads : Proper(code'[u]) /\ pc'[u] \in 1..(Len(code'[u]) + 1)
         /\ \A u \in Threads \ {t} : pc'[u] = pc[u] /\ Depth(u)' = Depth(u)
         /\ Depth(t)' = DepthAt(code[t], q)
<1>1. pc \in [Threads -> Nat] /\ \A u \in Threads : Proper(code[u]) /\ pc[u] \in 1..(Len(code[u]) + 1)
  BY DEF Runs, Types, InCode
<1>2. Len(code[t]) \in Nat
  BY <1>1 DEF Proper
<1>3. q \in Nat /\ q \in 1..(Len(code[t]) + 1)
  BY <1>1, <1>2 DEF Moves
<1>4. pc' \in [Threads -> Nat] /\ \A u \in Threads : pc'[u] = IF u = t THEN q ELSE pc[u]
  BY <1>1, <1>3 DEF Moves
<1>5. \A u \in Threads : Depth(u)' = DepthAt(code[u], pc'[u])
  BY DEF Depth, DepthAt
<1>6. \A u \in Threads : Depth(u) = DepthAt(code[u], pc[u])
  BY DEF Depth, DepthAt
<1>7. QED
  BY <1>1, <1>3, <1>4, <1>5, <1>6

(* An exception takes the thread to the end of its method.                 *)
LEMMA ThrowMoves ==
  ASSUME Runs, NEW t \in Threads, Throw(t)
  PROVE  /\ Moves(t, HandlerOf(t, pc[t])) /\ HandlerOf(t, pc[t]) \in 1..Len(code[t])
         /\ Depth(t) = 1 /\ DepthAt(code[t], HandlerOf(t, pc[t])) = 1
<1> DEFINE c == code[t]
<1>1. /\ Proper(c) /\ pc[t] \in 1..Len(c) /\ Len(c) \in Nat /\ Depth(t) = c[pc[t]].d
      /\ c[pc[t]].op = "work"
  BY AtCall DEF Throw
<1>2. c[pc[t]].d = 1
  <2>1. c[pc[t]].d \in {0, 1}
    BY <1>1, FlatSteps
  <2>2. c[pc[t]].d > 0
    BY <1>1 DEF Throw
  <2>3. QED
    BY <2>1, <2>2
<1>3. PICK j \in pc[t]..Len(c) : Method(c, pc[t], j)
  BY <1>1, <1>2, FlatSteps
<1>4. HandlerOf(t, pc[t]) = j
  BY <1>1, <1>3, Handler
<1>5. j # pc[t] /\ \A m \in pc[t]..(j - 1) : c[m].op = "work"
  BY <1>1, <1>3 DEF Method
<1>6. j \in (pc[t] + 1)..(Len(c) + 1) /\ \A i \in (pc[t] + 1)..(j - 1) : c[i].op = "work"
  BY <1>1, <1>3, <1>5
<1>7. DepthAt(c, j) = 1
  <2>1. j \in DOMAIN c
    BY <1>1, <1>3 DEF Proper
  <2>2. QED
    BY <1>3, <2>1 DEF Method, DepthAt
<1>8. pc' = [pc EXCEPT ![t] = j]
  BY <1>4 DEF Throw
<1>9. j \in 1..Len(c)
  BY <1>1, <1>3
<1>10. QED
  BY <1>1, <1>2, <1>4, <1>6, <1>7, <1>8, <1>9 DEF Moves

(* What a call that moves its thread must see to.                          *)
LEMMA CallKeeps ==
  ASSUME Runs, NEW t \in Threads, NEW op, Does(t, op), NEW q, Moves(t, q), Types',
         cur' \in {t, NULL}, \A u \in Threads : st'[u] = "run" <=> cur' = u,
         cur' = t => (locked' <=> DepthAt(code[t], q) > 0),
         cur' = NULL => DepthAt(code[t], q) = 0,
         \A u \in Threads : st[u] # "none" => st'[u] # "none",
         op = "spawn" => st'[Arg(t)] # "none" /\ Arg(t) # t
  PROVE  Runs'
<1>1. /\ cur = t /\ code' = code /\ Proper(code[t]) /\ code[t][pc[t]].op = op
      /\ pc[t] \in 1..Len(code[t]) /\ Len(code[t]) \in Nat
  BY AtCall
<1>2. /\ pc' \in [Threads -> Nat] /\ pc'[t] = q
      /\ \A u \in Threads : Proper(code'[u]) /\ pc'[u] \in 1..(Len(code'[u]) + 1)
      /\ \A u \in Threads \ {t} : pc'[u] = pc[u] /\ Depth(u)' = Depth(u)
      /\ Depth(t)' = DepthAt(code[t], q)
  BY <1>1, MoveKeeps
<1>3. InCode'
  BY <1>2 DEF InCode
<1>4. LockedInMethod'
  <2>1. \A u \in Threads : u # t => Depth(u) = 0
    BY <1>1 DEF Runs, LockedInMethod
  <2>2. \A u \in Threads : u # cur' => Depth(u)' = 0
    BY <1>2, <2>1
  <2>3. t # NULL
    BY ConstructsAssumption
  <2>4. cur' # NULL => (locked' <=> Depth(t)' > 0) /\ cur' = t
    BY <1>2
  <2>5. cur' # NULL => (locked' <=> Depth(cur)' > 0)
    <3>1. SUFFICES ASSUME cur' # NULL PROVE locked' <=> Depth(cur)' > 0
      OBVIOUS
    <3>2. cur' = t
      BY <3>1
    <3>3. Depth(cur)' = Depth(t)'
      BY <3>2 DEF Depth
    <3>4. QED
      BY <2>4, <3>1, <3>3
  <2>6. QED
    BY <2>2, <2>5 DEF LockedInMethod
<1>5. SpawnedThere'
  <2>1. SUFFICES ASSUME NEW u \in Threads, NEW i \in 1..(pc'[u] - 1), code[u][i].op = "spawn"
                 PROVE  st'[code[u][i].t] # "none" /\ code[u][i].t # u
    BY <1>1 DEF SpawnedThere
  <2>2. CASE u # t \/ i < pc[t]
    <3>1. i \in 1..(pc[u] - 1)
      BY <1>1, <1>2, <2>2
    <3>2. st[code[u][i].t] # "none" /\ code[u][i].t # u
      BY <2>1, <3>1 DEF Runs, SpawnedThere
    <3>3. code[u][i].t \in Threads
      <4>1. Proper(code[u]) /\ pc[u] \in 1..(Len(code[u]) + 1)
        BY DEF Runs, InCode
      <4>2. i \in 1..Len(code[u])
        BY <3>1, <4>1 DEF Proper
      <4>3. QED
        BY <2>1, <4>1, <4>2, FlatSteps
    <3>4. QED
      BY <3>2, <3>3
  <2>3. CASE u = t /\ i = pc[t]
    BY <1>1, <2>1, <2>3 DEF Arg
  <2>4. CASE u = t /\ i > pc[t]
    <3>1. i \in (pc[t] + 1)..(q - 1)
      BY <1>1, <1>2, <2>4
    <3>2. QED
      BY <2>1, <2>4, <3>1 DEF Moves
  <2>5. QED
    BY <1>1, <2>2, <2>3, <2>4
<1>6. QED
  BY <1>3, <1>4, <1>5 DEF Runs

(* The same of a step that leaves every thread at its place.               *)
LEMMA SwitchKeeps ==
  ASSUME Runs, UNCHANGED <<code, pc>>, Types',
         \A u \in Threads : st'[u] = "run" <=> cur' = u,
         \A u \in Threads : u # cur' => Depth(u) = 0,
         cur' # NULL => (locked' <=> Depth(cur') > 0),
         \A u \in Threads : st[u] # "none" => st'[u] # "none"
  PROVE  Runs'
<1>1. InCode'
  BY DEF Runs, InCode
<1>2. \A u \in Threads : Depth(u)' = Depth(u)
  BY DEF Depth
<1>3. Depth(cur)' = Depth(cur')
  BY DEF Depth
<1>4. LockedInMethod'
  BY <1>2, <1>3 DEF LockedInMethod
<1>5. SpawnedThere'
  <2>1. SUFFICES ASSUME NEW u \in Threads, NEW i \in 1..(pc[u] - 1), code[u][i].op = "spawn"
                 PROVE  st'[code[u][i].t] # "none" /\ code[u][i].t # u
    BY DEF SpawnedThere
  <2>2. st[code[u][i].t] # "none" /\ code[u][i].t # u
    BY <2>1 DEF Runs, SpawnedThere
  <2>3. Proper(code[u]) /\ pc[u] \in 1..(Len(code[u]) + 1)
    BY DEF Runs, InCode
  <2>4. i \in 1..Len(code[u])
    BY <2>3 DEF Proper
  <2>5. code[u][i].t \in Threads
    BY <2>1, <2>3, <2>4, FlatSteps
  <2>6. QED
    BY <2>2, <2>5
<1>6. QED
  BY <1>1, <1>4, <1>5 DEF Runs

(* A kill is of a thread that has been spawned, and not of its own.        *)
LEMMA KillsOther ==
  ASSUME Runs, NEW t \in Threads, Does(t, "kill")
  PROVE  Arg(t) \in Threads /\ Arg(t) # t /\ st[Arg(t)] # "none"
<1>1. Proper(code[t]) /\ pc[t] \in 1..Len(code[t]) /\ code[t][pc[t]].op = "kill"
  BY AtCall
<1>2. pc[t] \in DOMAIN code[t]
  BY <1>1 DEF Proper
<1>3. PICK j \in 1..(pc[t] - 1) : code[t][j].op = "spawn" /\ code[t][j].t = Arg(t)
  BY <1>1, <1>2 DEF Proper, KillsSpawned, Arg
<1>4. st[Arg(t)] # "none" /\ Arg(t) # t
  BY <1>3 DEF Runs, SpawnedThere
<1>5. QED
  BY <1>1, <1>4, FlatSteps DEF Arg

(* Every step keeps the lock with the methods.                             *)
LEMMA RunsKept == Runs /\ [Next]_vars => Runs'
<1> SUFFICES ASSUME Runs, [Next]_vars PROVE Runs'
  OBVIOUS
<1>0. /\ st \in [Threads -> {"none", "ready", "run", "sleep", "done"}]
      /\ cur \in Threads \cup {NULL} /\ locked \in BOOLEAN
      /\ pc \in [Threads -> Nat] /\ throws \in [Threads -> BOOLEAN]
      /\ waiters \in [Threads -> Seq(Threads)]
      /\ result \in [Threads -> Threads \cup {NULL}]
      /\ \A u \in Threads : st[u] = "run" <=> cur = u
      /\ NULL \notin Threads
  BY ConstructsAssumption DEF Runs, Types, InCode
<1>d. /\ \A u \in Threads : u # cur => Depth(u) = 0
      /\ cur # NULL => (locked <=> Depth(cur) > 0)
  BY DEF Runs, LockedInMethod
<1>t. Types' <=>
      /\ st' \in [Threads -> {"none", "ready", "run", "sleep", "done"}]
      /\ cur' \in Threads \cup {NULL} /\ locked' \in BOOLEAN
      /\ pc' \in [Threads -> Nat] /\ throws' \in [Threads -> BOOLEAN]
      /\ waiters' \in [Threads -> Seq(Threads)]
      /\ result' \in [Threads -> Threads \cup {NULL}]
  BY DEF Types
<1>1. ASSUME NEW t \in Threads, Spawn(t) PROVE Runs'
  <2>1. /\ Does(t, "spawn") /\ st[Arg(t)] = "none" /\ st' = [st EXCEPT ![Arg(t)] = "ready"]
        /\ locked' = FALSE /\ Step(t) /\ UNCHANGED <<cur, throws, waiters, result>>
    BY <1>1 DEF Spawn
  <2>2. /\ cur = t /\ code' = code /\ Proper(code[t]) /\ code[t][pc[t]].op = "spawn"
        /\ pc[t] \in 1..Len(code[t])
    BY <2>1, AtCall
  <2>3. Moves(t, pc[t] + 1)
    BY <2>1, StepMoves
  <2>4. Arg(t) \in Threads /\ DepthAt(code[t], pc[t] + 1) = 0
    BY <2>2, FlatSteps DEF Arg
  <2>5. Types'
    BY <1>0, <1>t, <2>1, <2>2, <2>3, <2>4, MoveKeeps
  <2>6. /\ cur' \in {t, NULL} /\ \A u \in Threads : st'[u] = "run" <=> cur' = u
        /\ cur' = t => (locked' <=> DepthAt(code[t], pc[t] + 1) > 0)
        /\ cur' = NULL => DepthAt(code[t], pc[t] + 1) = 0
        /\ \A u \in Threads : st[u] # "none" => st'[u] # "none"
        /\ st'[Arg(t)] # "none" /\ Arg(t) # t
    BY <1>0, <2>1, <2>2, <2>3, <2>4, <2>5
  <2>7. QED
    BY <2>1, <2>3, <2>5, <2>6, CallKeeps
<1>2. ASSUME NEW t \in Threads, Wait(t) PROVE Runs'
  <2>1. /\ Does(t, "wait") /\ locked' = FALSE /\ Step(t) /\ UNCHANGED <<throws, result>>
        /\ \/ UNCHANGED <<st, cur, waiters>>
           \/ /\ st' = [st EXCEPT ![t] = "sleep"] /\ cur' = NULL
              /\ waiters' = [waiters EXCEPT ![Arg(t)] = Append(@, t)]
    BY <1>2 DEF Wait
  <2>2. /\ cur = t /\ code' = code /\ Proper(code[t]) /\ code[t][pc[t]].op = "wait"
        /\ pc[t] \in 1..Len(code[t])
    BY <2>1, AtCall
  <2>3. Moves(t, pc[t] + 1)
    BY <2>1, StepMoves
  <2>4. Arg(t) \in Threads /\ DepthAt(code[t], pc[t] + 1) = 0
    BY <2>2, FlatSteps DEF Arg
  <2>5. waiters' \in [Threads -> Seq(Threads)]
    <3>1. Append(waiters[Arg(t)], t) \in Seq(Threads)
      BY <1>0, <2>4
    <3>2. QED
      BY <1>0, <2>1, <2>4, <3>1
  <2>6. Types'
    BY <1>0, <1>t, <2>1, <2>2, <2>3, <2>5, MoveKeeps
  <2>7. /\ cur' \in {t, NULL} /\ \A u \in Threads : st'[u] = "run" <=> cur' = u
        /\ cur' = t => (locked' <=> DepthAt(code[t], pc[t] + 1) > 0)
        /\ cur' = NULL => DepthAt(code[t], pc[t] + 1) = 0
        /\ \A u \in Threads : st[u] # "none" => st'[u] # "none"
    BY <1>0, <2>1, <2>2, <2>3, <2>4, <2>6
  <2>8. QED
    BY <2>1, <2>3, <2>6, <2>7, CallKeeps
<1>3. ASSUME NEW t \in Threads, Kill(t) PROVE Runs'
  <2>1. /\ Does(t, "kill") /\ st' = [st EXCEPT ![Arg(t)] = "done"] /\ locked' \in {locked, FALSE}
        /\ Step(t) /\ UNCHANGED <<cur, throws, waiters, result>>
    BY <1>3 DEF Kill
  <2>2. /\ cur = t /\ code' = code /\ Proper(code[t]) /\ code[t][pc[t]].op = "kill"
        /\ pc[t] \in 1..Len(code[t]) /\ Depth(t) = code[t][pc[t]].d
    BY <2>1, AtCall
  <2>3. Moves(t, pc[t] + 1)
    BY <2>1, StepMoves
  <2>4. Arg(t) \in Threads /\ Arg(t) # t
    BY <2>1, KillsOther
  <2>5. DepthAt(code[t], pc[t] + 1) = 0 /\ Depth(t) = 0
    BY <2>2, FlatSteps
  <2>6. locked' = FALSE
    <3>1. ~locked
      BY <1>0, <1>d, <2>2, <2>5
    <3>2. QED
      BY <1>0, <2>1, <3>1
  <2>7. Types'
    BY <1>0, <1>t, <2>1, <2>2, <2>3, <2>4, <2>6, MoveKeeps
  <2>8. /\ cur' \in {t, NULL} /\ \A u \in Threads : st'[u] = "run" <=> cur' = u
        /\ cur' = t => (locked' <=> DepthAt(code[t], pc[t] + 1) > 0)
        /\ cur' = NULL => DepthAt(code[t], pc[t] + 1) = 0
        /\ \A u \in Threads : st[u] # "none" => st'[u] # "none"
    BY <1>0, <2>1, <2>2, <2>3, <2>4, <2>5, <2>6, <2>7
  <2>9. QED
    BY <2>1, <2>3, <2>7, <2>8, CallKeeps
<1>4. ASSUME NEW t \in Threads, Lock(t) PROVE Runs'
  <2>1. /\ Does(t, "lock") /\ locked' = TRUE /\ Step(t)
        /\ UNCHANGED <<st, cur, throws, waiters, result>>
    BY <1>4 DEF Lock
  <2>2. /\ cur = t /\ code' = code /\ Proper(code[t]) /\ code[t][pc[t]].op = "lock"
        /\ pc[t] \in 1..Len(code[t])
    BY <2>1, AtCall
  <2>3. Moves(t, pc[t] + 1)
    BY <2>1, StepMoves
  <2>4. DepthAt(code[t], pc[t] + 1) = 1
    BY <2>2, FlatSteps
  <2>5. Types'
    BY <1>0, <1>t, <2>1, <2>2, <2>3, MoveKeeps
  <2>6. /\ cur' \in {t, NULL} /\ \A u \in Threads : st'[u] = "run" <=> cur' = u
        /\ cur' = t => (locked' <=> DepthAt(code[t], pc[t] + 1) > 0)
        /\ cur' = NULL => DepthAt(code[t], pc[t] + 1) = 0
        /\ \A u \in Threads : st[u] # "none" => st'[u] # "none"
    BY <1>0, <2>1, <2>2, <2>3, <2>4, <2>5
  <2>7. QED
    BY <2>1, <2>3, <2>5, <2>6, CallKeeps
<1>5. ASSUME NEW t \in Threads, Unlock(t) PROVE Runs'
  <2>1. /\ Does(t, "unlock") /\ locked' = FALSE
        /\ throws' = [throws EXCEPT ![t] = @ /\ Depth(t) > 1]
        /\ pc' = [pc EXCEPT ![t] = IF throws'[t] THEN HandlerOf(t, @ + 1) ELSE @ + 1]
        /\ UNCHANGED <<st, cur, waiters, result>>
    BY <1>5 DEF Unlock
  <2>2. /\ cur = t /\ code' = code /\ Proper(code[t]) /\ code[t][pc[t]].op = "unlock"
        /\ pc[t] \in 1..Len(code[t]) /\ Depth(t) = code[t][pc[t]].d
    BY <2>1, AtCall
  <2>3. Depth(t) = 1 /\ DepthAt(code[t], pc[t] + 1) = 0
    BY <2>2, FlatSteps
  <2>4. throws'[t] = FALSE /\ throws' \in [Threads -> BOOLEAN]
    <3>1. (throws[t] /\ Depth(t) > 1) = FALSE
      BY <2>3
    <3>2. throws' = [throws EXCEPT ![t] = FALSE]
      BY <2>1, <3>1
    <3>3. QED
      BY <1>0, <3>2
  <2>5. Step(t)
    BY <2>1, <2>4 DEF Step
  <2>6. Moves(t, pc[t] + 1)
    BY <2>1, <2>5, StepMoves
  <2>7. Types'
    BY <1>0, <1>t, <2>1, <2>2, <2>4, <2>6, MoveKeeps
  <2>8. /\ cur' \in {t, NULL} /\ \A u \in Threads : st'[u] = "run" <=> cur' = u
        /\ cur' = t => (locked' <=> DepthAt(code[t], pc[t] + 1) > 0)
        /\ cur' = NULL => DepthAt(code[t], pc[t] + 1) = 0
        /\ \A u \in Threads : st[u] # "none" => st'[u] # "none"
    BY <1>0, <2>1, <2>2, <2>3, <2>6, <2>7
  <2>9. QED
    BY <2>1, <2>6, <2>7, <2>8, CallKeeps
<1>6. ASSUME NEW t \in Threads, WorkOn(t) PROVE Runs'
  <2>1. Does(t, "work") /\ Step(t) /\ UNCHANGED <<st, cur, locked, throws, waiters, result>>
    BY <1>6 DEF WorkOn
  <2>2. /\ cur = t /\ code' = code /\ Proper(code[t]) /\ code[t][pc[t]].op = "work"
        /\ pc[t] \in 1..Len(code[t]) /\ Depth(t) = code[t][pc[t]].d
    BY <2>1, AtCall
  <2>3. Moves(t, pc[t] + 1)
    BY <2>1, StepMoves
  <2>4. DepthAt(code[t], pc[t] + 1) = Depth(t)
    BY <2>2, FlatSteps
  <2>5. Types'
    BY <1>0, <1>t, <2>1, <2>2, <2>3, MoveKeeps
  <2>6. /\ cur' \in {t, NULL} /\ \A u \in Threads : st'[u] = "run" <=> cur' = u
        /\ cur' = t => (locked' <=> DepthAt(code[t], pc[t] + 1) > 0)
        /\ cur' = NULL => DepthAt(code[t], pc[t] + 1) = 0
        /\ \A u \in Threads : st[u] # "none" => st'[u] # "none"
    BY <1>0, <1>d, <2>1, <2>2, <2>3, <2>4, <2>5
  <2>7. QED
    BY <2>1, <2>3, <2>5, <2>6, CallKeeps
<1>7. ASSUME NEW t \in Threads, Throw(t) PROVE Runs'
  <2>1. /\ Does(t, "work") /\ throws' = [throws EXCEPT ![t] = TRUE]
        /\ UNCHANGED <<st, cur, locked, waiters, result>>
    BY <1>7 DEF Throw
  <2>2. cur = t /\ code' = code
    BY <2>1, AtCall
  <2>3. PICK q : Moves(t, q) /\ Depth(t) = 1 /\ DepthAt(code[t], q) = 1
    BY <1>7, ThrowMoves
  <2>4. Types'
    BY <1>0, <1>t, <2>1, <2>2, <2>3, MoveKeeps
  <2>5. /\ cur' \in {t, NULL} /\ \A u \in Threads : st'[u] = "run" <=> cur' = u
        /\ cur' = t => (locked' <=> DepthAt(code[t], q) > 0)
        /\ cur' = NULL => DepthAt(code[t], q) = 0
        /\ \A u \in Threads : st[u] # "none" => st'[u] # "none"
    BY <1>0, <1>d, <2>1, <2>2, <2>3, <2>4
  <2>6. QED
    BY <2>1, <2>3, <2>4, <2>5, CallKeeps
<1>8. ASSUME NEW t \in Threads, Return(t) PROVE Runs'
  <2>1. /\ result' = [result EXCEPT ![t] = t]
        /\ UNCHANGED <<code, st, cur, locked, pc, throws, waiters>>
    BY <1>8 DEF Return
  <2>2. Types'
    BY <1>0, <1>t, <2>1
  <2>3. QED
    BY <1>0, <1>d, <2>1, <2>2, SwitchKeeps
<1>9. ASSUME NEW t \in Threads, End(t) PROVE Runs'
  <2>1. /\ cur = t /\ pc[t] = Len(code[t]) + 1
        /\ st' = [u \in Threads |-> IF u = t THEN "done"
                              ELSE IF u \in ToSet(waiters[t]) /\ st[u] = "sleep" THEN "ready"
                              ELSE st[u]]
        /\ waiters' = [waiters EXCEPT ![t] = <<>>]
        /\ cur' = NULL /\ locked' = FALSE
        /\ UNCHANGED <<code, pc, throws, result>>
    BY <1>9 DEF End
  <2>2. Types'
    <3>1. st' \in [Threads -> {"none", "ready", "run", "sleep", "done"}]
      BY <1>0, <2>1
    <3>2. waiters' \in [Threads -> Seq(Threads)]
      <4>1. <<>> \in Seq(Threads)
        OBVIOUS
      <4>2. QED
        BY <1>0, <2>1, <4>1
    <3>3. QED
      BY <1>0, <1>t, <2>1, <3>1, <3>2
  <2>3. Depth(t) = 0
    <3>1. Proper(code[t])
      BY DEF Runs, InCode
    <3>2. pc[t] \notin DOMAIN code[t]
      BY <2>1, <3>1 DEF Proper
    <3>3. QED
      BY <3>2 DEF Depth
  <2>4. QED
    BY <1>0, <1>d, <2>1, <2>2, <2>3, SwitchKeeps
<1>10. ASSUME NEW t \in Threads, Dispatch(t) PROVE Runs'
  <2>1. /\ cur = NULL /\ st[t] = "ready"
        /\ st' = [st EXCEPT ![t] = "run"] /\ cur' = t /\ locked' = FALSE
        /\ UNCHANGED <<code, pc, throws, waiters, result>>
    BY <1>10 DEF Dispatch
  <2>2. Types'
    BY <1>0, <1>t, <2>1
  <2>3. QED
    BY <1>0, <1>d, <2>1, <2>2, SwitchKeeps
<1>11. ASSUME NEW t \in Threads, Preempt(t) PROVE Runs'
  <2>1. /\ cur = t /\ ~locked
        /\ st' = [st EXCEPT ![t] = "ready"] /\ cur' = NULL
        /\ UNCHANGED <<code, locked, pc, throws, waiters, result>>
    BY <1>11 DEF Preempt
  <2>2. Types'
    BY <1>0, <1>t, <2>1
  <2>3. Depth(t) = 0
    <3>1. Proper(code[t]) /\ pc[t] \in 1..(Len(code[t]) + 1)
      BY DEF Runs, InCode
    <3>2. pc[t] \in DOMAIN code[t] => pc[t] \in 1..Len(code[t])
      BY <3>1 DEF Proper
    <3>3. Depth(t) \in {0, 1}
      BY <3>1, <3>2, FlatSteps DEF Depth
    <3>4. QED
      BY <1>0, <1>d, <2>1, <3>3
  <2>4. QED
    BY <1>0, <1>d, <2>1, <2>2, <2>3, SwitchKeeps
<1>12. CASE UNCHANGED vars
  <2>1. UNCHANGED <<code, st, cur, locked, pc, throws, waiters, result>>
    BY <1>12 DEF vars
  <2>2. Types'
    BY <1>0, <1>t, <2>1
  <2>3. QED
    BY <1>0, <1>d, <2>1, <2>2, SwitchKeeps
<1>13. QED
  BY <1>1, <1>2, <1>3, <1>4, <1>5, <1>6, <1>7, <1>8, <1>9, <1>10, <1>11, <1>12 DEF Next, Run

(* At first no thread is in a method.                                      *)
LEMMA RunsAtFirst == ASSUME ProperPrograms PROVE Init => Runs
<1> SUFFICES ASSUME Init PROVE Runs
  OBVIOUS
<1>0. /\ st = [t \in Threads |-> IF t = Main THEN "ready" ELSE "none"]
      /\ cur = NULL /\ locked = FALSE /\ code \in Programs
      /\ pc = [t \in Threads |-> 1] /\ throws = [t \in Threads |-> FALSE]
      /\ waiters = [t \in Threads |-> <<>>] /\ result = [t \in Threads |-> NULL]
  BY DEF Init
<1>1. Types
  <2>1. <<>> \in Seq(Threads)
    OBVIOUS
  <2>2. QED
    BY <1>0, <2>1 DEF Types
<1>2. \A t \in Threads : Proper(code[t]) /\ Len(code[t]) \in Nat
  BY <1>0 DEF ProperPrograms, Proper
<1>3. InCode
  BY <1>0, <1>2, ConstructsAssumption DEF InCode
<1>4. LockedInMethod
  <2>1. ASSUME NEW t \in Threads PROVE Depth(t) = 0
    <3>1. code[t] \in Seq(Instrs) /\ (code[t] = <<>> \/ code[t][1].d = 0)
      BY <1>2 DEF Proper, Flat
    <3>2. code[t] = <<>> => 1 \notin DOMAIN code[t]
      OBVIOUS
    <3>3. pc[t] = 1
      BY <1>0
    <3>4. QED
      BY <3>1, <3>2, <3>3 DEF Depth
  <2>2. QED
    BY <1>0, <2>1 DEF LockedInMethod
<1>5. SpawnedThere
  BY <1>0 DEF SpawnedThere
<1>6. QED
  BY <1>1, <1>3, <1>4, <1>5 DEF Runs

(* The thread that is current is the one in state run, and every thread is *)
(* at an instruction of its code or at its end, exceptions included.       *)
THEOREM ConstructsTypes == ASSUME ProperPrograms PROVE Spec => []TypeOK
<1>1. Init => Runs
  BY RunsAtFirst
<1>2. Runs => TypeOK
  BY DEF Runs, Types, InCode, TypeOK
<1>3. QED
  BY <1>1, <1>2, RunsKept, PTL DEF Spec

(* The methods of pMutex classes (Mutex::makeWrapperBody: pLock(), the     *)
(* method, pUnlock(), and a handler that unlocks) are serialized against   *)
(* the alarm, in every program whose methods do not call one another.      *)
THEOREM MutexSerialized == ASSUME ProperPrograms PROVE Spec => []MutexSerial
<1>1. Init => Runs
  BY RunsAtFirst
<1>2. Runs => MutexSerial
  <2> SUFFICES ASSUME Runs, NEW t \in Threads, NEW u \in Threads, Depth(t) > 0, Depth(u) > 0
               PROVE  t = u
    BY DEF MutexSerial
  <2>1. t = cur /\ u = cur
    BY DEF Runs, LockedInMethod
  <2>2. QED
    BY <2>1
<1>3. QED
  BY <1>1, <1>2, RunsKept, PTL DEF Spec

(* No way out of a method, by return or by exception, leaves preemption    *)
(* off (pUnlock() on both ways of makeWrapperBody).                        *)
THEOREM LockIsReleased == ASSUME ProperPrograms PROVE Spec => []LockReleased
<1>1. Init => Runs
  BY RunsAtFirst
<1>2. Runs => LockReleased
  BY DEF Runs, LockedInMethod, LockReleased
<1>3. QED
  BY <1>1, <1>2, RunsKept, PTL DEF Spec

-----------------------------------------------------------------------------
(* Waiting for threads.                                                    *)

(* A thread is done because it has stored its result or was killed.        *)
DoneHow == \A k \in Threads : st[k] = "done" => result[k] = k \/ Killed(k)

(* A thread among the waiters of u sleeps behind a pWait(u), or was killed *)
(* there.                                                                  *)
WaitersWait ==
  \A u \in Threads : \A w \in ToSet(waiters[u]) :
    \/ st[w] = "done"
    \/ st[w] = "sleep" /\ code[w][pc[w] - 1].t = u

(* What JoinsSeeResults says of the state of the threads waited for.       *)
PastDone ==
  \A t \in Threads : ~Killed(t) => \A i \in 1..(pc[t] - 1) :
    code[t][i].op = "wait" /\ (st[t] = "sleep" => i < pc[t] - 1)
      => st[code[t][i].t] = "done"

Joins == Runs /\ DoneHow /\ WaitersWait /\ PastDone

(* Once killed, always killed: no thread goes back in its code.            *)
LEMMA KilledStays ==
  ASSUME code' = code, \A u \in Threads : pc[u] \in Nat /\ pc'[u] \in Nat /\ pc[u] <= pc'[u],
         NEW k, Killed(k)
  PROVE  Killed(k)'
<1>1. PICK t \in Threads : \E i \in 1..(pc[t] - 1) : code[t][i].op = "kill" /\ code[t][i].t = k
  BY DEF Killed
<1>2. PICK i \in 1..(pc[t] - 1) : code[t][i].op = "kill" /\ code[t][i].t = k
  BY <1>1
<1>3. i \in 1..(pc'[t] - 1)
  BY <1>2
<1>4. QED
  BY <1>2, <1>3 DEF Killed

(* The arguments of the calls a thread has made.                           *)
LEMMA ArgIsThread ==
  ASSUME Runs, NEW t \in Threads, NEW i \in 1..(pc[t] - 1), code[t][i].op = "wait"
  PROVE  code[t][i].t \in Threads
<1>1. Proper(code[t]) /\ pc[t] \in 1..(Len(code[t]) + 1)
  BY DEF Runs, InCode
<1>2. i \in 1..Len(code[t])
  BY <1>1 DEF Proper
<1>3. QED
  BY <1>1, <1>2, FlatSteps

(* What a call that moves its thread must see to.                          *)
LEMMA CallJoins ==
  ASSUME Joins, NEW t \in Threads, NEW op, Does(t, op), NEW q, Moves(t, q),
         result' = result, st'[t] \in {st[t], "sleep"},
         \A u \in Threads \ {t} : \/ st'[u] = st[u]
                                  \/ st[u] = "none" /\ st'[u] = "ready"
                                  \/ st'[u] = "done" /\ Killed(u)',
         op = "wait" => st[Arg(t)] = "done" \/ (st'[t] = "sleep" /\ q = pc[t] + 1),
         \A u \in Threads : \A w \in ToSet(waiters'[u]) :
            \/ w \in ToSet(waiters[u])
            \/ w = t /\ st'[t] = "sleep" /\ u = Arg(t) /\ q = pc[t] + 1,
         waiters \in [Threads -> Seq(Threads)], waiters' \in [Threads -> Seq(Threads)]
  PROVE  DoneHow' /\ WaitersWait' /\ PastDone'
<1>1. /\ cur = t /\ code' = code /\ code[t][pc[t]].op = op /\ st[t] = "run"
      /\ pc[t] \in 1..Len(code[t]) /\ Len(code[t]) \in Nat /\ Runs
  BY AtCall DEF Joins
<1>2. /\ pc' \in [Threads -> Nat] /\ pc'[t] = q
      /\ \A u \in Threads \ {t} : pc'[u] = pc[u]
  BY <1>1, MoveKeeps
<1>3. pc \in [Threads -> Nat] /\ q \in (pc[t] + 1)..(Len(code[t]) + 1)
  BY <1>1 DEF Runs, Types, Moves
<1>4. \A u \in Threads : pc[u] \in Nat /\ pc'[u] \in Nat /\ pc[u] <= pc'[u]
  <2>1. pc[t] \in Nat /\ q \in Nat /\ pc[t] <= q
    BY <1>1, <1>3
  <2>2. \A n \in Nat : n <= n
    OBVIOUS
  <2>3. ASSUME NEW u \in Threads PROVE pc[u] \in Nat /\ pc'[u] \in Nat /\ pc[u] <= pc'[u]
    <3>1. CASE u = t
      BY <1>2, <2>1, <3>1
    <3>2. CASE u # t
      BY <1>2, <1>3, <2>2, <3>2
    <3>3. QED
      BY <3>1, <3>2
  <2>4. QED
    BY <2>3
<1>5. \A k \in Threads : Killed(k) => Killed(k)'
  BY <1>1, <1>4, KilledStays
<1>6. \A u \in Threads : st[u] = "done" => st'[u] = "done"
  BY <1>1
<1>7. DoneHow'
  <2>1. \A k \in Threads : st'[k] = "done" => st[k] = "done" \/ Killed(k)'
    BY <1>1
  <2>2. QED
    BY <1>5, <2>1 DEF Joins, DoneHow
<1>8. WaitersWait'
  <2>1. SUFFICES ASSUME NEW u \in Threads, NEW w \in ToSet(waiters'[u])
                 PROVE  st'[w] = "done" \/ (st'[w] = "sleep" /\ code[w][pc'[w] - 1].t = u)
    BY <1>1 DEF WaitersWait
  <2>2. CASE w \in ToSet(waiters[u])
    <3>1. st[w] = "done" \/ (st[w] = "sleep" /\ code[w][pc[w] - 1].t = u)
      BY <2>2 DEF Joins, WaitersWait
    <3>2. w \in Threads
      BY <2>2 DEF ToSet
    <3>3. w # t
      BY <1>1, <3>1
    <3>4. QED
      BY <1>2, <3>1, <3>2, <3>3
  <2>3. CASE w = t /\ st'[t] = "sleep" /\ u = Arg(t) /\ q = pc[t] + 1
    <3>1. pc'[t] - 1 = pc[t]
      BY <1>1, <1>2, <2>3
    <3>2. QED
      BY <2>3, <3>1 DEF Arg
  <2>4. QED
    BY <2>2, <2>3
<1>9. PastDone'
  <2>1. SUFFICES ASSUME NEW u \in Threads, ~Killed(u)', NEW i \in 1..(pc'[u] - 1),
                        code[u][i].op = "wait", st'[u] = "sleep" => i < pc'[u] - 1
                 PROVE  st'[code[u][i].t] = "done"
    BY <1>1 DEF PastDone
  <2>2. ~Killed(u)
    BY <1>5, <2>1
  <2>3. CASE i \in 1..(pc[u] - 1) /\ (st[u] = "sleep" => i < pc[u] - 1)
    <3>1. st[code[u][i].t] = "done"
      BY <2>1, <2>2, <2>3 DEF Joins, PastDone
    <3>2. code[u][i].t \in Threads
      BY <1>1, <2>1, <2>3, ArgIsThread
    <3>3. QED
      BY <1>6, <3>1, <3>2
  <2>4. CASE u # t
    <3>1. pc'[u] = pc[u] /\ (st'[u] = st[u] \/ (st[u] = "none" /\ st'[u] = "ready"))
      BY <1>2, <2>1, <2>4
    <3>2. QED
      BY <2>1, <2>3, <3>1
  <2>5. CASE u = t /\ i < pc[t]
    BY <1>1, <1>4, <2>3, <2>5
  <2>6. CASE u = t /\ i = pc[t]
    <3>1. ~(st'[t] = "sleep" /\ q = pc[t] + 1)
      BY <1>1, <1>2, <2>1, <2>6
    <3>2. st[Arg(t)] = "done"
      BY <1>1, <2>1, <2>6, <3>1
    <3>3. Arg(t) \in Threads
      BY <1>1, <2>1, <2>6, FlatSteps DEF Arg, Runs, InCode
    <3>4. QED
      BY <1>6, <2>6, <3>2, <3>3 DEF Arg
  <2>7. CASE u = t /\ i > pc[t]
    <3>1. i \in (pc[t] + 1)..(q - 1)
      BY <1>1, <1>2, <1>3, <2>7
    <3>2. QED
      BY <2>1, <2>7, <3>1 DEF Moves
  <2>8. QED
    BY <1>1, <2>4, <2>5, <2>6, <2>7
<1>10. QED
  BY <1>7, <1>8, <1>9

(* The same of a step that leaves every thread at its place: whoever is    *)
(* woken was waiting for a thread that ends.                               *)
LEMMA SwitchJoins ==
  ASSUME Joins, UNCHANGED <<code, pc>>,
         \A u \in Threads : st[u] = "done" => st'[u] = "done",
         \A u \in Threads : st'[u] = "done" => st[u] = "done" \/ result'[u] = u,
         \A u \in Threads : result[u] = u => result'[u] = u,
         \A u \in Threads : st'[u] = "sleep" => st[u] = "sleep",
         \A u \in Threads : \A w \in ToSet(waiters'[u]) : w \in ToSet(waiters[u]) /\ w \in Threads,
         \A u \in Threads : st[u] = "sleep" =>
            \/ st'[u] = "sleep"
            \/ \E k \in Threads : /\ u \in ToSet(waiters[k]) /\ st'[k] = "done"
                                  /\ u \notin ToSet(waiters'[k])
  PROVE  DoneHow' /\ WaitersWait' /\ PastDone'
<1>1. \A k : Killed(k)' <=> Killed(k)
  BY DEF Killed
<1>2. DoneHow'
  BY <1>1 DEF Joins, DoneHow
<1>3. WaitersWait'
  <2>1. SUFFICES ASSUME NEW u \in Threads, NEW w \in ToSet(waiters'[u])
                 PROVE  st'[w] = "done" \/ (st'[w] = "sleep" /\ code[w][pc[w] - 1].t = u)
    BY DEF WaitersWait
  <2>2. w \in Threads /\ w \in ToSet(waiters[u])
    OBVIOUS
  <2>3. st[w] = "done" \/ (st[w] = "sleep" /\ code[w][pc[w] - 1].t = u)
    BY <2>2 DEF Joins, WaitersWait
  <2>4. ASSUME st[w] = "sleep", NEW k \in Threads, w \in ToSet(waiters[k]), w \notin ToSet(waiters'[k])
        PROVE  FALSE
    <3>1. code[w][pc[w] - 1].t = k
      BY <2>4 DEF Joins, WaitersWait
    <3>2. k = u
      BY <2>3, <2>4, <3>1
    <3>3. QED
      BY <2>4, <3>2
  <2>5. QED
    BY <2>2, <2>3, <2>4
<1>4. PastDone'
  <2>1. SUFFICES ASSUME NEW u \in Threads, ~Killed(u), NEW i \in 1..(pc[u] - 1),
                        code[u][i].op = "wait", st'[u] = "sleep" => i < pc[u] - 1
                 PROVE  st'[code[u][i].t] = "done"
    BY <1>1 DEF PastDone
  <2>2. code[u][i].t \in Threads /\ pc[u] \in Nat
    BY <2>1, ArgIsThread DEF Joins, Runs, Types
  <2>3. CASE st[u] = "sleep" => i < pc[u] - 1
    BY <2>1, <2>2, <2>3 DEF Joins, PastDone
  <2>4. CASE st[u] = "sleep" /\ ~(i < pc[u] - 1)
    <3>1. i = pc[u] - 1
      BY <2>2, <2>4
    <3>2. PICK k \in Threads : u \in ToSet(waiters[k]) /\ st'[k] = "done"
      BY <2>1, <2>4
    <3>3. code[u][pc[u] - 1].t = k
      BY <2>4, <3>2 DEF Joins, WaitersWait
    <3>4. QED
      BY <3>1, <3>2, <3>3
  <2>5. QED
    BY <2>3, <2>4
<1>5. QED
  BY <1>2, <1>3, <1>4

(* Every step keeps what threads that wait rely on.                        *)
LEMMA JoinsKept == Joins /\ [Next]_vars => Joins'
<1> SUFFICES ASSUME Joins, [Next]_vars PROVE DoneHow' /\ WaitersWait' /\ PastDone'
  BY RunsKept DEF Joins
<1>r. Runs /\ Runs'
  BY RunsKept DEF Joins
<1>0. /\ st \in [Threads -> {"none", "ready", "run", "sleep", "done"}]
      /\ waiters \in [Threads -> Seq(Threads)] /\ waiters' \in [Threads -> Seq(Threads)]
      /\ result \in [Threads -> Threads \cup {NULL}]
      /\ \A u \in Threads : st[u] = "run" <=> cur = u
      /\ NULL \notin Threads
  BY <1>r, ConstructsAssumption DEF Runs, Types, InCode
<1>w. \A u \in Threads : \A w \in ToSet(waiters[u]) : w \in Threads
  BY <1>0 DEF ToSet
<1>1. ASSUME NEW t \in Threads, Spawn(t) PROVE DoneHow' /\ WaitersWait' /\ PastDone'
  <2>1. /\ Does(t, "spawn") /\ st[Arg(t)] = "none" /\ st' = [st EXCEPT ![Arg(t)] = "ready"]
        /\ Step(t) /\ waiters' = waiters /\ result' = result
    BY <1>1 DEF Spawn
  <2>2. Moves(t, pc[t] + 1)
    BY <1>r, <2>1, StepMoves
  <2>3. st[t] = "run"
    BY <1>r, <2>1, AtCall
  <2>4. \A u \in Threads : st'[u] = st[u] \/ (st[u] = "none" /\ st'[u] = "ready")
    BY <1>0, <2>1
  <2>5. QED
    BY <1>0, <2>1, <2>2, <2>3, <2>4, CallJoins
<1>2. ASSUME NEW t \in Threads, Wait(t) PROVE DoneHow' /\ WaitersWait' /\ PastDone'
  <2>1. /\ Does(t, "wait") /\ Step(t) /\ result' = result
        /\ \/ st[Arg(t)] = "done" /\ st' = st /\ waiters' = waiters
           \/ /\ st' = [st EXCEPT ![t] = "sleep"]
              /\ waiters' = [waiters EXCEPT ![Arg(t)] = Append(@, t)]
    BY <1>2 DEF Wait
  <2>2. Moves(t, pc[t] + 1)
    BY <1>r, <2>1, StepMoves
  <2>3. /\ st'[t] \in {st[t], "sleep"} /\ \A u \in Threads \ {t} : st'[u] = st[u]
        /\ st[Arg(t)] = "done" \/ st'[t] = "sleep"
    BY <1>0, <2>1
  <2>4. \A u \in Threads : \A w \in ToSet(waiters'[u]) :
          \/ w \in ToSet(waiters[u])
          \/ w = t /\ st'[t] = "sleep" /\ u = Arg(t)
    <3>1. SUFFICES ASSUME NEW u \in Threads, NEW w \in ToSet(waiters'[u]), w \notin ToSet(waiters[u])
                   PROVE  w = t /\ st'[t] = "sleep" /\ u = Arg(t)
      OBVIOUS
    <3>2. /\ st' = [st EXCEPT ![t] = "sleep"]
          /\ waiters' = [waiters EXCEPT ![Arg(t)] = Append(@, t)]
      BY <2>1, <3>1
    <3>3. u = Arg(t) /\ waiters'[u] = Append(waiters[u], t)
      BY <1>0, <3>1, <3>2
    <3>4. w = t
      <4>1. PICK i \in 1..(Len(waiters[u]) + 1) : w = Append(waiters[u], t)[i]
        BY <1>0, <3>1, <3>3 DEF ToSet
      <4>2. CASE i \in 1..Len(waiters[u])
        <5>1. w = waiters[u][i] /\ i \in DOMAIN waiters[u]
          BY <1>0, <4>1, <4>2
        <5>2. QED
          BY <3>1, <5>1 DEF ToSet
      <4>3. CASE i = Len(waiters[u]) + 1
        BY <1>0, <4>1, <4>3
      <4>4. Len(waiters[u]) \in Nat
        BY <1>0
      <4>5. QED
        BY <4>2, <4>3, <4>4
    <3>5. QED
      BY <1>0, <3>2, <3>3, <3>4
  <2>5. QED
    BY <1>0, <2>1, <2>2, <2>3, <2>4, CallJoins
<1>3. ASSUME NEW t \in Threads, Kill(t) PROVE DoneHow' /\ WaitersWait' /\ PastDone'
  <2>1. /\ Does(t, "kill") /\ st' = [st EXCEPT ![Arg(t)] = "done"]
        /\ Step(t) /\ waiters' = waiters /\ result' = result
    BY <1>3 DEF Kill
  <2>2. Moves(t, pc[t] + 1)
    BY <1>r, <2>1, StepMoves
  <2>3. /\ code' = code /\ code[t][pc[t]].op = "kill" /\ pc[t] \in 1..Len(code[t])
        /\ Len(code[t]) \in Nat
    BY <1>r, <2>1, AtCall
  <2>4. Arg(t) \in Threads /\ Arg(t) # t
    BY <1>r, <2>1, KillsOther
  <2>k. PICK k \in Threads : k = Arg(t)
    BY <2>4
  <2>5. Killed(k)'
    <3>1. pc'[t] = pc[t] + 1
      BY <1>r, <2>2, <2>3, MoveKeeps
    <3>2. pc[t] \in 1..(pc'[t] - 1)
      BY <2>3, <3>1
    <3>3. QED
      BY <2>3, <2>k, <3>2 DEF Killed, Arg
  <2>6. \A u \in Threads : st'[u] = IF u = k THEN "done" ELSE st[u]
    BY <1>0, <2>1, <2>k
  <2>7. \A u \in Threads \ {t} : st'[u] = st[u] \/ (st'[u] = "done" /\ Killed(u)')
    BY <2>5, <2>6
  <2>8. QED
    BY <1>0, <2>1, <2>2, <2>4, <2>k, <2>6, <2>7, CallJoins
<1>4. ASSUME NEW t \in Threads, NEW op, NEW q, Does(t, op), Moves(t, q), op # "wait",
             UNCHANGED <<st, waiters, result>>
      PROVE  DoneHow' /\ WaitersWait' /\ PastDone'
  BY <1>0, <1>4, CallJoins
<1>5. ASSUME NEW t \in Threads, Lock(t) \/ WorkOn(t) PROVE DoneHow' /\ WaitersWait' /\ PastDone'
  <2>1. PICK op \in {"lock", "work"} : Does(t, op) /\ Step(t) /\ UNCHANGED <<st, waiters, result>>
    BY <1>5 DEF Lock, WorkOn
  <2>2. Moves(t, pc[t] + 1)
    BY <1>r, <2>1, StepMoves
  <2>3. QED
    BY <1>4, <2>1, <2>2
<1>6. ASSUME NEW t \in Threads, Unlock(t) PROVE DoneHow' /\ WaitersWait' /\ PastDone'
  <2>1. Does(t, "unlock") /\ UNCHANGED <<st, waiters, result>>
    BY <1>6 DEF Unlock
  <2>2. Depth(t) = 1
    BY <1>r, <2>1, AtCall, FlatSteps
  <2>3. throws'[t] = FALSE
    <3>1. (throws[t] /\ Depth(t) > 1) = FALSE
      BY <2>2
    <3>2. throws' = [throws EXCEPT ![t] = FALSE]
      BY <1>6, <3>1 DEF Unlock
    <3>3. QED
      BY <1>r, <3>2 DEF Runs, Types
  <2>4. Step(t)
    BY <1>6, <2>3 DEF Unlock, Step
  <2>5. Moves(t, pc[t] + 1)
    BY <1>r, <2>1, <2>4, StepMoves
  <2>6. QED
    BY <1>4, <2>1, <2>5
<1>7. ASSUME NEW t \in Threads, Throw(t) PROVE DoneHow' /\ WaitersWait' /\ PastDone'
  <2>1. Does(t, "work") /\ UNCHANGED <<st, waiters, result>>
    BY <1>7 DEF Throw
  <2>2. Moves(t, HandlerOf(t, pc[t]))
    BY <1>r, <1>7, ThrowMoves
  <2>3. QED
    BY <1>4, <2>1, <2>2
<1>8. ASSUME NEW t \in Threads, Return(t) PROVE DoneHow' /\ WaitersWait' /\ PastDone'
  <2>1. result' = [result EXCEPT ![t] = t] /\ UNCHANGED <<code, st, pc, waiters>>
    BY <1>8 DEF Return
  <2>2. \A u \in Threads : result[u] = u => result'[u] = u
    BY <1>0, <2>1
  <2>3. QED
    BY <1>w, <2>1, <2>2, SwitchJoins
<1>9. ASSUME NEW t \in Threads, End(t) PROVE DoneHow' /\ WaitersWait' /\ PastDone'
  <2>1. /\ result[t] = t
        /\ st' = [u \in Threads |-> IF u = t THEN "done"
                              ELSE IF u \in ToSet(waiters[t]) /\ st[u] = "sleep" THEN "ready"
                              ELSE st[u]]
        /\ waiters' = [waiters EXCEPT ![t] = <<>>]
        /\ UNCHANGED <<code, pc, result>>
    BY <1>9 DEF End
  <2>2. ToSet(<<>>) = {}
    BY DEF ToSet
  <2>3. \A u \in Threads : ToSet(waiters'[u]) = IF u = t THEN {} ELSE ToSet(waiters[u])
    BY <1>0, <2>1, <2>2
  <2>4. \A u \in Threads : st'[u] = IF u = t THEN "done"
                              ELSE IF u \in ToSet(waiters[t]) /\ st[u] = "sleep" THEN "ready"
                              ELSE st[u]
    BY <2>1
  <2>5. /\ \A u \in Threads : st[u] = "done" => st'[u] = "done"
        /\ \A u \in Threads : st'[u] = "done" => st[u] = "done" \/ result'[u] = u
        /\ \A u \in Threads : st'[u] = "sleep" => st[u] = "sleep"
        /\ \A u \in Threads : st[u] = "sleep" =>
            \/ st'[u] = "sleep"
            \/ u \in ToSet(waiters[t]) /\ st'[t] = "done" /\ u \notin ToSet(waiters'[t])
    <3>1. st[t] = "run"
      BY <1>0, <1>9 DEF End
    <3>2. QED
      BY <2>1, <2>3, <2>4, <3>1
  <2>6. QED
    BY <1>w, <2>1, <2>3, <2>5, SwitchJoins
<1>10. ASSUME NEW t \in Threads, Dispatch(t) \/ Preempt(t)
       PROVE DoneHow' /\ WaitersWait' /\ PastDone'
  <2>1. /\ st[t] \in {"ready", "run"} /\ UNCHANGED <<code, pc, waiters, result>>
        /\ st' = [st EXCEPT ![t] = "run"] \/ st' = [st EXCEPT ![t] = "ready"]
    BY <1>0, <1>10 DEF Dispatch, Preempt
  <2>2. \A u \in Threads : st'[u] = st[u] \/ (u = t /\ st'[u] \in {"ready", "run"})
    BY <1>0, <2>1
  <2>3. QED
    BY <1>w, <2>1, <2>2, SwitchJoins
<1>11. CASE UNCHANGED vars
  <2>1. UNCHANGED <<code, st, pc, waiters, result>>
    BY <1>11 DEF vars
  <2>2. QED
    BY <1>w, <2>1, SwitchJoins
<1>12. QED
  BY <1>1, <1>2, <1>3, <1>5, <1>6, <1>7, <1>8, <1>9, <1>10, <1>11 DEF Next, Run

(* Behind a par or pfor block and behind Result::value() the threads that  *)
(* were waited for (the pWait calls that TranslatePar and TranslatePfor    *)
(* generate) are done, with their results stored, or killed.               *)
THEOREM JoinsSound == ASSUME ProperPrograms PROVE Spec => []JoinsSeeResults
<1>1. Init => Joins
  <2> SUFFICES ASSUME Init PROVE DoneHow /\ WaitersWait /\ PastDone
    BY RunsAtFirst DEF Joins
  <2>1. /\ st = [t \in Threads |-> IF t = Main THEN "ready" ELSE "none"]
        /\ pc = [t \in Threads |-> 1] /\ waiters = [t \in Threads |-> <<>>]
    BY DEF Init
  <2>2. ToSet(<<>>) = {}
    BY DEF ToSet
  <2>3. QED
    BY <2>1, <2>2 DEF DoneHow, WaitersWait, PastDone
<1>2. Joins => JoinsSeeResults
  <2> SUFFICES ASSUME Joins, NEW t \in Threads, ~Killed(t), NEW i \in DOMAIN code[t],
                      PastWait(t, i)
               PROVE  LET k == code[t][i].t IN st[k] = "done" /\ (result[k] = k \/ Killed(k))
    BY DEF JoinsSeeResults
  <2>1. pc[t] \in Nat /\ DOMAIN code[t] = 1..Len(code[t]) /\ Len(code[t]) \in Nat
    BY DEF Joins, Runs, Types, InCode, Proper
  <2>2. i \in 1..(pc[t] - 1) /\ code[t][i].op = "wait" /\ (st[t] = "sleep" => i < pc[t] - 1)
    BY <2>1 DEF PastWait
  <2>3. st[code[t][i].t] = "done"
    BY <2>2 DEF Joins, PastDone
  <2>4. code[t][i].t \in Threads
    BY <2>2, ArgIsThread DEF Joins
  <2>5. QED
    BY <2>3, <2>4 DEF Joins, DoneHow
<1>3. QED
  BY <1>1, <1>2, JoinsKept, PTL DEF Spec

-----------------------------------------------------------------------------
(* What the execution asks of the scheduler.                               *)

(* Each step of a program is one that Sched allows.                        *)
LEMMA StepsOnSched ==
  Runs /\ [Next]_vars => [Scheduler!Next]_<<st, cur, locked>>
<1> SUFFICES ASSUME Runs, [Next]_vars PROVE [Scheduler!Next]_<<st, cur, locked>>
  OBVIOUS
<1>0. /\ st \in [Threads -> {"none", "ready", "run", "sleep", "done"}]
      /\ cur \in Threads \cup {NULL}
      /\ \A u \in Threads : st[u] = "run" <=> cur = u
      /\ NULL \notin Threads /\ DOMAIN st = Threads
  BY ConstructsAssumption DEF Runs, Types, InCode
<1>r. st' \in [Threads -> {"none", "ready", "run", "sleep", "done"}] /\ DOMAIN st' = DOMAIN st
  BY <1>0, RunsKept DEF Runs, Types
<1>1. ASSUME NEW t \in Threads, cur = t, cur' = cur, st'[t] = "run",
             \A u \in Threads \ {t} : \/ st'[u] = st[u]
                                      \/ st[u] = "none" /\ st'[u] = "ready"
                                      \/ st[u] # "none" /\ st'[u] = "done"
      PROVE  Scheduler!Next
  BY <1>0, <1>r, <1>1 DEF Scheduler!Next, Scheduler!Call, Scheduler!Stirs, Scheduler!Blocked
<1>2. ASSUME NEW t \in Threads, cur = t, cur' = NULL, st'[t] \in {"ready", "sleep", "done"},
             \A u \in Threads \ {t} : \/ st'[u] = st[u]
                                      \/ st[u] = "sleep" /\ st'[u] = "ready"
      PROVE  Scheduler!Next
  BY <1>0, <1>r, <1>2 DEF Scheduler!Next, Scheduler!GiveUp, Scheduler!Stirs, Scheduler!Blocked
<1>3. ASSUME NEW t \in Threads, Spawn(t) PROVE Scheduler!Next
  <2>1. /\ Does(t, "spawn") /\ st[Arg(t)] = "none" /\ st' = [st EXCEPT ![Arg(t)] = "ready"]
        /\ cur' = cur
    BY <1>3 DEF Spawn
  <2>2. cur = t /\ st[t] = "run"
    BY <2>1, AtCall
  <2>3. st'[t] = "run" /\ \A u \in Threads : st'[u] = st[u] \/ (st[u] = "none" /\ st'[u] = "ready")
    BY <1>0, <2>1, <2>2
  <2>4. QED
    BY <1>1, <2>1, <2>2, <2>3
<1>4. ASSUME NEW t \in Threads, Wait(t) PROVE Scheduler!Next
  <2>1. /\ Does(t, "wait")
        /\ \/ st' = st /\ cur' = cur
           \/ st' = [st EXCEPT ![t] = "sleep"] /\ cur' = NULL
    BY <1>4 DEF Wait
  <2>2. cur = t /\ st[t] = "run"
    BY <2>1, AtCall
  <2>3. CASE st' = st /\ cur' = cur
    BY <1>1, <2>2, <2>3
  <2>4. CASE st' = [st EXCEPT ![t] = "sleep"] /\ cur' = NULL
    <3>1. st'[t] = "sleep" /\ \A u \in Threads \ {t} : st'[u] = st[u]
      BY <1>0, <2>4
    <3>2. QED
      BY <1>2, <2>2, <2>4, <3>1
  <2>5. QED
    BY <2>1, <2>3, <2>4
<1>5. ASSUME NEW t \in Threads, Kill(t) PROVE Scheduler!Next
  <2>1. Does(t, "kill") /\ st' = [st EXCEPT ![Arg(t)] = "done"] /\ cur' = cur
    BY <1>5 DEF Kill
  <2>2. cur = t /\ st[t] = "run"
    BY <2>1, AtCall
  <2>3. Arg(t) \in Threads /\ Arg(t) # t /\ st[Arg(t)] # "none"
    BY <2>1, KillsOther
  <2>4. st'[t] = "run" /\ \A u \in Threads : st'[u] = st[u] \/ (st[u] # "none" /\ st'[u] = "done")
    BY <1>0, <2>1, <2>2, <2>3
  <2>5. QED
    BY <1>1, <2>1, <2>2, <2>4
<1>6. ASSUME NEW t \in Threads, Lock(t) \/ Unlock(t) \/ WorkOn(t) \/ Throw(t) \/ Return(t)
      PROVE  Scheduler!Next
  <2>1. cur = t /\ UNCHANGED <<st, cur>>
    BY <1>6 DEF Lock, Unlock, WorkOn, Throw, Return, Does
  <2>2. QED
    BY <1>0, <1>1, <2>1
<1>7. ASSUME NEW t \in Threads, End(t) PROVE Scheduler!Next
  <2>1. /\ cur = t /\ cur' = NULL
        /\ st' = [u \in Threads |-> IF u = t THEN "done"
                              ELSE IF u \in ToSet(waiters[t]) /\ st[u] = "sleep" THEN "ready"
                              ELSE st[u]]
    BY <1>7 DEF End
  <2>2. /\ st'[t] = "done"
        /\ \A u \in Threads \ {t} : st'[u] = st[u] \/ (st[u] = "sleep" /\ st'[u] = "ready")
    BY <2>1
  <2>3. QED
    BY <1>2, <2>1, <2>2
<1>8. ASSUME NEW t \in Threads, Dispatch(t) PROVE Scheduler!Next
  <2>1. /\ cur = NULL /\ st[t] = "ready" /\ cur' = t /\ ~locked'
        /\ st'[t] = "run" /\ \A u \in Threads \ {t} : st'[u] = st[u]
    BY <1>0, <1>8 DEF Dispatch
  <2>2. QED
    BY <1>0, <1>r, <2>1 DEF Scheduler!Next, Scheduler!Idle, Scheduler!TakesOver, Scheduler!Stirs
<1>9. ASSUME NEW t \in Threads, Preempt(t) PROVE Scheduler!Next
  <2>1. cur = t /\ cur' = NULL /\ st'[t] = "ready" /\ \A u \in Threads \ {t} : st'[u] = st[u]
    BY <1>0, <1>9 DEF Preempt
  <2>2. QED
    BY <1>2, <2>1
<1>10. CASE UNCHANGED vars
  BY <1>10 DEF vars
<1>11. QED
  BY <1>3, <1>4, <1>5, <1>6, <1>7, <1>8, <1>9, <1>10 DEF Next, Run

(* Programs that use the constructs ask nothing of the scheduler but what  *)
(* Sched promises: in particular a Result::kill() is only ever of another  *)
(* thread, that exists.                                                    *)
THEOREM ConstructsRunOnSched == ASSUME ProperPrograms PROVE Spec => RunsOnSched
<1>1. Init => Runs
  BY RunsAtFirst
<1>2. Init => Scheduler!Init
  BY DEF Init, Scheduler!Init
<1>3. QED
  BY <1>1, <1>2, RunsKept, StepsOnSched, PTL DEF Spec, RunsOnSched, Scheduler!Spec

-----------------------------------------------------------------------------
(* The code that the translator generates is of the form supposed.         *)

(* Code put together from code: a block, then the next.                    *)
LEMMA FlatConcat ==
  ASSUME NEW a \in Seq(Instrs), NEW b \in Seq(Instrs), Flat(a), Flat(b)
  PROVE  Flat(a \o b)
<1> DEFINE c == a \o b
<1>1. c \in Seq(Instrs) /\ Len(c) = Len(a) + Len(b) /\ Len(a) \in Nat /\ Len(b) \in Nat
  OBVIOUS
<1>2. \A i \in 1..Len(c) : c[i] = IF i <= Len(a) THEN a[i] ELSE b[i - Len(a)]
  OBVIOUS
<1>3. DOMAIN a = 1..Len(a) /\ DOMAIN b = 1..Len(b) /\ DOMAIN c = 1..Len(c)
  BY <1>1
<1>c. c = <<>> <=> Len(c) = 0
  BY <1>1
<1>ab. (a = <<>> <=> Len(a) = 0) /\ (b = <<>> <=> Len(b) = 0)
  OBVIOUS
<1> HIDE DEF c
<1>4. c = <<>> \/ c[1].d = 0
  BY <1>1, <1>2, <1>c, <1>ab DEF Flat
<1>5. ASSUME NEW i \in DOMAIN c
      PROVE \/ /\ c[i].d = 0
               /\ \/ c[i].op \in {"spawn", "wait", "kill"} /\ c[i].t \in Threads
                  \/ c[i].op = "work"
               /\ i < Len(c) => c[i + 1].d = 0
            \/ c[i].d = 0 /\ c[i].op = "lock" /\ i < Len(c) /\ c[i + 1].d = 1
            \/ /\ c[i].d = 1 /\ (\E j \in i..Len(c) : Method(c, i, j))
               /\ c[i].op = "unlock" /\ i < Len(c) => c[i + 1].d = 0
  <2>1. CASE i <= Len(a)
    <3>1. i \in DOMAIN a /\ c[i] = a[i] /\ (i < Len(a) => c[i + 1] = a[i + 1])
      BY <1>1, <1>2, <1>3, <2>1
    <3>2. i = Len(a) /\ i < Len(c) => c[i + 1].d = 0
      <4>1. SUFFICES ASSUME i = Len(a), i < Len(c) PROVE c[i + 1].d = 0
        OBVIOUS
      <4>2. c[i + 1] = b[1] /\ b # <<>>
        BY <1>1, <1>2, <1>3, <1>ab, <4>1
      <4>3. QED
        BY <4>2 DEF Flat
    <3>3. ASSUME NEW j \in i..Len(a), Method(a, i, j)
          PROVE  j \in i..Len(c) /\ Method(c, i, j)
      <4>1. \A m \in i..j : c[m] = a[m] /\ m \in 1..Len(a)
        BY <1>1, <1>2, <1>3, <3>1, <3>3
      <4>2. j \in i..Len(c) /\ i \in Nat /\ j \in Nat
        BY <1>1, <1>3, <3>1
      <4>3. QED
        BY <3>3, <4>1, <4>2 DEF Method
    <3>4. i < Len(a) => i < Len(c)
      BY <1>1, <1>3
    <3>5. ~(i < Len(a)) => i = Len(a)
      BY <1>1, <1>3, <2>1
    <3>6. \/ /\ a[i].d = 0
             /\ \/ a[i].op \in {"spawn", "wait", "kill"} /\ a[i].t \in Threads
                \/ a[i].op = "work"
             /\ i < Len(a) => a[i + 1].d = 0
          \/ a[i].d = 0 /\ a[i].op = "lock" /\ i < Len(a) /\ a[i + 1].d = 1
          \/ /\ a[i].d = 1 /\ (\E j \in i..Len(a) : Method(a, i, j))
             /\ a[i].op = "unlock" /\ i < Len(a) => a[i + 1].d = 0
      BY <3>1 DEF Flat
    <3>7. QED
      BY <3>1, <3>2, <3>3, <3>4, <3>5, <3>6
  <2>2. CASE i > Len(a)
    <3> DEFINE k == i - Len(a)
    <3>1. /\ k \in DOMAIN b /\ c[i] = b[k] /\ (k < Len(b) <=> i < Len(c))
          /\ k < Len(b) => c[i + 1] = b[k + 1]
      BY <1>1, <1>2, <1>3, <2>2
    <3>2. ASSUME NEW j \in k..Len(b), Method(b, k, j)
          PROVE  \E l \in i..Len(c) : Method(c, i, l)
      <4>1. j + Len(a) \in i..Len(c) /\ k \in Nat /\ j \in Nat
        BY <1>1, <1>3, <2>2
      <4>2. \A m \in i..(j + Len(a)) : c[m] = b[m - Len(a)] /\ m - Len(a) \in k..j
        BY <1>1, <1>2, <1>3, <2>2, <4>1
      <4>3. \A m \in i..((j + Len(a)) - 1) : m \in i..(j + Len(a)) /\ m - Len(a) \in k..(j - 1)
        BY <1>1, <1>3, <2>2, <4>1
      <4>4. c[j + Len(a)] = b[j]
        BY <1>1, <1>3, <4>1, <4>2
      <4>5. Method(c, i, j + Len(a))
        BY <3>2, <4>2, <4>3, <4>4 DEF Method
      <4>6. QED
        BY <4>1, <4>5
    <3> HIDE DEF k
    <3>3. \/ /\ b[k].d = 0
             /\ \/ b[k].op \in {"spawn", "wait", "kill"} /\ b[k].t \in Threads
                \/ b[k].op = "work"
             /\ k < Len(b) => b[k + 1].d = 0
          \/ b[k].d = 0 /\ b[k].op = "lock" /\ k < Len(b) /\ b[k + 1].d = 1
          \/ /\ b[k].d = 1 /\ (\E j \in k..Len(b) : Method(b, k, j))
             /\ b[k].op = "unlock" /\ k < Len(b) => b[k + 1].d = 0
      BY <3>1 DEF Flat
    <3>4. QED
      BY <3>1, <3>2, <3>3
  <2>3. QED
    BY <1>1, <1>3, <2>1, <2>2
<1>6. QED
  BY <1>4, <1>5 DEF Flat, c

(* Calls of the thread interface, one per thread.                          *)
LEMMA FlatCalls ==
  ASSUME NEW op \in {"spawn", "wait", "kill"}, NEW ts \in Seq(Threads)
  PROVE  Each(op, ts) \in Seq(Instrs) /\ Flat(Each(op, ts))
<1> DEFINE c == Each(op, ts)
<1>1. Len(ts) \in Nat /\ DOMAIN ts = 1..Len(ts) /\ \A i \in 1..Len(ts) : ts[i] \in Threads
  OBVIOUS
<1>2. c = [i \in 1..Len(ts) |-> [op |-> op, t |-> ts[i], d |-> 0]]
  BY <1>1 DEF Each, Instr
<1>3. \A i \in 1..Len(ts) : [op |-> op, t |-> ts[i], d |-> 0] \in Instrs
  BY <1>1 DEF Instrs
<1>4. c \in Seq(Instrs) /\ Len(c) = Len(ts) /\ DOMAIN c = 1..Len(ts)
  BY <1>1, <1>2, <1>3
<1>5. \A i \in 1..Len(ts) : c[i].op = op /\ c[i].t = ts[i] /\ c[i].d = 0
  BY <1>2
<1>6. c = <<>> \/ c[1].d = 0
  BY <1>4, <1>5
<1> HIDE DEF c
<1>7. Flat(c)
  <2>1. ASSUME NEW i \in DOMAIN c
        PROVE /\ c[i].d = 0 /\ c[i].op \in {"spawn", "wait", "kill"} /\ c[i].t \in Threads
              /\ i < Len(c) => c[i + 1].d = 0
    <3>1. i < Len(c) => i + 1 \in 1..Len(ts)
      BY <1>1, <1>4
    <3>2. QED
      BY <1>1, <1>4, <1>5, <3>1
  <2>2. QED
    BY <1>6, <2>1 DEF Flat
<1>8. QED
  BY <1>4, <1>7 DEF c

(* The blocks of TranslatePar and TranslatePfor.                           *)
LEMMA FlatBlocks ==
  ASSUME NEW kids \in Seq(Threads)
  PROVE  /\ Par(kids) \in Seq(Instrs) /\ Flat(Par(kids))
         /\ Pfor(kids) \in Seq(Instrs) /\ Flat(Pfor(kids))
<1>1. Reverse(kids) \in Seq(Threads)
  <2>1. Reverse(kids) = [i \in 1..Len(kids) |-> kids[(Len(kids) - i) + 1]]
    BY DEF Reverse
  <2>2. \A i \in 1..Len(kids) : (Len(kids) - i) + 1 \in 1..Len(kids)
    OBVIOUS
  <2>3. QED
    BY <2>1, <2>2
<1>2. Each("spawn", kids) \in Seq(Instrs) /\ Flat(Each("spawn", kids))
  BY FlatCalls
<1>3. Each("wait", kids) \in Seq(Instrs) /\ Flat(Each("wait", kids))
  BY FlatCalls
<1>4. Each("wait", Reverse(kids)) \in Seq(Instrs) /\ Flat(Each("wait", Reverse(kids)))
  BY <1>1, FlatCalls
<1>5. QED
  BY <1>2, <1>3, <1>4, FlatConcat DEF Par, Pfor

(* The wrapper of makeWrapperBody around a method that only works.         *)
LEMMA FlatMethod ==
  ASSUME NEW w \in Seq({Instr("work", NULL)})
  PROVE  MutexCall(w) \in Seq(Instrs) /\ Flat(MutexCall(w))
<1> DEFINE n == Len(w)
           inside == Append(w, Instr("unlock", NULL))
           deep == [i \in DOMAIN inside |-> [inside[i] EXCEPT !.d = @ + 1]]
           L == Instr("lock", NULL)
           c == MutexCall(w)
<1>1. n \in Nat /\ \A i \in 1..n : w[i] = Instr("work", NULL)
  OBVIOUS
<1>2. /\ DOMAIN inside = 1..(n + 1)
      /\ \A i \in 1..(n + 1) : inside[i] = IF i <= n THEN Instr("work", NULL) ELSE Instr("unlock", NULL)
  BY <1>1
<1>3. \A i \in 1..(n + 1) : deep[i] = [op |-> IF i <= n THEN "work" ELSE "unlock", t |-> NULL, d |-> 1]
  BY <1>2 DEF Instr
<1>4. \A i \in 1..(n + 1) : deep[i] \in Instrs
  <2>1. \A x \in {"work", "unlock"} : [op |-> x, t |-> NULL, d |-> 1] \in Instrs
    BY DEF Instrs
  <2>2. QED
    BY <1>3, <2>1
<1>5. deep = [i \in 1..(n + 1) |-> deep[i]]
  BY <1>2
<1>6. c = <<L>> \o deep
  BY DEF MutexCall
<1> HIDE DEF deep, inside, n
<1>7. deep \in Seq(Instrs) /\ Len(deep) = n + 1
  BY <1>1, <1>4, <1>5
<1>8. L \in Instrs /\ L.op = "lock" /\ L.d = 0
  BY DEF Instr, Instrs
<1> HIDE DEF c, L
<1>9. c \in Seq(Instrs) /\ Len(c) = n + 2 /\ DOMAIN c = 1..(n + 2)
  BY <1>1, <1>6, <1>7, <1>8
<1>10. \A i \in 1..(n + 2) : c[i] = IF i = 1 THEN L ELSE deep[i - 1]
  BY <1>1, <1>6, <1>7, <1>8
<1>11. c[1].op = "lock" /\ c[1].d = 0
  BY <1>1, <1>8, <1>10
<1>12. \A i \in 2..(n + 2) : c[i].d = 1 /\ c[i].op = IF i = n + 2 THEN "unlock" ELSE "work"
  <2>1. ASSUME NEW i \in 2..(n + 2)
        PROVE  c[i].d = 1 /\ c[i].op = IF i = n + 2 THEN "unlock" ELSE "work"
    <3>1. i - 1 \in 1..(n + 1) /\ (i - 1 <= n <=> i # n + 2) /\ i \in 1..(n + 2) /\ i # 1
      BY <1>1
    <3>2. c[i] = [op |-> IF i - 1 <= n THEN "work" ELSE "unlock", t |-> NULL, d |-> 1]
      BY <1>3, <1>10, <3>1
    <3>3. QED
      BY <3>1, <3>2
  <2>2. QED
    BY <2>1
<1>13. ASSUME NEW i \in DOMAIN c
       PROVE \/ c[i].d = 0 /\ c[i].op = "lock" /\ i < Len(c) /\ c[i + 1].d = 1
             \/ /\ c[i].d = 1 /\ (\E j \in i..Len(c) : Method(c, i, j))
                /\ c[i].op = "unlock" /\ i < Len(c) => c[i + 1].d = 0
  <2>1. CASE i = 1
    <3>1. 2 \in 2..(n + 2) /\ 1 < Len(c)
      BY <1>1, <1>9
    <3>2. QED
      BY <1>11, <1>12, <2>1, <3>1
  <2>2. CASE i # 1
    <3>1. i \in 2..(n + 2) /\ n + 2 \in i..Len(c) /\ n + 2 \in 2..(n + 2)
      BY <1>1, <1>9, <2>2
    <3>2. \A m \in i..((n + 2) - 1) : m \in 2..(n + 2) /\ m # n + 2
      BY <1>1, <3>1
    <3>3. Method(c, i, n + 2)
      BY <1>12, <3>1, <3>2 DEF Method
    <3>4. c[i].op = "unlock" => ~(i < Len(c))
      BY <1>1, <1>9, <1>12, <3>1
    <3>5. QED
      BY <1>12, <3>1, <3>3, <3>4
  <2>3. QED
    BY <2>1, <2>2
<1>14. Flat(c)
  BY <1>11, <1>13 DEF Flat
<1>15. QED
  BY <1>9, <1>14 DEF c

=============================================================================
