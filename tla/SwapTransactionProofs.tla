----------------------- MODULE SwapTransactionProofs ------------------------
(***************************************************************************)
(* What becomes of a swap transaction (SwapTransaction, SolanaRuntime) for *)
(* every request, every state of the user's accounts and every market.     *)
(*                                                                         *)
(* Execute folds over the instructions.  The first part shows, by          *)
(* induction over the prefixes, that a run of p \o q is one of p followed  *)
(* by one of q; the second follows the parts of a transaction in turn.     *)
(***************************************************************************)
EXTENDS SwapTransaction, PriorityFeeProofs, FiniteSetTheorems, WellFoundedInduction

(* Every non-empty set of naturals has a least element: induction without  *)
(* a predicate as a parameter.                                             *)
LEMMA LeastElement ==
  ASSUME NEW T \in SUBSET Nat, T # {}
  PROVE  \E n \in T : \A m \in T : n <= m
<1>1. PICK n \in T : \A m \in T : ~(<<m, n>> \in OpToRel(<, Nat))
  BY NatLessThanWellFounded, WFMin
<1>2. \A m \in T : <<m, n>> \in OpToRel(<, Nat) <=> m < n
  BY DEF OpToRel
<1>3. \A m \in T : n <= m
  <2> TAKE m \in T
  <2>1. m \in Nat /\ n \in Nat
    OBVIOUS
  <2>2. ~(m < n)
    BY <1>1, <1>2
  <2> QED
    BY <2>1, <2>2
<1> QED
  BY <1>3

LEMMA SetInduction ==
  ASSUME NEW P \in SUBSET Nat, 0 \in P, \A n \in P : n + 1 \in P
  PROVE  P = Nat
<1> SUFFICES ASSUME Nat \ P # {} PROVE FALSE
  OBVIOUS
<1>1. PICK n \in Nat \ P : \A m \in Nat \ P : n <= m
  BY LeastElement
<1>2. n # 0 /\ n - 1 \in Nat /\ n - 1 \notin Nat \ P
  BY <1>1
<1>3. n - 1 + 1 \in P
  BY <1>2
<1> QED
  BY <1>1, <1>3

-----------------------------------------------------------------------------
(* The fold of RunFrom takes the greatest index of a prefix.               *)
LEMMA MaxOfPrefix ==
  ASSUME NEW n \in Nat, NEW S \in SUBSET (1 .. n), n \in S
  PROVE  Max(S) = n
<1> DEFINE x == CHOOSE x \in S : \A y \in S : x >= y
<1>1. \E z \in S : \A y \in S : z >= y
  OBVIOUS
<1>2. x \in S /\ \A y \in S : x >= y
  BY <1>1
<1>3. Max(S) = x
  BY DEF Max
<1> HIDE DEF x
<1>4. x = n
  BY <1>2
<1> QED
  BY <1>3, <1>4

(* The equation of the function that RunFrom folds with.                   *)
FoldStep(iter, run, s, market) ==
    [T \in SUBSET DOMAIN s |->
        IF T = {} THEN run ELSE Step(iter[T \ {Max(T)}], s[Max(T)], market)]

LEMMA RunFromIsFold ==
  ASSUME NEW run, NEW s, NEW market
  PROVE  RunFrom(run, s, market) =
           (CHOOSE iter : iter = FoldStep(iter, run, s, market))[DOMAIN s]
  BY DEF RunFrom, FoldLeft, MapThenFoldSet, FoldStep

(* A trace of a run: its states, one after each instruction.               *)
IsTrace(trace, run, s, market) ==
    /\ trace[0] = run
    /\ \A i \in 1 .. Len(s) : trace[i] = Step(trace[i - 1], s[i], market)

(* There is a function that satisfies that equation.                       *)
LEMMA FoldStepHasFixpoint ==
  ASSUME NEW run, NEW X, NEW s \in Seq(X), NEW market
  PROVE  \E iter : iter = FoldStep(iter, run, s, market)
<1> DEFINE Fits(iter, n) ==
             iter = [T \in SUBSET (1 .. n) |->
                        IF T = {} THEN run ELSE Step(iter[T \ {Max(T)}], s[Max(T)], market)]
           P == {n \in Nat : \E iter : Fits(iter, n)}
<1>1. 0 \in P
  <2> DEFINE iter == [T \in SUBSET (1 .. 0) |-> run]
  <2>1. 1 .. 0 = {}
    OBVIOUS
  <2>2. Fits(iter, 0)
    BY <2>1
  <2> QED
    BY <2>2
<1>2. ASSUME NEW n \in P PROVE n + 1 \in P
  <2>1. PICK iter : Fits(iter, n)
    OBVIOUS
  <2> DEFINE next == [T \in SUBSET (1 .. n + 1) |->
                        IF n + 1 \in T THEN Step(iter[T \ {n + 1}], s[n + 1], market)
                                       ELSE iter[T]]
  <2>2. n \in Nat /\ n + 1 \in Nat
    OBVIOUS
  <2>3. next = [T \in SUBSET (1 .. n + 1) |->
                  IF T = {} THEN run ELSE Step(next[T \ {Max(T)}], s[Max(T)], market)]
    <3> SUFFICES ASSUME NEW T \in SUBSET (1 .. n + 1)
                 PROVE  next[T] = IF T = {} THEN run
                                  ELSE Step(next[T \ {Max(T)}], s[Max(T)], market)
      OBVIOUS
    <3>1. CASE n + 1 \in T
      <4>1. Max(T) = n + 1
        BY <2>2, <3>1, MaxOfPrefix
      <4>2. T \ {n + 1} \in SUBSET (1 .. n + 1) /\ n + 1 \notin T \ {n + 1}
        OBVIOUS
      <4>3. next[T \ {n + 1}] = iter[T \ {n + 1}]
        BY <4>2
      <4> QED
        BY <3>1, <4>1, <4>3
    <3>2. CASE n + 1 \notin T
      <4>1. T \in SUBSET (1 .. n)
        BY <2>2, <3>2
      <4>2. next[T] = iter[T]
        BY <3>2
      <4>3. iter[T] = IF T = {} THEN run
                      ELSE Step(iter[T \ {Max(T)}], s[Max(T)], market)
        BY <2>1, <4>1
      <4>4. next[T \ {Max(T)}] = iter[T \ {Max(T)}]
        <5>1. T \ {Max(T)} \in SUBSET (1 .. n + 1) /\ n + 1 \notin T \ {Max(T)}
          BY <3>2
        <5> QED
          BY <5>1
      <4> QED
        BY <4>2, <4>3, <4>4
    <3> QED
      BY <3>1, <3>2
  <2> QED
    BY <2>2, <2>3
<1>3. P = Nat
  <2>1. P \in SUBSET Nat
    OBVIOUS
  <2> HIDE DEF P
  <2> QED
    BY <1>1, <1>2, <2>1, SetInduction
<1>4. Len(s) \in Nat /\ DOMAIN s = 1 .. Len(s)
  OBVIOUS
<1>5. PICK iter : Fits(iter, Len(s))
  BY <1>3, <1>4
<1> QED
  BY <1>4, <1>5 DEF FoldStep

(* The states the fold passes through are a trace.                         *)
LEMMA TraceExists ==
  ASSUME NEW run, NEW X, NEW s \in Seq(X), NEW market
  PROVE  \E trace : /\ IsTrace(trace, run, s, market)
                    /\ trace[Len(s)] = RunFrom(run, s, market)
<1> DEFINE iter == CHOOSE iter : iter = FoldStep(iter, run, s, market)
           trace == [i \in 0 .. Len(s) |-> iter[1 .. i]]
<1>1. iter = FoldStep(iter, run, s, market)
  BY FoldStepHasFixpoint
<1>2. RunFrom(run, s, market) = iter[DOMAIN s]
  BY RunFromIsFold
<1>3. Len(s) \in Nat /\ DOMAIN s = 1 .. Len(s)
  OBVIOUS
<1> HIDE DEF iter
<1>4. trace[0] = run
  <2>1. 1 .. 0 = {} /\ {} \in SUBSET DOMAIN s
    OBVIOUS
  <2>2. iter[{}] = run
    BY <1>1, <2>1 DEF FoldStep
  <2> QED
    BY <1>3, <2>1, <2>2
<1>5. ASSUME NEW i \in 1 .. Len(s)
      PROVE  trace[i] = Step(trace[i - 1], s[i], market)
  <2>1. 1 .. i \in SUBSET DOMAIN s /\ 1 .. i # {} /\ i \in 1 .. i
    <3>1. i \in Nat /\ 1 <= i /\ i <= Len(s)
      BY <1>3
    <3>2. i \in 1 .. i
      BY <3>1
    <3>3. 1 .. i \subseteq 1 .. Len(s)
      BY <1>3, <3>1
    <3> QED
      BY <1>3, <3>2, <3>3
  <2>2. Max(1 .. i) = i
    BY <1>3, <2>1, MaxOfPrefix
  <2>3. (1 .. i) \ {i} = 1 .. i - 1
    BY <1>3
  <2>4. iter[1 .. i] = Step(iter[1 .. i - 1], s[i], market)
    BY <1>1, <2>1, <2>2, <2>3 DEF FoldStep
  <2> QED
    BY <1>3, <2>4
<1>6. trace[Len(s)] = RunFrom(run, s, market)
  BY <1>2, <1>3
<1> QED
  BY <1>4, <1>5, <1>6 DEF IsTrace

(* Two traces of one run are the same.                                     *)
LEMMA TraceUnique ==
  ASSUME NEW run, NEW X, NEW s \in Seq(X), NEW market,
         NEW trace, IsTrace(trace, run, s, market)
  PROVE  trace[Len(s)] = RunFrom(run, s, market)
<1>1. PICK other : /\ IsTrace(other, run, s, market)
                   /\ other[Len(s)] = RunFrom(run, s, market)
  BY TraceExists
<1> DEFINE P == {n \in Nat : n <= Len(s) => trace[n] = other[n]}
<1>2. Len(s) \in Nat
  OBVIOUS
<1>3. 0 \in P
  BY <1>1 DEF IsTrace
<1>4. ASSUME NEW n \in P PROVE n + 1 \in P
  <2> SUFFICES ASSUME n + 1 <= Len(s) PROVE trace[n + 1] = other[n + 1]
    OBVIOUS
  <2>1. n + 1 \in 1 .. Len(s) /\ (n + 1) - 1 = n /\ n <= Len(s)
    BY <1>2
  <2>2. trace[n] = other[n]
    BY <2>1
  <2> QED
    BY <1>1, <2>1, <2>2 DEF IsTrace
<1>5. P = Nat
  <2>1. P \in SUBSET Nat
    OBVIOUS
  <2> HIDE DEF P
  <2> QED
    BY <1>3, <1>4, <2>1, SetInduction
<1> QED
  BY <1>1, <1>2, <1>5

-----------------------------------------------------------------------------
(* Runs of short sequences and of sequences put together.                  *)
LEMMA RunNil ==
  ASSUME NEW run, NEW market
  PROVE  RunFrom(run, <<>>, market) = run
<1>1. <<>> \in Seq({}) /\ Len(<<>>) = 0
  OBVIOUS
<1>2. PICK trace : /\ IsTrace(trace, run, <<>>, market)
                   /\ trace[Len(<<>>)] = RunFrom(run, <<>>, market)
  BY <1>1, TraceExists
<1> QED
  BY <1>1, <1>2 DEF IsTrace

LEMMA RunOne ==
  ASSUME NEW run, NEW ix, NEW market
  PROVE  RunFrom(run, <<ix>>, market) = Step(run, ix, market)
<1> DEFINE s == <<ix>>
<1>1. s \in Seq({ix}) /\ Len(s) = 1 /\ s[1] = ix
  OBVIOUS
<1> HIDE DEF s
<1>2. PICK trace : /\ IsTrace(trace, run, s, market)
                   /\ trace[Len(s)] = RunFrom(run, s, market)
  BY <1>1, TraceExists
<1>3. trace[1] = Step(trace[1 - 1], s[1], market) /\ trace[0] = run
  BY <1>1, <1>2 DEF IsTrace
<1> QED
  BY <1>1, <1>2, <1>3 DEF s

LEMMA RunConcat ==
  ASSUME NEW run, NEW X, NEW p \in Seq(X), NEW q \in Seq(X), NEW market
  PROVE  RunFrom(run, p \o q, market) = RunFrom(RunFrom(run, p, market), q, market)
<1> DEFINE s == p \o q
           m == Len(p)
           n == Len(q)
<1>1. /\ s \in Seq(X)
      /\ m \in Nat /\ n \in Nat /\ Len(s) = m + n
      /\ \A i \in 1 .. m : s[i] = p[i]
      /\ \A i \in 1 .. n : s[m + i] = q[i]
  OBVIOUS
<1> HIDE DEF s
<1>2. PICK trace : /\ IsTrace(trace, run, s, market)
                   /\ trace[Len(s)] = RunFrom(run, s, market)
  BY <1>1, TraceExists
<1>3. IsTrace(trace, run, p, market)
  BY <1>1, <1>2 DEF IsTrace
<1>4. trace[m] = RunFrom(run, p, market)
  BY <1>3, TraceUnique
<1> DEFINE rest == [i \in 0 .. n |-> trace[m + i]]
<1>5. IsTrace(rest, trace[m], q, market)
  <2>1. rest[0] = trace[m]
    BY <1>1
  <2>2. ASSUME NEW i \in 1 .. n
        PROVE  rest[i] = Step(rest[i - 1], q[i], market)
    <3>1. m + i \in 1 .. m + n /\ (m + i) - 1 = m + (i - 1)
      BY <1>1
    <3>2. trace[m + i] = Step(trace[m + (i - 1)], q[i], market)
      BY <1>1, <1>2, <3>1 DEF IsTrace
    <3>3. rest[i] = trace[m + i] /\ rest[i - 1] = trace[m + (i - 1)]
      BY <1>1
    <3> QED
      BY <3>2, <3>3
  <2> QED
    BY <2>1, <2>2 DEF IsTrace
<1>6. rest[n] = RunFrom(trace[m], q, market)
  BY <1>5, TraceUnique
<1>7. rest[n] = trace[Len(s)]
  BY <1>1
<1> QED
  BY <1>2, <1>4, <1>6, <1>7 DEF s

(* Once an instruction is refused, nothing more happens.                   *)
LEMMA RefusedStays ==
  ASSUME NEW run, ~run.ok, NEW X, NEW s \in Seq(X), NEW market
  PROVE  RunFrom(run, s, market) = run
<1> DEFINE trace == [i \in 0 .. Len(s) |-> run]
<1>1. IsTrace(trace, run, s, market)
  BY DEF IsTrace, Step
<1>2. trace[Len(s)] = RunFrom(run, s, market)
  BY <1>1, TraceUnique
<1> QED
  BY <1>2

LEMMA AcceptedIsBoolean ==
  ASSUME NEW ix, NEW l, NEW m
  PROVE  Accepted(ix, l, m) \in BOOLEAN
<1> DEFINE create == l.tokens[ix.account] = Absent => l.wallet >= Rent
           swap == /\ l.tokens["input"] >= m.draws
                   /\ l.tokens[ix.target] # Absent
                   /\ IF ix.base_in THEN m.gives >= ix.bound ELSE m.draws <= ix.bound
           pay == l.wallet >= ix.amount
           sync == l.tokens["input"] # Absent
           close == l.tokens[ix.account] # Absent
<1>1. /\ create \in BOOLEAN /\ swap \in BOOLEAN /\ pay \in BOOLEAN
      /\ sync \in BOOLEAN /\ close \in BOOLEAN
  <2>1. \A a, b : (a >= b) \in BOOLEAN
    BY SMT
  <2>2. create \in BOOLEAN /\ sync \in BOOLEAN /\ close \in BOOLEAN
    BY Zenon
  <2>3. pay \in BOOLEAN /\ swap \in BOOLEAN
    BY <2>1, Zenon
  <2> QED
    BY <2>2, <2>3
<1>2. Accepted(ix, l, m) = CASE ix.op = "create" -> create
                             [] ix.op = "transfer" -> pay
                             [] ix.op = "tip" -> pay
                             [] ix.op = "sync" -> sync
                             [] ix.op = "close" -> close
                             [] ix.op = "swap" -> swap
                             [] OTHER -> TRUE
  BY Zenon DEF Accepted
<1> HIDE DEF create, swap, pay, sync, close
<1> QED
  BY <1>1, <1>2

(* The units of a run are a natural number, also of one that is refused.   *)
LEMMA RunTypes ==
  ASSUME NEW ledger, NEW X, NEW s \in Seq(X), NEW market, market.units \in Nat
  PROVE  /\ Execute(s, ledger, market).units \in Nat
         /\ Execute(s, ledger, market).ok \in BOOLEAN
<1>1. PICK trace : /\ IsTrace(trace, Start(ledger), s, market)
                   /\ trace[Len(s)] = RunFrom(Start(ledger), s, market)
  BY TraceExists
<1> DEFINE P == {n \in Nat : n <= Len(s) =>
                   trace[n].units \in Nat /\ trace[n].ok \in BOOLEAN}
<1>2. Len(s) \in Nat
  OBVIOUS
<1>3. 0 \in P
  <2>1. trace[0] = Start(ledger)
    BY <1>1 DEF IsTrace
  <2>2. trace[0].units = 0 /\ trace[0].ok = TRUE
    BY <2>1 DEF Start
  <2>3. trace[0].units \in Nat
    BY <2>2
  <2>4. trace[0].ok \in BOOLEAN
    BY <2>2, Zenon
  <2> QED
    BY <2>3, <2>4
<1>4. ASSUME NEW n \in P PROVE n + 1 \in P
  <2> SUFFICES ASSUME n + 1 <= Len(s)
               PROVE  trace[n + 1].units \in Nat /\ trace[n + 1].ok \in BOOLEAN
    OBVIOUS
  <2>1. /\ n + 1 \in 1 .. Len(s) /\ (n + 1) - 1 = n
        /\ trace[n].units \in Nat /\ trace[n].ok \in BOOLEAN
    BY <1>2
  <2>2. trace[n + 1] = Step(trace[n], s[n + 1], market)
    BY <1>1, <2>1 DEF IsTrace
  <2>3. Cost(s[n + 1], trace[n].ledger, market) \in Nat
    BY RuntimeAssumption DEF Cost
  <2>4. CASE trace[n].ok
    <3>1. trace[n + 1].units = trace[n].units + Cost(s[n + 1], trace[n].ledger, market)
      BY <2>2, <2>4 DEF Step
    <3>2. trace[n + 1].ok = Accepted(s[n + 1], trace[n].ledger, market)
      BY <2>2, <2>4 DEF Step
    <3> QED
      BY <2>1, <2>3, <3>1, <3>2, AcceptedIsBoolean
  <2>5. CASE ~trace[n].ok
    BY <2>1, <2>2, <2>5 DEF Step
  <2> QED
    BY <2>4, <2>5
<1>5. P = Nat
  <2>1. P \in SUBSET Nat
    OBVIOUS
  <2> HIDE DEF P
  <2> QED
    BY <1>3, <1>4, <2>1, SetInduction
<1> QED
  BY <1>1, <1>2, <1>5 DEF Execute

-----------------------------------------------------------------------------
(***************************************************************************)
(* A transaction, part by part.  A run that goes on is a State: the units  *)
(* consumed, the wallet, what the three token accounts hold (Absent if     *)
(* they do not exist), and the lamports sync_native has not counted yet.   *)
(***************************************************************************)
Accounts == {"input", "output", "destination"}

State(u, w, i, o, d, y) ==
    [ok     |-> TRUE,
     units  |-> u,
     ledger |-> [wallet   |-> w,
                 tokens   |-> [input |-> i, output |-> o, destination |-> d],
                 unsynced |-> y]]

Missing(a)     == IF a = Absent THEN Rent ELSE 0  \* the rent it takes to have a
Balance(a)     == IF a = Absent THEN 0 ELSE a     \* what a holds once it is there
CreateUnits(a) == IF a = Absent THEN CreateCost ELSE 1

LEMMA StartIsState ==
  ASSUME NEW l \in Ledger
  PROVE  Start(l) = State(0, l.wallet, l.tokens.input, l.tokens.output,
                          l.tokens.destination, 0)
<1>1. l.unsynced = 0
  BY DEF Ledger
<1>2. l.tokens = [input |-> l.tokens.input, output |-> l.tokens.output,
                  destination |-> l.tokens.destination]
  BY DEF Ledger
<1>3. l = [wallet |-> l.wallet, tokens |-> l.tokens, unsynced |-> l.unsynced]
  BY DEF Ledger
<1> QED
  BY <1>1, <1>2, <1>3 DEF Start, State

(* One lemma per instruction.                                              *)
LEMMA StepBudget ==
  ASSUME NEW u, NEW w, NEW i, NEW o, NEW d, NEW y, NEW m,
         NEW op \in {"limit", "price"}, NEW arg
  PROVE  Step(State(u, w, i, o, d, y), Budget(op, arg), m) = State(u + 1, w, i, o, d, y)
  BY DEF Step, State, Budget, Accepted, Effect, Cost

LEMMA StepCreate ==
  ASSUME NEW u \in Nat, NEW w \in Nat, NEW y, NEW m,
         NEW i \in Nat \cup {Absent}, NEW o \in Nat \cup {Absent}, NEW d
  PROVE  /\ IF w >= Missing(i)
              THEN Step(State(u, w, i, o, d, y), CreateAta("input"), m)
                     = State(u + CreateUnits(i), w - Missing(i), Balance(i), o, d, y)
              ELSE ~Step(State(u, w, i, o, d, y), CreateAta("input"), m).ok
         /\ IF w >= Missing(o)
              THEN Step(State(u, w, i, o, d, y), CreateAta("output"), m)
                     = State(u + CreateUnits(o), w - Missing(o), i, Balance(o), d, y)
              ELSE ~Step(State(u, w, i, o, d, y), CreateAta("output"), m).ok
<1> USE RuntimeAssumption
<1>1. IF w >= Missing(i)
        THEN Step(State(u, w, i, o, d, y), CreateAta("input"), m)
               = State(u + CreateUnits(i), w - Missing(i), Balance(i), o, d, y)
        ELSE ~Step(State(u, w, i, o, d, y), CreateAta("input"), m).ok
  <2>1. CASE i = Absent
    BY <2>1 DEF Step, State, CreateAta, Accepted, Effect, Cost, Missing, Balance, CreateUnits
  <2>2. CASE i # Absent
    <3> DEFINE run == State(u, w, i, o, d, y)
               ix == CreateAta("input")
    <3>1. run.ok /\ run.units = u
      BY DEF State
    <3>2. Accepted(ix, run.ledger, m) = TRUE
      BY <2>2 DEF State, CreateAta, Accepted
    <3>3. Effect(ix, run.ledger, m) = run.ledger
      BY <2>2 DEF State, CreateAta, Effect
    <3>4. Cost(ix, run.ledger, m) = 1
      BY <2>2 DEF State, CreateAta, Cost
    <3>5. Step(run, ix, m) = [ok |-> TRUE, units |-> u + 1, ledger |-> run.ledger]
      BY <3>1, <3>2, <3>3, <3>4 DEF Step
    <3>6. Missing(i) = 0 /\ Balance(i) = i /\ CreateUnits(i) = 1 /\ w - 0 = w
      BY <2>2 DEF Missing, Balance, CreateUnits
    <3> QED
      BY <3>5, <3>6 DEF State
  <2> QED
    BY <2>1, <2>2
<1>2. IF w >= Missing(o)
        THEN Step(State(u, w, i, o, d, y), CreateAta("output"), m)
               = State(u + CreateUnits(o), w - Missing(o), i, Balance(o), d, y)
        ELSE ~Step(State(u, w, i, o, d, y), CreateAta("output"), m).ok
  <2>1. CASE o = Absent
    BY <2>1 DEF Step, State, CreateAta, Accepted, Effect, Cost, Missing, Balance, CreateUnits
  <2>2. CASE o # Absent
    <3> DEFINE run == State(u, w, i, o, d, y)
               ix == CreateAta("output")
    <3>1. run.ok /\ run.units = u
      BY DEF State
    <3>2. Accepted(ix, run.ledger, m) = TRUE
      BY <2>2 DEF State, CreateAta, Accepted
    <3>3. Effect(ix, run.ledger, m) = run.ledger
      BY <2>2 DEF State, CreateAta, Effect
    <3>4. Cost(ix, run.ledger, m) = 1
      BY <2>2 DEF State, CreateAta, Cost
    <3>5. Step(run, ix, m) = [ok |-> TRUE, units |-> u + 1, ledger |-> run.ledger]
      BY <3>1, <3>2, <3>3, <3>4 DEF Step
    <3>6. Missing(o) = 0 /\ Balance(o) = o /\ CreateUnits(o) = 1 /\ w - 0 = w
      BY <2>2 DEF Missing, Balance, CreateUnits
    <3> QED
      BY <3>5, <3>6 DEF State
  <2> QED
    BY <2>1, <2>2
<1> QED
  BY <1>1, <1>2

LEMMA StepTransfer ==
  ASSUME NEW u \in Nat, NEW w \in Nat, NEW i \in Nat, NEW o, NEW d, NEW y \in Nat,
         NEW n \in Nat, NEW m
  PROVE  IF w >= n
           THEN Step(State(u, w, i, o, d, y), Transfer(n), m)
                  = State(u + 1, w - n, i, o, d, y + n)
           ELSE ~Step(State(u, w, i, o, d, y), Transfer(n), m).ok
  BY DEF Step, State, Transfer, Accepted, Effect, Cost

LEMMA StepSync ==
  ASSUME NEW u, NEW w, NEW i \in Nat, NEW o, NEW d, NEW y \in Nat, NEW m
  PROVE  Step(State(u, w, i, o, d, y), SyncNative, m) = State(u + 1, w, i + y, o, d, 0)
<1> DEFINE run == State(u, w, i, o, d, y)
<1>1. run.ok /\ run.units = u
  BY DEF State
<1>2. Accepted(SyncNative, run.ledger, m) = TRUE
  BY DEF State, SyncNative, Accepted, Absent
<1>3. Effect(SyncNative, run.ledger, m)
        = [wallet |-> w, tokens |-> [input |-> i + y, output |-> o, destination |-> d],
           unsynced |-> 0]
  BY DEF State, SyncNative, Effect
<1>4. Cost(SyncNative, run.ledger, m) = 1
  BY DEF SyncNative, Cost
<1> QED
  BY <1>1, <1>2, <1>3, <1>4 DEF Step, State

LEMMA StepTip ==
  ASSUME NEW u, NEW w \in Nat, NEW i, NEW o, NEW d, NEW y, NEW n \in Nat, NEW m
  PROVE  IF w >= n
           THEN Step(State(u, w, i, o, d, y), Tip(n), m) = State(u + 1, w - n, i, o, d, y)
           ELSE ~Step(State(u, w, i, o, d, y), Tip(n), m).ok
  BY DEF Step, State, Tip, Accepted, Effect, Cost

LEMMA StepCloseInput ==
  ASSUME NEW u, NEW w \in Nat, NEW i \in Nat, NEW o, NEW d, NEW m
  PROVE  Step(State(u, w, i, o, d, 0), CloseAccount("input"), m)
           = State(u + 1, w + i + Rent, Absent, o, d, 0)
<1> DEFINE run == State(u, w, i, o, d, 0)
           ix == CloseAccount("input")
<1>1. run.ok /\ run.units = u
  BY DEF State
<1>2. Accepted(ix, run.ledger, m) = TRUE
  BY DEF State, CloseAccount, Accepted, Absent
<1>3. Effect(ix, run.ledger, m)
        = [wallet   |-> w + i + Rent,
           tokens   |-> [input |-> Absent, output |-> o, destination |-> d],
           unsynced |-> 0]
  <2>1. i + Rent \in Nat /\ w + i + Rent \in Nat
    BY RuntimeAssumption
  <2>2. run.ledger = [wallet |-> w,
                      tokens |-> [input |-> i, output |-> o, destination |-> d],
                      unsynced |-> 0]
    BY DEF State
  <2> DEFINE l == run.ledger
  <2>3. ix.op = "close" /\ ix.account = "input"
    BY DEF CloseAccount
  <2> HIDE DEF ix
  <2>4. Effect(ix, l, m)
          = [l EXCEPT !.wallet = @ + l.tokens["input"] + Rent
                                   + (IF "input" = "input" THEN l.unsynced ELSE 0),
                      !.tokens["input"] = Absent,
                      !.unsynced = IF "input" = "input" THEN 0 ELSE @]
    BY <2>3 DEF Effect
  <2>5. /\ l.wallet = w /\ l.tokens["input"] = i /\ l.unsynced = 0
        /\ w + i + Rent + 0 = w + i + Rent
    BY <2>1, <2>2
  <2> HIDE DEF l
  <2>6. l.tokens = [input |-> i, output |-> o, destination |-> d]
    BY <2>2 DEF l
  <2>7. [l.tokens EXCEPT !["input"] = Absent] = [input |-> Absent, output |-> o, destination |-> d]
    BY <2>6
  <2>8. Effect(ix, l, m) = [l EXCEPT !.wallet = w + i + Rent,
                                     !.tokens = [l.tokens EXCEPT !["input"] = Absent],
                                     !.unsynced = 0]
    BY <2>4, <2>5
  <2> QED
    BY <2>2, <2>7, <2>8 DEF l
<1>4. Cost(ix, run.ledger, m) = 1
  BY DEF CloseAccount, Cost
<1> QED
  BY <1>1, <1>2, <1>3, <1>4 DEF Step, State

LEMMA StepCloseOutput ==
  ASSUME NEW u \in Nat, NEW w \in Nat, NEW i \in Nat, NEW o \in Nat, NEW d, NEW m
  PROVE  Step(State(u, w, i, o, d, 0), CloseAccount("output"), m)
           = State(u + 1, w + o + Rent, i, Absent, d, 0)
<1> DEFINE run == State(u, w, i, o, d, 0)
           ix == CloseAccount("output")
<1>1. run.ok /\ run.units = u
  BY DEF State
<1>2. Accepted(ix, run.ledger, m) = TRUE
  BY DEF State, CloseAccount, Accepted, Absent
<1>3. Effect(ix, run.ledger, m)
        = [wallet   |-> w + o + Rent,
           tokens   |-> [input |-> i, output |-> Absent, destination |-> d],
           unsynced |-> 0]
  <2>1. o + Rent \in Nat /\ w + o + Rent \in Nat
    BY RuntimeAssumption
  <2>2. run.ledger = [wallet |-> w,
                      tokens |-> [input |-> i, output |-> o, destination |-> d],
                      unsynced |-> 0]
    BY DEF State
  <2> DEFINE l == run.ledger
  <2>3. ix.op = "close" /\ ix.account = "output"
    BY DEF CloseAccount
  <2> HIDE DEF ix
  <2>4. Effect(ix, l, m)
          = [l EXCEPT !.wallet = @ + l.tokens["output"] + Rent
                                   + (IF "output" = "input" THEN l.unsynced ELSE 0),
                      !.tokens["output"] = Absent,
                      !.unsynced = IF "output" = "input" THEN 0 ELSE @]
    BY <2>3 DEF Effect
  <2>5. /\ l.wallet = w /\ l.tokens["output"] = o /\ l.unsynced = 0
        /\ w + o + Rent + 0 = w + o + Rent
    BY <2>1, <2>2
  <2> HIDE DEF l
  <2>6. l.tokens = [input |-> i, output |-> o, destination |-> d]
    BY <2>2 DEF l
  <2>7. [l.tokens EXCEPT !["output"] = Absent] = [input |-> i, output |-> Absent, destination |-> d]
    BY <2>6
  <2>8. Effect(ix, l, m) = [l EXCEPT !.wallet = w + o + Rent,
                                     !.tokens = [l.tokens EXCEPT !["output"] = Absent],
                                     !.unsynced = 0]
    BY <2>4, <2>5
  <2> QED
    BY <2>2, <2>7, <2>8 DEF l
<1>4. Cost(ix, run.ledger, m) = 1
  BY DEF CloseAccount, Cost
<1> QED
  BY <1>1, <1>2, <1>3, <1>4 DEF Step, State

(* The swap: refused beyond the slippage, without the input it draws, or   *)
(* with nowhere to put its output.                                         *)
Target(r, o, d) == IF r.dest THEN d ELSE o
Plus(a, add, n) == IF add THEN a + n ELSE a

LEMMA MarketFacts ==
  ASSUME NEW r \in SwapRequest, NEW drift \in Drifts, NEW cost \in Nat
  PROVE  /\ drift \in Int
         /\ Market(r, drift, cost).draws \in Nat
         /\ Market(r, drift, cost).gives \in Nat
         /\ (IF r.mode = "ExactIn" THEN Market(r, drift, cost).gives >= OutAmount - Slippage
                                   ELSE Market(r, drift, cost).draws <= InAmount + Slippage)
              <=> drift <= Slippage
<1>1. /\ InAmount \in Nat /\ InAmount >= 1 /\ OutAmount \in Nat
      /\ Slippage \in Nat /\ Slippage + 1 <= OutAmount
  BY SwapAssumption
<1>2. drift \in Int /\ -1 <= drift /\ drift <= Slippage + 1
  BY <1>1 DEF Drifts
<1>3. CASE r.mode = "ExactIn"
  BY <1>1, <1>2, <1>3 DEF Market, Draws, Gives
<1>4. CASE r.mode # "ExactIn"
  BY <1>1, <1>2, <1>4 DEF Market, Draws, Gives
<1> QED
  BY <1>3, <1>4

LEMMA StepSwap ==
  ASSUME NEW r \in SwapRequest, NEW drift \in Drifts, NEW cost \in Nat,
         NEW u \in Nat, NEW w \in Nat, NEW i \in Nat \cup {Absent},
         NEW o \in Nat \cup {Absent}, NEW d \in Nat \cup {Absent}
  PROVE  LET m == Market(r, drift, cost)
             next == Step(State(u, w, i, o, d, 0), SwapIx(r), m)
         IN  IF i >= m.draws /\ Target(r, o, d) # Absent /\ drift <= Slippage
               THEN next = State(u + cost, w, i - m.draws, Plus(o, ~r.dest, m.gives),
                                 Plus(d, r.dest, m.gives), 0)
               ELSE ~next.ok
<1> DEFINE m == Market(r, drift, cost)
           ix == SwapIx(r)
           run == State(u, w, i, o, d, 0)
           tokens == [input |-> i, output |-> o, destination |-> d]
<1>1. /\ m.draws \in Nat /\ m.gives \in Nat
      /\ (IF r.mode = "ExactIn" THEN m.gives >= OutAmount - Slippage
                                ELSE m.draws <= InAmount + Slippage)
           <=> drift <= Slippage
  BY MarketFacts
<1>2. /\ run.ok /\ run.units = u
      /\ run.ledger = [wallet |-> w, tokens |-> tokens, unsynced |-> 0]
  BY DEF State
<1>3. /\ ix.op = "swap"
      /\ ix.base_in <=> r.mode = "ExactIn"
      /\ ix.target = IF r.dest THEN "destination" ELSE "output"
      /\ r.mode = "ExactIn" => ix.bound = OutAmount - Slippage
      /\ r.mode # "ExactIn" => ix.bound = InAmount + Slippage
  BY DEF SwapIx
<1>4. tokens[ix.target] = Target(r, o, d)
  BY <1>3 DEF Target
<1> HIDE DEF m, ix, run
<1>5. Accepted(ix, run.ledger, m)
        <=> i >= m.draws /\ Target(r, o, d) # Absent /\ drift <= Slippage
  <2>1. Accepted(ix, run.ledger, m)
          <=> /\ run.ledger.tokens["input"] >= m.draws
              /\ run.ledger.tokens[ix.target] # Absent
              /\ IF ix.base_in THEN m.gives >= ix.bound ELSE m.draws <= ix.bound
    BY <1>3 DEF Accepted
  <2>2. run.ledger.tokens = tokens /\ tokens["input"] = i
    BY <1>2
  <2>3. (IF ix.base_in THEN m.gives >= ix.bound ELSE m.draws <= ix.bound)
          <=> drift <= Slippage
    BY <1>1, <1>3
  <2> QED
    BY <1>4, <2>1, <2>2, <2>3
<1>6. Cost(ix, run.ledger, m) = cost
  BY <1>3 DEF Cost, Market, m
<1>7. CASE i >= m.draws /\ Target(r, o, d) # Absent /\ drift <= Slippage
  <2>1. Effect(ix, run.ledger, m)
          = [run.ledger EXCEPT !.tokens["input"] = i - m.draws,
                               !.tokens[ix.target] = Target(r, o, d) + m.gives]
    <3> DEFINE l == run.ledger
    <3>1. l.tokens["input"] = i /\ l.tokens[ix.target] = Target(r, o, d)
      BY <1>2, <1>4
    <3> HIDE DEF l
    <3> QED
      BY <1>3, <3>1 DEF Effect, l
  <2>2. Effect(ix, run.ledger, m)
          = [wallet |-> w,
             tokens |-> [tokens EXCEPT !["input"] = i - m.draws,
                                       ![ix.target] = Target(r, o, d) + m.gives],
             unsynced |-> 0]
    <3> DEFINE t1 == [tokens EXCEPT !["input"] = i - m.draws]
               l1 == [wallet |-> w, tokens |-> t1, unsynced |-> 0]
    <3>1. [run.ledger EXCEPT !.tokens["input"] = i - m.draws] = l1
      BY <1>2
    <3>2. Effect(ix, run.ledger, m)
            = [l1 EXCEPT !.tokens[ix.target] = Target(r, o, d) + m.gives]
      BY <2>1, <3>1
    <3> HIDE DEF t1
    <3>3. Effect(ix, run.ledger, m)
            = [wallet |-> w, tokens |-> [t1 EXCEPT ![ix.target] = Target(r, o, d) + m.gives],
               unsynced |-> 0]
      BY <3>2
    <3> QED
      BY <3>3 DEF t1
  <2>3. [tokens EXCEPT !["input"] = i - m.draws,
                       ![ix.target] = Target(r, o, d) + m.gives]
          = [input |-> i - m.draws, output |-> Plus(o, ~r.dest, m.gives),
             destination |-> Plus(d, r.dest, m.gives)]
    BY <1>3 DEF Target, Plus
  <2>4. Step(run, ix, m)
          = [ok |-> TRUE, units |-> u + cost, ledger |-> Effect(ix, run.ledger, m)]
    <3>1. Accepted(ix, run.ledger, m) = TRUE
      BY <1>3, <1>5, <1>7 DEF Accepted
    <3> QED
      BY <1>2, <1>6, <3>1 DEF Step
  <2> QED
    BY <1>7, <2>2, <2>3, <2>4 DEF State, m, ix, run
<1>8. CASE ~(i >= m.draws /\ Target(r, o, d) # Absent /\ drift <= Slippage)
  BY <1>2, <1>5, <1>8 DEF Step, m, ix, run
<1> QED
  BY <1>7, <1>8 DEF m, ix, run

-----------------------------------------------------------------------------
(* The parts of a transaction, for accounts that hold i, o and d: what     *)
(* each takes from the wallet, leaves in the accounts, and consumes.       *)
InNeeds(r, i) ==
    (IF r.pair = "sol_in" THEN Missing(i) ELSE 0) + (IF Wraps(r) THEN InAmount ELSE 0)
InHolds(r, i) ==
    IF r.pair = "sol_in" THEN Balance(i) + (IF Wraps(r) THEN InAmount ELSE 0) ELSE i
InUnits(r, i) ==
    (IF r.pair = "sol_in" THEN CreateUnits(i) ELSE 0) + (IF Wraps(r) THEN 2 ELSE 0)

OutNeeds(r, o) == IF r.dest THEN 0 ELSE Missing(o)
OutHolds(r, o) == IF r.dest THEN o ELSE Balance(o)
OutUnits(r, o) == IF r.dest THEN 0 ELSE CreateUnits(o)

Tips(r) == IF FeeBranch(r) = "tip" THEN <<Tip(r.priofee.value)>> ELSE <<>>

LEMMA RunThree ==
  ASSUME NEW run, NEW a, NEW b, NEW c, NEW m
  PROVE  RunFrom(run, <<a>> \o <<b, c>>, m) = Step(Step(Step(run, a, m), b, m), c, m)
<1> DEFINE s == <<a>> \o <<b, c>>
<1>1. s \in Seq({a, b, c}) /\ Len(s) = 3 /\ s[1] = a /\ s[2] = b /\ s[3] = c
  OBVIOUS
<1> HIDE DEF s
<1>2. PICK trace : IsTrace(trace, run, s, m) /\ trace[Len(s)] = RunFrom(run, s, m)
  BY <1>1, TraceExists
<1>3. /\ trace[0] = run
      /\ trace[1] = Step(trace[1 - 1], a, m)
      /\ trace[2] = Step(trace[2 - 1], b, m)
      /\ trace[3] = Step(trace[3 - 1], c, m)
  BY <1>1, <1>2 DEF IsTrace
<1> QED
  BY <1>1, <1>2, <1>3 DEF s

LEMMA InputFacts ==
  ASSUME NEW r, NEW i \in Nat \cup {Absent}
  PROVE  /\ InNeeds(r, i) \in Nat /\ InUnits(r, i) \in Nat
         /\ InHolds(r, i) \in Nat \cup {Absent}
         /\ Missing(i) \in Nat /\ Balance(i) \in Nat /\ CreateUnits(i) \in Nat
<1> USE RuntimeAssumption, SwapAssumption
<1>1. Missing(i) \in Nat /\ Balance(i) \in Nat /\ CreateUnits(i) \in Nat
  BY DEF Missing, Balance, CreateUnits
<1> QED
  BY <1>1 DEF InNeeds, InUnits, InHolds

LEMMA OutputFacts ==
  ASSUME NEW r, NEW o \in Nat \cup {Absent}
  PROVE  /\ OutNeeds(r, o) \in Nat /\ OutUnits(r, o) \in Nat
         /\ OutHolds(r, o) \in Nat \cup {Absent}
         /\ Missing(o) \in Nat /\ Balance(o) \in Nat /\ CreateUnits(o) \in Nat
<1> USE RuntimeAssumption
<1>1. Missing(o) \in Nat /\ Balance(o) \in Nat /\ CreateUnits(o) \in Nat
  BY DEF Missing, Balance, CreateUnits
<1> QED
  BY <1>1 DEF OutNeeds, OutUnits, OutHolds

LEMMA InputStage ==
  ASSUME NEW r \in SwapRequest, NEW m,
         NEW u \in Nat, NEW w \in Nat, NEW i \in Nat \cup {Absent},
         NEW o \in Nat \cup {Absent}, NEW d
  PROVE  LET next == RunFrom(State(u, w, i, o, d, 0), InputSetup(r), m)
         IN  IF w >= InNeeds(r, i)
               THEN next = State(u + InUnits(r, i), w - InNeeds(r, i),
                                 InHolds(r, i), o, d, 0)
               ELSE ~next.ok
<1> DEFINE run == State(u, w, i, o, d, 0)
           made == Step(run, CreateAta("input"), m)
<1>1. /\ Missing(i) \in Nat /\ Balance(i) \in Nat /\ CreateUnits(i) \in Nat
      /\ InAmount \in Nat
  BY InputFacts, SwapAssumption
<1>2. InNeeds(r, i) \in Nat /\ InUnits(r, i) \in Nat
  BY InputFacts
<1>3. IF w >= Missing(i)
        THEN made = State(u + CreateUnits(i), w - Missing(i), Balance(i), o, d, 0)
        ELSE ~made.ok
  BY StepCreate
<1>4. CASE r.pair # "sol_in"
  <2>1. InputSetup(r) = <<>>
    BY <1>4 DEF InputSetup
  <2>2. RunFrom(run, InputSetup(r), m) = run
    BY <2>1, RunNil
  <2>3. InNeeds(r, i) = 0 /\ InUnits(r, i) = 0 /\ InHolds(r, i) = i
    BY <1>4 DEF InNeeds, InUnits, InHolds, Wraps
  <2>4. u + 0 = u /\ w - 0 = w /\ w >= 0
    OBVIOUS
  <2> QED
    BY <1>2, <2>2, <2>3, <2>4
<1>5. CASE r.pair = "sol_in" /\ ~r.wrap
  <2>1. InputSetup(r) = <<CreateAta("input")>>
    BY <1>5 DEF InputSetup
  <2>2. RunFrom(run, InputSetup(r), m) = made
    BY <2>1, RunOne
  <2>3. /\ InNeeds(r, i) = Missing(i) /\ InUnits(r, i) = CreateUnits(i)
        /\ InHolds(r, i) = Balance(i)
    BY <1>1, <1>5 DEF InNeeds, InUnits, InHolds, Wraps
  <2> QED
    BY <1>2, <1>3, <2>2, <2>3
<1>6. CASE r.pair = "sol_in" /\ r.wrap
  <2> DEFINE sent == Step(made, Transfer(InAmount), m)
             next == Step(sent, SyncNative, m)
  <2>1. InputSetup(r) = <<CreateAta("input")>> \o <<Transfer(InAmount), SyncNative>>
    BY <1>6 DEF InputSetup
  <2>2. RunFrom(run, InputSetup(r), m) = next
    BY <2>1, RunThree
  <2>3. /\ InNeeds(r, i) = Missing(i) + InAmount
        /\ InUnits(r, i) = CreateUnits(i) + 2
        /\ InHolds(r, i) = Balance(i) + InAmount
    BY <1>1, <1>6 DEF InNeeds, InUnits, InHolds, Wraps
  <2>4. ASSUME ~sent.ok PROVE ~next.ok
    BY <2>4 DEF Step
  <2>5. ASSUME ~made.ok PROVE ~next.ok
    <3>1. ~sent.ok
      BY <2>5 DEF Step
    <3> QED
      BY <2>4, <3>1
  <2> HIDE DEF made
  <2>6. CASE ~(w >= Missing(i))
    BY <1>1, <1>2, <1>3, <2>2, <2>3, <2>5, <2>6
  <2>7. CASE w >= Missing(i)
    <3>1. made = State(u + CreateUnits(i), w - Missing(i), Balance(i), o, d, 0)
      BY <1>3, <2>7
    <3>2. w - Missing(i) \in Nat
      BY <1>1, <2>7
    <3>3. IF w - Missing(i) >= InAmount
            THEN sent = State(u + CreateUnits(i) + 1, w - Missing(i) - InAmount,
                              Balance(i), o, d, 0 + InAmount)
            ELSE ~sent.ok
      <4>1. \A u1, w1, i1, y, n \in Nat :
              IF w1 >= n
                THEN Step(State(u1, w1, i1, o, d, y), Transfer(n), m)
                       = State(u1 + 1, w1 - n, i1, o, d, y + n)
                ELSE ~Step(State(u1, w1, i1, o, d, y), Transfer(n), m).ok
        BY StepTransfer
      <4>2. u + CreateUnits(i) \in Nat
        BY <1>1
      <4> QED
        BY <1>1, <3>1, <3>2, <4>1, <4>2
    <3>4. CASE ~(w - Missing(i) >= InAmount)
      BY <1>1, <1>2, <2>2, <2>3, <2>4, <3>3, <3>4
    <3>5. CASE w - Missing(i) >= InAmount
      <4>1. sent = State(u + CreateUnits(i) + 1, w - Missing(i) - InAmount,
                         Balance(i), o, d, 0 + InAmount)
        BY <3>3, <3>5
      <4>2. 0 + InAmount \in Nat /\ 0 + InAmount = InAmount
        BY <1>1
      <4>3. next = State(u + CreateUnits(i) + 1 + 1, w - Missing(i) - InAmount,
                         Balance(i) + (0 + InAmount), o, d, 0)
        BY <1>1, <4>1, <4>2, StepSync
      <4>4. /\ u + CreateUnits(i) + 1 + 1 = u + InUnits(r, i)
            /\ w - Missing(i) - InAmount = w - InNeeds(r, i)
            /\ w >= InNeeds(r, i)
        BY <1>1, <2>3, <3>2, <3>5
      <4> QED
        BY <1>2, <2>2, <2>3, <4>2, <4>3, <4>4
    <3> QED
      BY <3>4, <3>5
  <2> QED
    BY <2>6, <2>7
<1> QED
  BY <1>4, <1>5, <1>6

LEMMA OutputStage ==
  ASSUME NEW r \in SwapRequest, NEW m,
         NEW u \in Nat, NEW w \in Nat, NEW i \in Nat \cup {Absent},
         NEW o \in Nat \cup {Absent}, NEW d
  PROVE  LET next == RunFrom(State(u, w, i, o, d, 0), OutputSetup(r), m)
         IN  IF w >= OutNeeds(r, o)
               THEN next = State(u + OutUnits(r, o), w - OutNeeds(r, o), i,
                                 OutHolds(r, o), d, 0)
               ELSE ~next.ok
<1> DEFINE run == State(u, w, i, o, d, 0)
<1>1. Missing(o) \in Nat /\ Balance(o) \in Nat /\ CreateUnits(o) \in Nat
  BY OutputFacts
<1>2. OutNeeds(r, o) \in Nat /\ OutUnits(r, o) \in Nat
  BY OutputFacts
<1>3. CASE r.dest
  <2>1. OutputSetup(r) = <<>>
    BY <1>3 DEF OutputSetup
  <2>2. RunFrom(run, OutputSetup(r), m) = run
    BY <2>1, RunNil
  <2>3. OutNeeds(r, o) = 0 /\ OutUnits(r, o) = 0 /\ OutHolds(r, o) = o
    BY <1>3 DEF OutNeeds, OutUnits, OutHolds
  <2>4. u + 0 = u /\ w - 0 = w /\ w >= 0
    OBVIOUS
  <2> QED
    BY <1>2, <2>2, <2>3, <2>4
<1>4. CASE ~r.dest
  <2>1. OutputSetup(r) = <<CreateAta("output")>>
    BY <1>4 DEF OutputSetup
  <2>2. RunFrom(run, OutputSetup(r), m) = Step(run, CreateAta("output"), m)
    BY <2>1, RunOne
  <2>3. /\ OutNeeds(r, o) = Missing(o) /\ OutUnits(r, o) = CreateUnits(o)
        /\ OutHolds(r, o) = Balance(o)
    BY <1>4 DEF OutNeeds, OutUnits, OutHolds
  <2>4. IF w >= Missing(o)
          THEN Step(run, CreateAta("output"), m)
                 = State(u + CreateUnits(o), w - Missing(o), i, Balance(o), d, 0)
          ELSE ~Step(run, CreateAta("output"), m).ok
    BY StepCreate
  <2> QED
    BY <1>2, <2>2, <2>3, <2>4
<1> QED
  BY <1>3, <1>4

(* What a transaction has for a tip, and how much that is.                 *)
TipSeqs == {<<>>} \cup {<<Tip(n)>> : n \in Nat}
Tipped(T) == IF T = <<>> THEN 0 ELSE T[1].amount

LEMMA TippedFacts ==
  ASSUME NEW T \in TipSeqs
  PROVE  /\ Tipped(T) \in Nat
         /\ (T = <<>> /\ Tipped(T) = 0) \/ T = <<Tip(Tipped(T))>>
<1>1. CASE T = <<>>
  BY <1>1 DEF Tipped
<1>2. CASE T # <<>>
  <2>1. PICK n \in Nat : T = <<Tip(n)>>
    BY <1>2 DEF TipSeqs
  <2>2. T[1] = Tip(n) /\ Tip(n).amount = n
    BY <2>1 DEF Tip
  <2> QED
    BY <1>2, <2>1, <2>2 DEF Tipped
<1> QED
  BY <1>1, <1>2

LEMMA TipStage ==
  ASSUME NEW T, NEW v \in Nat, (T = <<>> /\ v = 0) \/ T = <<Tip(v)>>,
         NEW u \in Nat, NEW w \in Nat, NEW i, NEW o, NEW d, NEW m
  PROVE  LET next == RunFrom(State(u, w, i, o, d, 0), T, m)
         IN  IF w >= v THEN next = State(u + Len(T), w - v, i, o, d, 0) ELSE ~next.ok
<1>1. CASE T = <<>> /\ v = 0
  <2>1. RunFrom(State(u, w, i, o, d, 0), T, m) = State(u, w, i, o, d, 0)
    BY <1>1, RunNil
  <2>2. Len(T) = 0 /\ u + 0 = u /\ w - 0 = w /\ w >= 0
    BY <1>1
  <2> QED
    BY <1>1, <2>1, <2>2
<1>2. CASE T = <<Tip(v)>>
  <2>1. RunFrom(State(u, w, i, o, d, 0), T, m) = Step(State(u, w, i, o, d, 0), Tip(v), m)
    BY <1>2, RunOne
  <2>2. Len(T) = 1
    BY <1>2
  <2>3. IF w >= v
          THEN Step(State(u, w, i, o, d, 0), Tip(v), m) = State(u + 1, w - v, i, o, d, 0)
          ELSE ~Step(State(u, w, i, o, d, 0), Tip(v), m).ok
    BY StepTip
  <2> QED
    BY <2>1, <2>2, <2>3
<1> QED
  BY <1>1, <1>2

(* Budget instructions only cost their unit, however many there are.       *)
BudgetIx == {Budget(op, arg) : op \in {"limit", "price"}, arg \in Int}

LEMMA BudgetStage ==
  ASSUME NEW B \in Seq(BudgetIx),
         NEW u \in Nat, NEW w, NEW i, NEW o, NEW d, NEW y, NEW m
  PROVE  RunFrom(State(u, w, i, o, d, y), B, m) = State(u + Len(B), w, i, o, d, y)
<1> DEFINE trace == [k \in 0 .. Len(B) |-> State(u + k, w, i, o, d, y)]
<1>1. Len(B) \in Nat
  OBVIOUS
<1>2. trace[0] = State(u, w, i, o, d, y)
  <2>1. u + 0 = u
    OBVIOUS
  <2> QED
    BY <1>1, <2>1
<1>3. ASSUME NEW k \in 1 .. Len(B)
      PROVE  trace[k] = Step(trace[k - 1], B[k], m)
  <2>1. trace[k - 1] = State(u + (k - 1), w, i, o, d, y)
    BY <1>1
  <2>2. B[k] \in BudgetIx
    OBVIOUS
  <2>3. Step(State(u + (k - 1), w, i, o, d, y), B[k], m)
          = State(u + (k - 1) + 1, w, i, o, d, y)
    BY <2>2, StepBudget DEF BudgetIx
  <2>4. u + (k - 1) + 1 = u + k
    BY <1>1
  <2> QED
    BY <2>1, <2>3, <2>4
<1>4. IsTrace(trace, State(u, w, i, o, d, y), B, m)
  BY <1>2, <1>3 DEF IsTrace
<1>5. trace[Len(B)] = RunFrom(State(u, w, i, o, d, y), B, m)
  BY <1>4, TraceUnique
<1> QED
  BY <1>1, <1>5

Refund(r, i, o) ==
    CASE Wraps(r) -> i + Rent [] Unwraps(r) -> o + Rent [] OTHER -> 0
ClosedIn(r, i)  == IF Wraps(r) THEN Absent ELSE i
ClosedOut(r, o) == IF Unwraps(r) THEN Absent ELSE o

LEMMA CleanupStage ==
  ASSUME NEW r \in SwapRequest, NEW m,
         NEW u \in Nat, NEW w \in Nat, NEW i \in Nat, NEW o \in Nat \cup {Absent}, NEW d,
         ~r.dest => o # Absent
  PROVE  RunFrom(State(u, w, i, o, d, 0), Cleanup(r), m)
           = State(u + Len(Cleanup(r)), w + Refund(r, i, o),
                   ClosedIn(r, i), ClosedOut(r, o), d, 0)
<1> DEFINE run == State(u, w, i, o, d, 0)
<1> USE RuntimeAssumption
<1>1. CASE Wraps(r)
  <2>1. Cleanup(r) = <<CloseAccount("input")>> /\ ~Unwraps(r)
    BY <1>1 DEF Cleanup, Wraps, Unwraps
  <2>2. RunFrom(run, Cleanup(r), m) = Step(run, CloseAccount("input"), m)
    BY <2>1, RunOne
  <2>3. Step(run, CloseAccount("input"), m) = State(u + 1, w + i + Rent, Absent, o, d, 0)
    BY StepCloseInput
  <2>4. Len(Cleanup(r)) = 1 /\ Refund(r, i, o) = i + Rent /\ w + (i + Rent) = w + i + Rent
    BY <1>1, <2>1 DEF Refund
  <2> QED
    BY <1>1, <2>1, <2>2, <2>3, <2>4 DEF ClosedIn, ClosedOut
<1>2. CASE Unwraps(r)
  <2>1. Cleanup(r) = <<CloseAccount("output")>> /\ ~Wraps(r)
    BY <1>2 DEF Cleanup, Wraps, Unwraps
  <2>2. RunFrom(run, Cleanup(r), m) = Step(run, CloseAccount("output"), m)
    BY <2>1, RunOne
  <2>3. o \in Nat
    BY <1>2 DEF Unwraps
  <2>4. Step(run, CloseAccount("output"), m) = State(u + 1, w + o + Rent, i, Absent, d, 0)
    <3>1. \A n \in Nat : Step(State(u, w, i, n, d, 0), CloseAccount("output"), m)
                           = State(u + 1, w + n + Rent, i, Absent, d, 0)
      BY StepCloseOutput
    <3> QED
      BY <2>3, <3>1
  <2>5. Len(Cleanup(r)) = 1 /\ Refund(r, i, o) = o + Rent /\ w + (o + Rent) = w + o + Rent
    BY <1>2, <2>1, <2>3 DEF Refund
  <2> QED
    BY <1>2, <2>1, <2>2, <2>4, <2>5 DEF ClosedIn, ClosedOut
<1>3. CASE ~Wraps(r) /\ ~Unwraps(r)
  <2>1. Cleanup(r) = <<>>
    BY <1>3 DEF Cleanup, Wraps, Unwraps
  <2>2. RunFrom(run, Cleanup(r), m) = run
    BY <2>1, RunNil
  <2>3. Len(Cleanup(r)) = 0 /\ Refund(r, i, o) = 0 /\ u + 0 = u /\ w + 0 = w
    BY <1>3, <2>1 DEF Refund
  <2> QED
    BY <1>3, <2>2, <2>3 DEF ClosedIn, ClosedOut
<1> QED
  BY <1>1, <1>2, <1>3

-----------------------------------------------------------------------------
(* A whole transaction, with budget instructions B and tip instructions T. *)
Built(r, B, T) ==
    B \o (InputSetup(r) \o OutputSetup(r) \o T) \o <<SwapIx(r)>> \o Cleanup(r)

Ix(r) == BudgetIx \cup {Tip(v) : v \in Nat}
         \cup {CreateAta("input"), CreateAta("output"), Transfer(InAmount), SyncNative,
               SwapIx(r), CloseAccount("input"), CloseAccount("output")}

LEMMA PartsAreInstructions ==
  ASSUME NEW r \in SwapRequest, NEW B \in Seq(BudgetIx),
         NEW T \in TipSeqs
  PROVE  /\ B \in Seq(Ix(r)) /\ T \in Seq(Ix(r))
         /\ InputSetup(r) \in Seq(Ix(r)) /\ OutputSetup(r) \in Seq(Ix(r))
         /\ <<SwapIx(r)>> \in Seq(Ix(r)) /\ Cleanup(r) \in Seq(Ix(r))
<1> DEFINE v == Tipped(T)
<1>0. v \in Nat /\ ((T = <<>> /\ v = 0) \/ T = <<Tip(v)>>)
  BY TippedFacts
<1> HIDE DEF v
<1>1. BudgetIx \subseteq Ix(r) /\ Tip(v) \in Ix(r) /\ SwapIx(r) \in Ix(r)
  BY <1>0 DEF Ix
<1>2. /\ CreateAta("input") \in Ix(r) /\ CreateAta("output") \in Ix(r)
      /\ Transfer(InAmount) \in Ix(r) /\ SyncNative \in Ix(r)
      /\ CloseAccount("input") \in Ix(r) /\ CloseAccount("output") \in Ix(r)
  BY DEF Ix
<1> DEFINE X == Ix(r)
<1> HIDE DEF X
<1>3. B \in Seq(X) /\ T \in Seq(X) /\ <<SwapIx(r)>> \in Seq(X)
  <2>1. BudgetIx \subseteq X /\ Tip(v) \in X /\ SwapIx(r) \in X
    BY <1>1 DEF X
  <2>2. <<Tip(v)>> \in Seq(X) /\ <<SwapIx(r)>> \in Seq(X) /\ <<>> \in Seq(X)
    BY <2>1
  <2>3. B \in Seq(X)
    BY <2>1
  <2> QED
    BY <1>0, <2>2, <2>3
<1>4. InputSetup(r) \in Seq(X)
  <2>1. <<CreateAta("input")>> \in Seq(X) /\ <<Transfer(InAmount), SyncNative>> \in Seq(X)
        /\ <<>> \in Seq(X)
    BY <1>2 DEF X
  <2> QED
    BY <2>1 DEF InputSetup
<1>5. OutputSetup(r) \in Seq(X)
  BY <1>2 DEF X, OutputSetup
<1>6. Cleanup(r) \in Seq(X)
  <2>1. <<CloseAccount("input")>> \in Seq(X) /\ <<CloseAccount("output")>> \in Seq(X)
        /\ <<>> \in Seq(X)
    BY <1>2 DEF X
  <2> QED
    BY <2>1 DEF Cleanup
<1> QED
  BY <1>3, <1>4, <1>5, <1>6 DEF X

LEMMA RunParts ==
  ASSUME NEW r \in SwapRequest, NEW B \in Seq(BudgetIx),
         NEW T \in TipSeqs,
         NEW run, NEW m
  PROVE  LET funded == RunFrom(RunFrom(RunFrom(RunFrom(run, B, m),
                                               InputSetup(r), m),
                                       OutputSetup(r), m), T, m)
         IN  /\ RunFrom(run, Built(r, B, T), m)
                  = RunFrom(Step(funded, SwapIx(r), m), Cleanup(r), m)
             /\ Built(r, B, T) \in Seq(Ix(r))
<1> DEFINE X == Ix(r)
           I == InputSetup(r)
           O == OutputSetup(r)
           S == <<SwapIx(r)>>
           C == Cleanup(r)
<1>1. /\ B \in Seq(X) /\ I \in Seq(X) /\ O \in Seq(X) /\ T \in Seq(X)
      /\ S \in Seq(X) /\ C \in Seq(X)
  BY PartsAreInstructions
<1>2. RunFrom(RunFrom(RunFrom(RunFrom(RunFrom(run, B, m), I, m), O, m), T, m), S, m)
        = Step(RunFrom(RunFrom(RunFrom(RunFrom(run, B, m), I, m), O, m), T, m),
               SwapIx(r), m)
  BY RunOne
<1>3. Built(r, B, T) = B \o (I \o O \o T) \o S \o C
  BY DEF Built
<1> HIDE DEF X, I, O, S, C
<1> DEFINE IO == I \o O
           IOT == IO \o T
           BIOT == B \o IOT
           BS == BIOT \o S
<1>4. /\ IO \in Seq(X) /\ IOT \in Seq(X) /\ BIOT \in Seq(X) /\ BS \in Seq(X)
      /\ BS \o C \in Seq(X)
  BY <1>1
<1>5. \A q : RunFrom(q, IO, m) = RunFrom(RunFrom(q, I, m), O, m)
  BY <1>1, RunConcat
<1> HIDE DEF IO
<1>6. \A q : RunFrom(q, IOT, m) = RunFrom(RunFrom(q, IO, m), T, m)
  BY <1>1, <1>4, RunConcat
<1> HIDE DEF IOT
<1>7. RunFrom(run, BIOT, m) = RunFrom(RunFrom(run, B, m), IOT, m)
  BY <1>1, <1>4, RunConcat
<1> HIDE DEF BIOT
<1>8. RunFrom(run, BS, m) = RunFrom(RunFrom(run, BIOT, m), S, m)
  BY <1>1, <1>4, RunConcat
<1> HIDE DEF BS
<1>9. RunFrom(run, BS \o C, m) = RunFrom(RunFrom(run, BS, m), C, m)
  BY <1>1, <1>4, RunConcat
<1>10. Built(r, B, T) = BS \o C
  BY <1>3 DEF BS, BIOT, IOT, IO
<1>11. RunFrom(run, Built(r, B, T), m)
         = RunFrom(Step(RunFrom(RunFrom(RunFrom(RunFrom(run, B, m), I, m), O, m), T, m),
                        SwapIx(r), m), C, m)
  BY <1>2, <1>5, <1>6, <1>7, <1>8, <1>9, <1>10
<1> QED
  BY <1>4, <1>10, <1>11 DEF X, I, O, C

(* The units of a transaction that runs through, and what it takes from    *)
(* the wallet before the swap.                                             *)
UnitsOf(r, cost, i, o, B, T) ==
    Len(B) + InUnits(r, i) + OutUnits(r, o) + Len(T) + cost + Len(Cleanup(r))

Passes(r, drift, cost, w, i, o, d, T) ==
    /\ w >= InNeeds(r, i) + OutNeeds(r, o) + Tipped(T)
    /\ InHolds(r, i) >= Market(r, drift, cost).draws
    /\ Target(r, OutHolds(r, o), d) # Absent
    /\ drift <= Slippage

Final(r, drift, cost, w, i, o, d, B, T) ==
    LET m    == Market(r, drift, cost)
        left == InHolds(r, i) - m.draws
        got  == Plus(OutHolds(r, o), ~r.dest, m.gives)
    IN  State(UnitsOf(r, cost, i, o, B, T),
              w - (InNeeds(r, i) + OutNeeds(r, o) + Tipped(T)) + Refund(r, left, got),
              ClosedIn(r, left), ClosedOut(r, got), Plus(d, r.dest, m.gives), 0)

LEMMA TransactionRun ==
  ASSUME NEW r \in SwapRequest, NEW drift \in Drifts, NEW cost \in Nat,
         NEW w \in Nat, NEW i \in Nat \cup {Absent}, NEW o \in Nat \cup {Absent},
         NEW d \in Nat \cup {Absent}, NEW B \in Seq(BudgetIx), NEW T \in TipSeqs
  PROVE  LET next == RunFrom(State(0, w, i, o, d, 0), Built(r, B, T), Market(r, drift, cost))
         IN  IF Passes(r, drift, cost, w, i, o, d, T)
               THEN next = Final(r, drift, cost, w, i, o, d, B, T)
               ELSE ~next.ok
<1> DEFINE m == Market(r, drift, cost)
           v == Tipped(T)
           X == Ix(r)
           S == SwapIx(r)
           C == Cleanup(r)
           in == InNeeds(r, i)
           out == OutNeeds(r, o)
           i1 == InHolds(r, i)
           o1 == OutHolds(r, o)
           u0 == Len(B)
           u1 == u0 + InUnits(r, i)
           u2 == u1 + OutUnits(r, o)
           u3 == u2 + Len(T)
           u4 == u3 + cost
           r0 == State(0, w, i, o, d, 0)
           r1 == RunFrom(r0, B, m)
           r2 == RunFrom(r1, InputSetup(r), m)
           r3 == RunFrom(r2, OutputSetup(r), m)
           r4 == RunFrom(r3, T, m)
           r5 == Step(r4, S, m)
           r6 == RunFrom(r5, C, m)
<1>0. v \in Nat /\ ((T = <<>> /\ v = 0) \/ T = <<Tip(v)>>)
  BY TippedFacts
<1> HIDE DEF v
<1>1. RunFrom(r0, Built(r, B, T), m) = r6
  BY RunParts
<1>2. /\ InputSetup(r) \in Seq(X) /\ OutputSetup(r) \in Seq(X) /\ T \in Seq(X)
      /\ C \in Seq(X) /\ Len(T) \in Nat /\ Len(B) \in Nat
  <2>1. /\ InputSetup(r) \in Seq(X) /\ OutputSetup(r) \in Seq(X) /\ T \in Seq(X)
        /\ C \in Seq(X)
    BY PartsAreInstructions
  <2> QED
    BY <2>1
<1>3. m.draws \in Nat /\ m.gives \in Nat
  BY MarketFacts
<1>4. r1 = State(u0, w, i, o, d, 0)
  <2>1. r1 = State(0 + u0, w, i, o, d, 0)
    BY BudgetStage
  <2> QED
    BY <1>2, <2>1
<1>5. /\ IF w >= in THEN r2 = State(u1, w - in, i1, o, d, 0) ELSE ~r2.ok
      /\ in \in Nat /\ InUnits(r, i) \in Nat /\ i1 \in Nat \cup {Absent}
  <2>1. in \in Nat /\ InUnits(r, i) \in Nat /\ i1 \in Nat \cup {Absent}
    BY InputFacts
  <2>2. \A u \in Nat :
          LET next == RunFrom(State(u, w, i, o, d, 0), InputSetup(r), m)
          IN  IF w >= in THEN next = State(u + InUnits(r, i), w - in, i1, o, d, 0)
                         ELSE ~next.ok
    BY InputStage
  <2>3. u0 \in Nat
    BY <1>2
  <2> HIDE DEF u0
  <2> QED
    BY <1>4, <2>1, <2>2, <2>3
<1>6. /\ out \in Nat /\ OutUnits(r, o) \in Nat /\ o1 \in Nat \cup {Absent}
      /\ \A u, x \in Nat, y \in Nat \cup {Absent} :
            LET next == RunFrom(State(u, x, y, o, d, 0), OutputSetup(r), m)
            IN  IF x >= out THEN next = State(u + OutUnits(r, o), x - out, y, o1, d, 0)
                            ELSE ~next.ok
  BY OutputStage, OutputFacts
<1>7. u0 \in Nat /\ u1 \in Nat /\ u2 \in Nat /\ u3 \in Nat /\ u4 \in Nat
  <2>1. u0 \in Nat /\ Len(T) \in Nat
    BY <1>2, RuntimeAssumption
  <2>2. InUnits(r, i) \in Nat /\ OutUnits(r, o) \in Nat
    BY <1>5, <1>6
  <2> HIDE DEF u0
  <2>3. u1 \in Nat
    BY <2>1, <2>2
  <2> HIDE DEF u1
  <2>4. u2 \in Nat
    BY <2>2, <2>3
  <2> HIDE DEF u2
  <2> QED
    BY <2>1, <2>3, <2>4
(* A refusal in one of the parts is the end of the run.                    *)
<1>8. /\ ~r2.ok => ~r3.ok
      /\ ~r3.ok => ~r4.ok
      /\ ~r4.ok => ~r5.ok
      /\ ~r5.ok => ~r6.ok
  <2> HIDE DEF X, S, C, m, r2
  <2>1. ~r2.ok => ~r3.ok
    BY <1>2, RefusedStays
  <2> HIDE DEF r3
  <2>2. ~r3.ok => ~r4.ok
    BY <1>2, RefusedStays
  <2> HIDE DEF r4
  <2>3. ~r4.ok => ~r5.ok
    BY DEF Step
  <2> HIDE DEF r5
  <2>4. ~r5.ok => ~r6.ok
    BY <1>2, RefusedStays
  <2> QED
    BY <2>1, <2>2, <2>3, <2>4
<1> HIDE DEF in, out, i1, o1, u0, u1, u2, u3, u4
<1>9. CASE ~(w >= in + out + v)
  <2>1. ~r4.ok
    <3>1. CASE ~(w >= in)
      BY <1>5, <1>8, <3>1
    <3>2. CASE w >= in /\ ~(w - in >= out)
      <4>1. r2 = State(u1, w - in, i1, o, d, 0) /\ w - in \in Nat
        BY <1>5, <3>2
      <4>2. ~r3.ok
        BY <1>5, <1>6, <1>7, <3>2, <4>1
      <4> QED
        BY <1>8, <4>2
    <3>3. CASE w >= in /\ w - in >= out
      <4>1. r2 = State(u1, w - in, i1, o, d, 0) /\ w - in \in Nat
        BY <1>5, <3>3
      <4>2. r3 = State(u2, w - in - out, i1, o1, d, 0)
        BY <1>5, <1>6, <1>7, <3>3, <4>1 DEF u2
      <4>3. w - in - out \in Nat /\ ~(w - in - out >= v)
        BY <1>0, <1>5, <1>6, <1>9, <3>3
      <4> QED
        BY <1>0, <1>7, <4>2, <4>3, TipStage
    <3> QED
      BY <3>1, <3>2, <3>3
  <2> QED
    BY <1>1, <1>8, <1>9, <2>1 DEF Passes, in, out, v
<1>10. CASE w >= in + out + v
  <2> DEFINE w1 == w - in
             w2 == w - in - out
             w3 == w - in - out - v
  <2>1. w1 \in Nat /\ w1 >= out /\ w >= in /\ w2 \in Nat /\ w2 >= v /\ w3 \in Nat
    BY <1>0, <1>5, <1>6, <1>10
  <2>2. r2 = State(u1, w1, i1, o, d, 0)
    BY <1>5, <2>1
  <2>3. r3 = State(u2, w2, i1, o1, d, 0)
    BY <1>5, <1>6, <1>7, <2>1, <2>2 DEF u2
  <2>4. r4 = State(u3, w3, i1, o1, d, 0)
    <3> HIDE DEF w2
    <3>1. w2 - v = w3
      BY <2>1 DEF w2
    <3> QED
      BY <1>0, <1>7, <2>1, <2>3, <3>1, TipStage DEF u3
  <2>5. IF i1 >= m.draws /\ Target(r, o1, d) # Absent /\ drift <= Slippage
          THEN r5 = State(u4, w3, i1 - m.draws, Plus(o1, ~r.dest, m.gives),
                          Plus(d, r.dest, m.gives), 0)
          ELSE ~r5.ok
    <3>1. \A u, x \in Nat, a \in Nat \cup {Absent}, b \in Nat \cup {Absent} :
            LET next == Step(State(u, x, a, b, d, 0), S, m)
            IN  IF a >= m.draws /\ Target(r, b, d) # Absent /\ drift <= Slippage
                  THEN next = State(u + cost, x, a - m.draws, Plus(b, ~r.dest, m.gives),
                                    Plus(d, r.dest, m.gives), 0)
                  ELSE ~next.ok
      BY StepSwap
    <3>2. /\ w3 \in Nat /\ u3 \in Nat
          /\ i1 \in Nat \cup {Absent} /\ o1 \in Nat \cup {Absent}
      BY <1>5, <1>6, <1>7, <2>1
    <3>3. LET next == Step(State(u3, w3, i1, o1, d, 0), S, m)
          IN  IF i1 >= m.draws /\ Target(r, o1, d) # Absent /\ drift <= Slippage
                THEN next = State(u3 + cost, w3, i1 - m.draws,
                                  Plus(o1, ~r.dest, m.gives), Plus(d, r.dest, m.gives), 0)
                ELSE ~next.ok
      <4> HIDE DEF w3, m, S
      <4> QED
        BY <3>1, <3>2
    <3> QED
      BY <2>4, <3>3 DEF u4
  <2> HIDE DEF w3
  <2>6. CASE ~(i1 >= m.draws /\ Target(r, o1, d) # Absent /\ drift <= Slippage)
    BY <1>1, <1>8, <2>5, <2>6 DEF Passes, i1, o1
  <2>7. CASE i1 >= m.draws /\ Target(r, o1, d) # Absent /\ drift <= Slippage
    <3> DEFINE left == i1 - m.draws
               got == Plus(o1, ~r.dest, m.gives)
               d1 == Plus(d, r.dest, m.gives)
    <3>1. left \in Nat
      BY <1>3, <1>5, <2>7 DEF Absent
    <3>2. got \in Nat \cup {Absent} /\ (~r.dest => got # Absent)
      <4>1. CASE r.dest
        BY <1>6, <4>1 DEF Plus
      <4>2. CASE ~r.dest
        <5>1. o1 \in Nat
          BY <1>6, <2>7, <4>2 DEF Target
        <5>2. got = o1 + m.gives
          BY <4>2 DEF Plus
        <5> QED
          BY <1>3, <5>1, <5>2 DEF Absent
      <4> QED
        BY <4>1, <4>2
    <3>3. r5 = State(u4, w3, left, got, d1, 0)
      BY <2>5, <2>7
    <3> HIDE DEF left, got, d1
    <3>4. r6 = State(u4 + Len(C), w3 + Refund(r, left, got),
                     ClosedIn(r, left), ClosedOut(r, got), d1, 0)
      BY <1>7, <2>1, <3>1, <3>2, <3>3, CleanupStage
    <3>5. u4 + Len(C) = UnitsOf(r, cost, i, o, B, T)
      BY DEF UnitsOf, u4, u3, u2, u1, u0
    <3>6. w3 = w - (in + out + v)
      BY <1>0, <1>5, <1>6 DEF w3
    <3> QED
      BY <1>1, <1>10, <2>7, <3>4, <3>5, <3>6
         DEF Passes, Final, in, out, i1, o1, left, got, d1, v
  <2> QED
    BY <2>6, <2>7
<1> QED
  BY <1>9, <1>10

-----------------------------------------------------------------------------
(***************************************************************************)
(* The same in the terms of the request: Funded, Settled and the units.    *)
(***************************************************************************)

(* Rent is due for each of the two accounts that is asked for and missing. *)
LEMMA RentDueSum ==
  ASSUME NEW S \in SUBSET {"input", "output"}, NEW l \in Ledger
  PROVE  RentDue(S, l) = (IF "input" \in S THEN Missing(l.tokens["input"]) ELSE 0)
                         + (IF "output" \in S THEN Missing(l.tokens["output"]) ELSE 0)
<1> DEFINE T == {a \in S : l.tokens[a] = Absent}
<1> USE RuntimeAssumption
<1>1. RentDue(S, l) = Rent * Cardinality(T)
  BY DEF RentDue
<1>2. /\ "input" \in T <=> "input" \in S /\ l.tokens["input"] = Absent
      /\ "output" \in T <=> "output" \in S /\ l.tokens["output"] = Absent
      /\ T \in SUBSET {"input", "output"}
  OBVIOUS
<1> HIDE DEF T
<1>3. CASE "input" \in T /\ "output" \in T
  <2>1. T = {"input", "output"}
    BY <1>2, <1>3
  <2>2. Cardinality({"input"}) = 1 /\ IsFiniteSet({"input"})
    BY FS_Singleton
  <2>3. Cardinality({"input"} \cup {"output"}) = 1 + 1
    BY <2>2, FS_AddElement
  <2>4. {"input"} \cup {"output"} = T
    BY <2>1
  <2> QED
    BY <1>1, <1>2, <1>3, <2>3, <2>4 DEF Missing
<1>4. CASE "input" \in T /\ "output" \notin T
  <2>1. T = {"input"}
    BY <1>2, <1>4
  <2>2. Cardinality(T) = 1
    BY <2>1, FS_Singleton
  <2> QED
    BY <1>1, <1>2, <1>4, <2>2 DEF Missing
<1>5. CASE "input" \notin T /\ "output" \in T
  <2>1. T = {"output"}
    BY <1>2, <1>5
  <2>2. Cardinality(T) = 1
    BY <2>1, FS_Singleton
  <2> QED
    BY <1>1, <1>2, <1>5, <2>2 DEF Missing
<1>6. CASE "input" \notin T /\ "output" \notin T
  <2>1. T = {}
    BY <1>2, <1>6
  <2>2. Cardinality(T) = 0
    BY <2>1, FS_EmptySet
  <2> QED
    BY <1>1, <1>2, <1>6, <2>2 DEF Missing
<1> QED
  BY <1>3, <1>4, <1>5, <1>6

LEMMA TipFacts ==
  ASSUME NEW r \in SwapRequest
  PROVE  /\ TipOf(r) \in Nat
         /\ Tips(r) \in TipSeqs /\ Len(Tips(r)) <= 1
         /\ Tipped(Tips(r)) = TipOf(r)
<1>1. r.priofee.value \in Nat
  BY DEF SwapRequest, Options
<1>2. <<Tip(r.priofee.value)>> \in TipSeqs /\ <<>> \in TipSeqs
  BY <1>1 DEF TipSeqs
<1>3. Tipped(<<>>) = 0 /\ Tipped(<<Tip(r.priofee.value)>>) = r.priofee.value
  <2>1. <<Tip(r.priofee.value)>> # <<>>
        /\ <<Tip(r.priofee.value)>>[1].amount = r.priofee.value
    BY DEF Tip
  <2> QED
    BY <2>1 DEF Tipped
<1>4. CASE FeeBranch(r) = "tip"
  BY <1>1, <1>2, <1>3, <1>4 DEF TipOf, Tips
<1>5. CASE FeeBranch(r) # "tip"
  BY <1>2, <1>3, <1>5 DEF TipOf, Tips
<1> QED
  BY <1>4, <1>5

(* What a ledger holds, as the parts of a transaction see it.              *)
LEMMA LedgerFacts ==
  ASSUME NEW l \in Ledger
  PROVE  /\ l.wallet \in Nat
         /\ l.tokens["input"] \in Nat \cup {Absent}
         /\ l.tokens["output"] \in Nat \cup {Absent}
         /\ l.tokens["destination"] \in Nat \cup {Absent}
         /\ \A a \in Accounts : Held(l, a) = Balance(l.tokens[a])
         /\ Start(l) = State(0, l.wallet, l.tokens["input"], l.tokens["output"],
                             l.tokens["destination"], 0)
<1>1. /\ l.wallet \in Nat
      /\ l.tokens["input"] \in Nat \cup {Absent}
      /\ l.tokens["output"] \in Nat \cup {Absent}
      /\ l.tokens["destination"] \in Nat \cup {Absent}
  BY DEF Ledger
<1>2. \A a \in Accounts : Held(l, a) = Balance(l.tokens[a])
  BY DEF Held, Balance
<1> QED
  BY <1>1, <1>2, StartIsState

LEMMA LedgerRun ==
  ASSUME NEW r \in SwapRequest, NEW drift \in Drifts, NEW cost \in Nat, NEW l \in Ledger,
         NEW B \in Seq(BudgetIx), NEW T \in TipSeqs
  PROVE  LET w   == l.wallet
             i   == l.tokens["input"]
             o   == l.tokens["output"]
             d   == l.tokens["destination"]
             run == Execute(Built(r, B, T), l, Market(r, drift, cost))
         IN  /\ run.ok <=> Passes(r, drift, cost, w, i, o, d, T)
             /\ run.ok => run = Final(r, drift, cost, w, i, o, d, B, T)
<1> DEFINE w   == l.wallet
           i   == l.tokens["input"]
           o   == l.tokens["output"]
           d   == l.tokens["destination"]
           run == Execute(Built(r, B, T), l, Market(r, drift, cost))
<1>1. run = RunFrom(State(0, w, i, o, d, 0), Built(r, B, T), Market(r, drift, cost))
  BY LedgerFacts DEF Execute
<1>2. IF Passes(r, drift, cost, w, i, o, d, T)
        THEN run = Final(r, drift, cost, w, i, o, d, B, T)
        ELSE ~run.ok
  <2> HIDE DEF run
  <2> QED
    BY <1>1, LedgerFacts, TransactionRun
<1>3. Final(r, drift, cost, w, i, o, d, B, T).ok
  BY DEF Final, State
<1> QED
  BY <1>2, <1>3

(* A swap transaction runs through if and only if the market is within the *)
(* slippage and the user has what the swap takes: for every request, every *)
(* state of the accounts, every market and every budget.                   *)
THEOREM TransactionRunsIfFunded ==
  ASSUME NEW r \in SwapRequest, NEW drift \in Drifts, NEW cost \in Nat, NEW l \in Ledger,
         NEW B \in Seq(BudgetIx)
  PROVE  Execute(Built(r, B, Tips(r)), l, Market(r, drift, cost)).ok <=> Funded(r, l, drift)
<1> DEFINE m == Market(r, drift, cost)
           w == l.wallet
           i == l.tokens["input"]
           o == l.tokens["output"]
           d == l.tokens["destination"]
           run == Execute(Built(r, B, Tips(r)), l, m)
           needs == InNeeds(r, i) + OutNeeds(r, o) + TipOf(r)
<1>1. /\ w \in Nat /\ i \in Nat \cup {Absent} /\ o \in Nat \cup {Absent}
      /\ d \in Nat \cup {Absent}
      /\ Held(l, "input") = Balance(i)
  BY LedgerFacts DEF Accounts
<1>2. run.ok <=> /\ w >= needs
                 /\ InHolds(r, i) >= m.draws
                 /\ Target(r, OutHolds(r, o), d) # Absent
                 /\ drift <= Slippage
  <2> DEFINE T == Tips(r)
  <2>1. T \in TipSeqs /\ Tipped(T) = TipOf(r)
    BY TipFacts
  <2> HIDE DEF T
  <2>2. Execute(Built(r, B, T), l, m).ok <=> Passes(r, drift, cost, w, i, o, d, T)
    BY <2>1, LedgerRun
  <2> QED
    BY <2>1, <2>2 DEF T, Passes
<1>3. m.draws \in Nat
  BY MarketFacts
<1>4. TipOf(r) \in Nat /\ InAmount \in Nat /\ Rent \in Nat
  BY TipFacts, SwapAssumption, RuntimeAssumption
<1>5. needs = RentDue(Needs(r), l) + TipOf(r) + (IF Wraps(r) THEN InAmount ELSE 0)
  <2>1. RentDue(Needs(r), l) = (IF r.pair = "sol_in" THEN Missing(i) ELSE 0)
                               + (IF r.dest THEN 0 ELSE Missing(o))
    <3>1. /\ Needs(r) \in SUBSET {"input", "output"}
          /\ "input" \in Needs(r) <=> r.pair = "sol_in"
          /\ "output" \in Needs(r) <=> ~r.dest
      BY DEF Needs
    <3>2. RentDue(Needs(r), l) = (IF "input" \in Needs(r) THEN Missing(i) ELSE 0)
                                 + (IF "output" \in Needs(r) THEN Missing(o) ELSE 0)
      BY <3>1, RentDueSum
    <3> QED
      BY <3>1, <3>2
  <2>2. Missing(i) \in Nat /\ Missing(o) \in Nat
    BY <1>4 DEF Missing
  <2> HIDE DEF i, o
  <2> QED
    BY <1>4, <2>1, <2>2 DEF InNeeds, OutNeeds
<1>6. Target(r, OutHolds(r, o), d) # Absent <=> (r.dest => d # Absent)
  BY <1>1 DEF Target, OutHolds, Balance, Absent
<1>7. InHolds(r, i) >= m.draws
        <=> /\ r.pair # "sol_in" => i # Absent
            /\ m.draws <= Held(l, "input") + (IF Wraps(r) THEN InAmount ELSE 0)
  <2> HIDE DEF i, m
  <2>1. CASE r.pair = "sol_in"
    BY <1>1, <1>3, <1>4, <2>1 DEF InHolds, Balance
  <2>2. CASE r.pair # "sol_in"
    <3>1. InHolds(r, i) = i /\ ~Wraps(r)
      BY <2>2 DEF InHolds, Wraps
    <3>2. CASE i = Absent
      BY <1>3, <2>2, <3>1, <3>2 DEF Absent
    <3>3. CASE i # Absent
      BY <1>1, <1>3, <2>2, <3>1, <3>3 DEF Balance
    <3> QED
      BY <3>2, <3>3
  <2> QED
    BY <2>1, <2>2
<1> HIDE DEF run, needs
<1> QED
  BY <1>2, <1>5, <1>6, <1>7 DEF Funded, Market, run

(* A swap that wraps leaves nothing in the native account: what the pool   *)
(* did not draw and the rent are back in the wallet; a swap that unwraps   *)
(* pays out the output and the rent; otherwise the accounts change by the  *)
(* swap alone, the wallet by the tip and the rent of new accounts.         *)
THEOREM TransactionSettles ==
  ASSUME NEW r \in SwapRequest, NEW drift \in Drifts, NEW cost \in Nat, NEW l \in Ledger,
         NEW B \in Seq(BudgetIx),
         Execute(Built(r, B, Tips(r)), l, Market(r, drift, cost)).ok
  PROVE  Settled(r, l, Market(r, drift, cost),
                 Execute(Built(r, B, Tips(r)), l, Market(r, drift, cost)).ledger)
<1> DEFINE m == Market(r, drift, cost)
           w == l.wallet
           i == l.tokens["input"]
           o == l.tokens["output"]
           d == l.tokens["destination"]
           run == Execute(Built(r, B, Tips(r)), l, m)
           after == run.ledger
           left == InHolds(r, i) - m.draws
           got == Plus(OutHolds(r, o), ~r.dest, m.gives)
           t == TipOf(r)
<1>1. /\ w \in Nat /\ i \in Nat \cup {Absent} /\ o \in Nat \cup {Absent}
      /\ d \in Nat \cup {Absent}
      /\ Held(l, "input") = Balance(i) /\ Held(l, "output") = Balance(o)
      /\ Held(l, "destination") = Balance(d)
  BY LedgerFacts DEF Accounts
<1>2. t \in Nat /\ InAmount \in Nat /\ Rent \in Nat /\ m.draws \in Nat /\ m.gives \in Nat
  BY TipFacts, MarketFacts, SwapAssumption, RuntimeAssumption
<1>3. /\ Passes(r, drift, cost, w, i, o, d, Tips(r))
      /\ run = Final(r, drift, cost, w, i, o, d, B, Tips(r))
  BY LedgerRun, TipFacts
<1>4. /\ after.wallet = w - (InNeeds(r, i) + OutNeeds(r, o) + t) + Refund(r, left, got)
      /\ after.tokens["input"] = ClosedIn(r, left)
      /\ after.tokens["output"] = ClosedOut(r, got)
      /\ after.tokens["destination"] = Plus(d, r.dest, m.gives)
  BY <1>3, TipFacts DEF Final, State
<1>5. /\ InHolds(r, i) >= m.draws
      /\ Target(r, OutHolds(r, o), d) # Absent
  BY <1>3 DEF Passes
<1>6. /\ Missing(i) \in Nat /\ Missing(o) \in Nat /\ Balance(i) \in Nat /\ Balance(o) \in Nat
      /\ InHolds(r, i) \in Nat \cup {Absent}
  BY <1>1, InputFacts, OutputFacts
<1>7. /\ i # Absent => Balance(i) = i /\ Missing(i) = 0
      /\ i = Absent => Balance(i) = 0 /\ Missing(i) = Rent
      /\ o # Absent => Balance(o) = o /\ Missing(o) = 0
      /\ o = Absent => Balance(o) = 0 /\ Missing(o) = Rent
  BY DEF Balance, Missing
<1>8. \A S \in SUBSET {"input", "output"} :
        RentDue(S, l) = (IF "input" \in S THEN Missing(i) ELSE 0)
                        + (IF "output" \in S THEN Missing(o) ELSE 0)
  BY RentDueSum
<1>9. /\ "input" \in Needs(r) <=> r.pair = "sol_in"
      /\ "output" \in Needs(r) <=> ~r.dest
      /\ Needs(r) \in SUBSET {"input", "output"}
  BY DEF Needs
<1>10. /\ RentDue({"output"} \cap Needs(r), l) = OutNeeds(r, o)
       /\ RentDue({"input", "output"} \cap Needs(r), l)
            = (IF r.pair = "sol_in" THEN Missing(i) ELSE 0) + OutNeeds(r, o)
  <2>1. RentDue({"output"} \cap Needs(r), l)
          = 0 + (IF "output" \in Needs(r) THEN Missing(o) ELSE 0)
    BY <1>8
  <2>2. RentDue({"input", "output"} \cap Needs(r), l)
          = (IF "input" \in Needs(r) THEN Missing(i) ELSE 0)
            + (IF "output" \in Needs(r) THEN Missing(o) ELSE 0)
    BY <1>8
  <2> HIDE DEF i, o
  <2> QED
    BY <1>6, <1>9, <2>1, <2>2 DEF OutNeeds
(* The account the output goes to, whichever it is.                        *)
<1>11. Unwraps(r)
         \/ after.tokens[SwapIx(r).target] = Held(l, SwapIx(r).target) + m.gives
  <2>1. CASE r.dest
    <3>1. SwapIx(r).target = "destination"
      BY <2>1 DEF SwapIx
    <3>2. d # Absent /\ Balance(d) = d
      BY <1>5, <2>1 DEF Target, Balance
    <3> QED
      BY <1>1, <1>4, <2>1, <3>1, <3>2 DEF Plus
  <2>2. CASE ~r.dest
    <3>1. SwapIx(r).target = "output"
      BY <2>2 DEF SwapIx
    <3>2. got = Balance(o) + m.gives
      BY <2>2 DEF Plus, OutHolds
    <3> QED
      BY <1>1, <1>4, <3>1, <3>2 DEF ClosedOut
  <2> QED
    BY <2>1, <2>2
<1> HIDE DEF w, i, o, d, m, run, t
<1>12. CASE Wraps(r)
  <2>1. r.pair = "sol_in" /\ ~Unwraps(r)
    BY <1>12 DEF Wraps, Unwraps
  <2>2. left = Balance(i) + InAmount - m.draws /\ InNeeds(r, i) = Missing(i) + InAmount
    BY <1>2, <1>6, <1>12, <2>1 DEF InHolds, InNeeds
  <2>3. Refund(r, left, got) = left + Rent
    BY <1>12, <2>1 DEF Refund
  <2>4. Worth(l, "input") = Balance(i) + Rent - Missing(i)
    BY <1>1, <1>2, <1>7 DEF Worth, i
  <2>5. OutNeeds(r, o) \in Nat
    BY <1>1, OutputFacts
  <2>6. after.wallet = w + Worth(l, "input") - m.draws - t - OutNeeds(r, o)
    <3> DEFINE rent == OutNeeds(r, o)
               gap  == Missing(i)
               has  == Balance(i)
               draw == m.draws
               pay  == after.wallet
               wrth == Worth(l, "input")
               need == InNeeds(r, i)
    <3>1. pay = w - (need + rent + t) + (left + Rent)
      BY <1>4, <2>3
    <3>2. left = has + InAmount - draw /\ need = gap + InAmount /\ wrth = has + Rent - gap
      BY <2>2, <2>4
    <3>3. /\ rent \in Int /\ gap \in Int /\ has \in Int /\ draw \in Int
          /\ w \in Int /\ t \in Int /\ InAmount \in Int /\ Rent \in Int
      BY <1>1, <1>2, <1>6, <2>5
    <3> HIDE DEF left, got, after, rent, gap, has, draw, pay, wrth, need
    <3>4. pay = w + wrth - draw - t - rent
      BY <3>1, <3>2, <3>3
    <3> QED
      BY <3>4 DEF rent, draw, pay, wrth
  <2> QED
    BY <1>4, <1>10, <1>11, <1>12, <2>1, <2>6 DEF Settled, ClosedIn, w, m, run, t
<1>13. CASE Unwraps(r)
  <2>1. r.pair = "sol_out" /\ ~Wraps(r) /\ ~r.dest
    BY <1>13 DEF Wraps, Unwraps
  <2>2. /\ InNeeds(r, i) = 0 /\ OutNeeds(r, o) = Missing(o)
        /\ got = Balance(o) + m.gives /\ left = i - m.draws
    BY <2>1 DEF InNeeds, InHolds, OutNeeds, OutHolds, Plus
  <2>3. Refund(r, left, got) = got + Rent
    BY <1>13, <2>1 DEF Refund
  <2>4. Worth(l, "output") = Balance(o) + Rent - Missing(o)
    BY <1>1, <1>2, <1>7 DEF Worth, o
  <2>5. after.wallet = w + Worth(l, "output") + m.gives - t
    <3> DEFINE gap  == Missing(o)
               has  == Balance(o)
               gain == m.gives
               pay  == after.wallet
               wrth == Worth(l, "output")
               need == InNeeds(r, i) + OutNeeds(r, o)
    <3>1. pay = w - (need + t) + (got + Rent)
      BY <1>4, <2>3
    <3>2. got = has + gain /\ need = 0 + gap /\ wrth = has + Rent - gap
      BY <2>2, <2>4
    <3>3. /\ gap \in Int /\ has \in Int /\ gain \in Int
          /\ w \in Int /\ t \in Int /\ Rent \in Int
      BY <1>1, <1>2, <1>6
    <3> HIDE DEF left, got, after, gap, has, gain, pay, wrth, need
    <3>4. pay = w + wrth + gain - t
      BY <3>1, <3>2, <3>3
    <3> QED
      BY <3>4 DEF gain, pay, wrth
  <2> QED
    BY <1>4, <1>13, <2>1, <2>2, <2>5 DEF Settled, ClosedIn, ClosedOut, w, i, m, run, t
<1>14. CASE ~Wraps(r) /\ ~Unwraps(r)
  <2>1. Refund(r, left, got) = 0
    BY <1>14 DEF Refund
  <2>2. InNeeds(r, i) = IF r.pair = "sol_in" THEN Missing(i) ELSE 0
    BY <1>6, <1>14 DEF InNeeds
  <2>3. InHolds(r, i) = Balance(i)
    <3>1. CASE r.pair = "sol_in"
      BY <1>6, <1>14, <3>1 DEF InHolds
    <3>2. CASE r.pair # "sol_in"
      <4>1. InHolds(r, i) = i
        BY <3>2 DEF InHolds
      <4>2. i # Absent
        BY <1>2, <1>5, <4>1 DEF Absent
      <4> QED
        BY <1>7, <4>1, <4>2
    <3> QED
      BY <3>1, <3>2
  <2>4. InNeeds(r, i) \in Nat /\ OutNeeds(r, o) \in Nat
    BY <1>1, InputFacts, OutputFacts
  <2>5. after.wallet = w - t - (InNeeds(r, i) + OutNeeds(r, o))
    <3> HIDE DEF left, got, after
    <3> QED
      BY <1>1, <1>2, <1>4, <2>1, <2>4
  <2> QED
    BY <1>1, <1>4, <1>10, <1>11, <1>14, <2>2, <2>3, <2>5
       DEF Settled, ClosedIn, w, m, run, t
<1> QED
  BY <1>12, <1>13, <1>14

-----------------------------------------------------------------------------
(* The units of a transaction with every account in place, no budget and   *)
(* no tip, the swap apart; what the accounts to create can add to that.    *)
LeastUnits(r) == InUnits(r, 0) + OutUnits(r, 0) + Len(Cleanup(r))
Creations(r) == Overhead(r) - 2

LEMMA OverheadFacts ==
  ASSUME NEW r
  PROVE  Overhead(r) \in Nat /\ Creations(r) \in Nat /\ Overhead(r) = Creations(r) + 2
<1>1. CreateCost - 1 \in Nat
  BY RuntimeAssumption
<1> QED
  BY <1>1 DEF Overhead, Creations

LEMMA UnitsBounds ==
  ASSUME NEW r \in SwapRequest, NEW drift \in Drifts, NEW cost \in Nat, NEW l \in Ledger,
         NEW B \in Seq(BudgetIx), NEW T \in TipSeqs,
         Execute(Built(r, B, T), l, Market(r, drift, cost)).ok
  PROVE  LET units == Execute(Built(r, B, T), l, Market(r, drift, cost)).units
         IN  /\ units \in Nat /\ LeastUnits(r) \in Nat
             /\ LeastUnits(r) + cost + Len(B) + Len(T) <= units
             /\ units <= LeastUnits(r) + cost + Creations(r) + Len(B) + Len(T)
<1> DEFINE w == l.wallet
           i == l.tokens["input"]
           o == l.tokens["output"]
           d == l.tokens["destination"]
           run == Execute(Built(r, B, T), l, Market(r, drift, cost))
           b == Len(B)
           t == Len(T)
           c == Len(Cleanup(r))
           x == InUnits(r, i)
           y == OutUnits(r, o)
           x0 == InUnits(r, 0)
           y0 == OutUnits(r, 0)
           dx == IF r.pair = "sol_in" THEN CreateCost - 1 ELSE 0
           dy == IF r.dest THEN 0 ELSE CreateCost - 1
<1>1. i \in Nat \cup {Absent} /\ o \in Nat \cup {Absent} /\ 0 \in Nat \cup {Absent}
  BY LedgerFacts
<1>2. x \in Nat /\ y \in Nat /\ x0 \in Nat /\ y0 \in Nat
  BY <1>1, InputFacts, OutputFacts
<1>3. /\ CreateUnits(0) = 1 /\ CreateUnits(i) \in {1, CreateCost}
      /\ CreateUnits(o) \in {1, CreateCost}
      /\ CreateCost \in Nat /\ CreateCost >= 1
  BY RuntimeAssumption DEF CreateUnits, Absent
<1>4. x0 <= x /\ x <= x0 + dx /\ dx \in Nat
  <2> HIDE DEF i
  <2> QED
    BY <1>3 DEF InUnits
<1>5. y0 <= y /\ y <= y0 + dy /\ dy \in Nat
  <2> HIDE DEF o
  <2> QED
    BY <1>3 DEF OutUnits
<1>6. run.units = b + x + y + t + cost + c
  <2>1. run = Final(r, drift, cost, w, i, o, d, B, T)
    BY LedgerRun
  <2>2. run.units = UnitsOf(r, cost, i, o, B, T)
    BY <2>1 DEF Final, State
  <2> QED
    BY <2>2 DEF UnitsOf
<1>7. b \in Nat /\ c \in Nat /\ t \in Nat
  <2>1. Cleanup(r) \in Seq(Ix(r)) /\ T \in Seq(Ix(r)) /\ B \in Seq(Ix(r))
    BY PartsAreInstructions
  <2> QED
    BY <2>1
<1>8. LeastUnits(r) = x0 + y0 + c
  BY DEF LeastUnits
<1>9. Creations(r) = dx + dy
  <2>1. Overhead(r) = 2 + dx + dy
    BY DEF Overhead
  <2> HIDE DEF dx, dy
  <2> QED
    BY <1>4, <1>5, <2>1 DEF Creations
<1> HIDE DEF run, b, t, c, x, y, x0, y0, dx, dy
<1>10. /\ run.units \in Nat /\ LeastUnits(r) \in Nat
       /\ LeastUnits(r) + cost + b + t <= run.units
       /\ run.units <= LeastUnits(r) + cost + Creations(r) + b + t
  BY <1>2, <1>4, <1>5, <1>6, <1>7, <1>8, <1>9
<1> QED
  BY <1>10 DEF run, b, t

(* What the instructions of a response make of a transaction.              *)
LEMMA TransactionParts ==
  ASSUME NEW r \in SwapRequest, NEW B \in Seq(BudgetIx), NEW T \in TipSeqs, NEW ixs,
         ixs.budget = B,
         ixs.setup = InputSetup(r) \o OutputSetup(r) \o T,
         ixs.swap = SwapIx(r), ixs.cleanup = Cleanup(r)
  PROVE  build_transaction(ixs) = Built(r, B, T)
  BY DEF build_transaction, Built

LEMMA SimulatedTransaction ==
  ASSUME NEW r \in SwapRequest
  PROVE  /\ build_transaction(Instructions(r)) = Built(r, <<>>, <<>>)
         /\ <<>> \in Seq(BudgetIx) /\ <<>> \in TipSeqs
<1>1. <<>> \in Seq(BudgetIx) /\ <<>> \in TipSeqs
  BY DEF TipSeqs
<1>2. InputSetup(r) \o OutputSetup(r) = InputSetup(r) \o OutputSetup(r) \o <<>>
  <2>1. InputSetup(r) \in Seq(Ix(r)) /\ OutputSetup(r) \in Seq(Ix(r))
    BY <1>1, PartsAreInstructions
  <2>2. InputSetup(r) \o OutputSetup(r) \in Seq(Ix(r))
    BY <2>1
  <2> QED
    BY <2>2
<1>3. LET ixs == Instructions(r)
      IN  /\ ixs.budget = <<>> /\ ixs.setup = InputSetup(r) \o OutputSetup(r)
          /\ ixs.swap = SwapIx(r) /\ ixs.cleanup = Cleanup(r)
  BY DEF Instructions
<1> QED
  BY <1>1, <1>2, <1>3, TransactionParts

(* Estimates the fee may be computed from, of a service or of none.        *)
Estimate == [unit : Nat \cup {None}, transaction : Nat \cup {None}]

LEMMA TargetFeeType ==
  ASSUME NEW r \in SwapRequest, NEW e \in Estimate
  PROVE  TargetFee(r, e) \in Nat
<1>1. /\ r.priofee.value \in Nat /\ MultiplierFee \in Nat
      /\ MinPriorityFee \in Nat /\ MaxAutoFee \in Nat
  BY FeeAssumption DEF SwapRequest, Options
<1>2. r.priofee.value * MultiplierFee \in Nat
  BY <1>1
<1>3. auto_priofee(e.transaction) \in Nat
  <2>1. e.transaction \in Nat \cup {None}
    BY DEF Estimate
  <2> QED
    BY <1>1, <2>1 DEF auto_priofee, AtLeast, AtMost, None
<1> QED
  BY <1>2, <1>3 DEF TargetFee

LEMMA PriceType ==
  ASSUME NEW r \in SwapRequest, NEW e \in Estimate, NEW limit \in Nat \cup {None}
  PROVE  cu_price(r, e, limit) \in Nat
<1>1. r.cu_price.value \in Nat
  BY DEF SwapRequest, Options
<1>2. auto_cu_price(e.unit) \in Nat
  <2>1. e.unit \in Nat \cup {None}
    BY DEF Estimate
  <2> QED
    BY <2>1, FeeAssumption DEF auto_cu_price, AtLeast, None
<1> DEFINE units == IF limit = None THEN DefaultUnits ELSE limit
           fee == TargetFee(r, e)
<1>3. units \in Nat /\ fee \in Nat
  BY FeeAssumption, TargetFeeType
<1> HIDE DEF units, fee
<1>4. calculate_cu_price(fee, units) \in Nat
  BY <1>3, CuPriceProduct
<1> QED
  BY <1>1, <1>2, <1>4 DEF cu_price, units, fee

-----------------------------------------------------------------------------
(* The transaction that is sent: the instructions simulated, a budget of   *)
(* up to two instructions, and a tip where there is no price.              *)
Sent(r, e, limit) == WithFee(WithLimit(Instructions(r), limit), r, e, limit)

LimitPart(limit) == IF limit = None THEN <<>> ELSE <<Budget("limit", limit)>>
PricePart(r, e, limit) ==
    IF FeeBranch(r) = "tip" THEN <<>> ELSE <<Budget("price", cu_price(r, e, limit))>>
BudgetOf(r, e, limit) == LimitPart(limit) \o PricePart(r, e, limit)

LEMMA BudgetFacts ==
  ASSUME NEW r \in SwapRequest, NEW e \in Estimate, NEW limit \in Nat \cup {None}
  PROVE  /\ BudgetOf(r, e, limit) \in Seq(BudgetIx)
         /\ Len(BudgetOf(r, e, limit)) + Len(Tips(r)) <= 2
         /\ \A i \in DOMAIN BudgetOf(r, e, limit) :
              BudgetOf(r, e, limit)[i] = Budget("price", cu_price(r, e, limit))
              \/ BudgetOf(r, e, limit)[i].op = "limit"
         /\ FeeBranch(r) # "tip" =>
              \E i \in DOMAIN BudgetOf(r, e, limit) :
                BudgetOf(r, e, limit)[i] = Budget("price", cu_price(r, e, limit))
<1> DEFINE a == Budget("limit", limit)
           p == Budget("price", cu_price(r, e, limit))
           A == LimitPart(limit)
           P == PricePart(r, e, limit)
<1>1. a \in BudgetIx /\ p \in BudgetIx /\ a.op = "limit"
  BY PriceType DEF BudgetIx, Budget, None
<1>2. A = (IF limit = None THEN <<>> ELSE <<a>>)
      /\ P = (IF FeeBranch(r) = "tip" THEN <<>> ELSE <<p>>)
  BY DEF LimitPart, PricePart
<1>3. Len(Tips(r)) = (IF FeeBranch(r) = "tip" THEN 1 ELSE 0)
  BY DEF Tips
<1>4. BudgetOf(r, e, limit) = A \o P
  BY DEF BudgetOf
<1> HIDE DEF a, p, A, P
<1>5. A \in Seq(BudgetIx) /\ Len(A) \in 0 .. 1 /\ \A i \in DOMAIN A : A[i] = a
  <2>1. CASE limit = None
    BY <1>2, <2>1
  <2>2. CASE limit # None
    BY <1>1, <1>2, <2>2
  <2> QED
    BY <2>1, <2>2
<1>6. /\ P \in Seq(BudgetIx) /\ \A i \in DOMAIN P : P[i] = p
      /\ Len(P) = (IF FeeBranch(r) = "tip" THEN 0 ELSE 1)
  <2>1. CASE FeeBranch(r) = "tip"
    BY <1>2, <2>1
  <2>2. CASE FeeBranch(r) # "tip"
    BY <1>1, <1>2, <2>2
  <2> QED
    BY <2>1, <2>2
<1> DEFINE S == A \o P
<1>7. /\ S \in Seq(BudgetIx) /\ Len(S) = Len(A) + Len(P) /\ DOMAIN S = 1 .. Len(S)
      /\ \A i \in 1 .. Len(A) : S[i] = A[i]
      /\ \A i \in Len(A) + 1 .. Len(S) : i - Len(A) \in DOMAIN P /\ S[i] = P[i - Len(A)]
      /\ DOMAIN A = 1 .. Len(A) /\ DOMAIN P = 1 .. Len(P)
      /\ Len(A) \in Nat /\ Len(P) \in Nat
  BY <1>5, <1>6
<1> HIDE DEF S
<1>8. \A i \in DOMAIN S : S[i] = p \/ S[i].op = "limit"
  <2> TAKE i \in DOMAIN S
  <2>1. CASE i \in 1 .. Len(A)
    BY <1>1, <1>5, <1>7, <2>1
  <2>2. CASE i \in Len(A) + 1 .. Len(S)
    BY <1>6, <1>7, <2>2
  <2> QED
    BY <1>7, <2>1, <2>2
<1>9. FeeBranch(r) # "tip" => \E i \in DOMAIN S : S[i] = p
  <2> SUFFICES ASSUME FeeBranch(r) # "tip" PROVE \E i \in DOMAIN S : S[i] = p
    OBVIOUS
  <2>1. Len(A) + 1 \in DOMAIN S /\ S[Len(A) + 1] = p
    BY <1>6, <1>7
  <2> QED
    BY <2>1
<1>10. Len(S) + Len(Tips(r)) <= 2
  BY <1>3, <1>5, <1>6, <1>7
<1> QED
  BY <1>4, <1>7, <1>8, <1>9, <1>10 DEF S, p

LEMMA SentTransaction ==
  ASSUME NEW r \in SwapRequest, NEW e \in Estimate, NEW limit \in Nat \cup {None}
  PROVE  /\ Sent(r, e, limit).budget = BudgetOf(r, e, limit)
         /\ build_transaction(Sent(r, e, limit)) = Built(r, BudgetOf(r, e, limit), Tips(r))
<1> DEFINE ixs0 == Instructions(r)
           ixs1 == WithLimit(ixs0, limit)
           ixs2 == Sent(r, e, limit)
           IO == InputSetup(r) \o OutputSetup(r)
           p == Budget("price", cu_price(r, e, limit))
           v == Tip(r.priofee.value)
<1>1. ixs0 = [budget |-> <<>>, setup |-> IO, swap |-> SwapIx(r), cleanup |-> Cleanup(r)]
  BY DEF Instructions
<1>2. InputSetup(r) \in Seq(Ix(r)) /\ OutputSetup(r) \in Seq(Ix(r)) /\ IO \in Seq(Ix(r))
  <2>1. InputSetup(r) \in Seq(Ix(r)) /\ OutputSetup(r) \in Seq(Ix(r))
    BY SimulatedTransaction, PartsAreInstructions
  <2> QED
    BY <2>1
<1>3. /\ ixs1.budget = LimitPart(limit) /\ ixs1.setup = IO
      /\ ixs1.swap = SwapIx(r) /\ ixs1.cleanup = Cleanup(r)
      /\ ixs1 \in [budget : Seq(BudgetIx), setup : {IO}, swap : {SwapIx(r)},
                   cleanup : {Cleanup(r)}]
  <2>1. Budget("limit", limit) \in BudgetIx
    BY DEF BudgetIx, None
  <2>2. Append(<<>>, Budget("limit", limit)) = <<Budget("limit", limit)>>
    OBVIOUS
  <2> HIDE DEF IO
  <2>3. CASE limit = None
    <3>1. ixs1 = ixs0 /\ LimitPart(limit) = <<>>
      BY <2>3 DEF WithLimit, LimitPart
    <3> HIDE DEF ixs0, ixs1
    <3> QED
      BY <1>1, <3>1
  <2>4. CASE limit # None
    <3>1. /\ ixs1 = [ixs0 EXCEPT !.budget = Append(@, Budget("limit", limit))]
          /\ LimitPart(limit) = <<Budget("limit", limit)>>
      BY <2>4 DEF WithLimit, LimitPart
    <3> HIDE DEF ixs0, ixs1
    <3> DEFINE L == <<Budget("limit", limit)>>
    <3>2. ixs1 = [budget |-> L, setup |-> IO, swap |-> SwapIx(r), cleanup |-> Cleanup(r)]
      BY <1>1, <2>2, <3>1
    <3>3. L \in Seq(BudgetIx) /\ LimitPart(limit) = L
      BY <2>1, <3>1
    <3> HIDE DEF L
    <3> QED
      BY <3>2, <3>3
  <2> QED
    BY <2>3, <2>4
<1>4. ixs2 = IF FeeBranch(r) = "tip" THEN [ixs1 EXCEPT !.setup = Append(@, v)]
             ELSE [ixs1 EXCEPT !.budget = Append(@, p)]
  BY DEF Sent, WithFee
<1>5. Append(IO, v) = IO \o <<v>> /\ IO = IO \o <<>>
  <2>1. IO \in Seq(Ix(r) \cup {v})
    BY <1>2
  <2> HIDE DEF IO, v
  <2> QED
    BY <2>1
<1>6. /\ Append(LimitPart(limit), p) = LimitPart(limit) \o <<p>>
      /\ LimitPart(limit) \o <<>> = LimitPart(limit)
  <2>1. LimitPart(limit) \in Seq(BudgetIx \cup {p})
    BY <1>3
  <2> HIDE DEF p
  <2> QED
    BY <2>1
<1> HIDE DEF ixs0, ixs1, ixs2, p, v, IO
<1>7. /\ ixs2.budget = BudgetOf(r, e, limit)
      /\ ixs2.setup = IO \o Tips(r)
      /\ ixs2.swap = SwapIx(r) /\ ixs2.cleanup = Cleanup(r)
  <2>1. CASE FeeBranch(r) = "tip"
    <3>1. Tips(r) = <<v>> /\ BudgetOf(r, e, limit) = LimitPart(limit) \o <<>>
      BY <2>1 DEF Tips, v, BudgetOf, PricePart
    <3>2. ixs2 = [ixs1 EXCEPT !.setup = Append(@, v)]
      BY <1>4, <2>1
    <3> QED
      BY <1>3, <1>5, <1>6, <3>1, <3>2
  <2>2. CASE FeeBranch(r) # "tip"
    <3>1. Tips(r) = <<>> /\ BudgetOf(r, e, limit) = LimitPart(limit) \o <<p>>
      BY <2>2 DEF Tips, p, BudgetOf, PricePart
    <3>2. ixs2 = [ixs1 EXCEPT !.budget = Append(@, p)]
      BY <1>4, <2>2
    <3> QED
      BY <1>3, <1>5, <1>6, <3>1, <3>2
  <2> QED
    BY <2>1, <2>2
<1>8. BudgetOf(r, e, limit) \in Seq(BudgetIx) /\ Tips(r) \in TipSeqs
  BY BudgetFacts, TipFacts
<1>9. build_transaction(ixs2) = Built(r, BudgetOf(r, e, limit), Tips(r))
  BY <1>7, <1>8, TransactionParts DEF IO
<1> QED
  BY <1>7, <1>9 DEF ixs2

(* The sent transaction consumes no more over what its simulation did than *)
(* its overhead (two instructions, and the accounts to create) and what    *)
(* the swap itself takes more than it took in the simulation: the margin   *)
(* the limit has to leave.  The accounts and the market may have changed   *)
(* in between.                                                             *)
THEOREM SimulationCovers ==
  ASSUME NEW r \in SwapRequest, NEW e \in Estimate, NEW limit \in Nat \cup {None},
         NEW before \in Drifts, NEW first \in Nat, NEW seen \in Ledger,
         NEW drift \in Drifts, NEW cost \in Nat, NEW l \in Ledger,
         Execute(build_transaction(Instructions(r)), seen, Market(r, before, first)).ok,
         Execute(build_transaction(Sent(r, e, limit)), l, Market(r, drift, cost)).ok
  PROVE  Execute(build_transaction(Sent(r, e, limit)), l, Market(r, drift, cost)).units
           <= Execute(build_transaction(Instructions(r)), seen,
                      Market(r, before, first)).units
              + Overhead(r) + (cost - first)
<1> DEFINE B == BudgetOf(r, e, limit)
           T == Tips(r)
           simulated == Execute(Built(r, <<>>, <<>>), seen, Market(r, before, first)).units
           sent == Execute(Built(r, B, T), l, Market(r, drift, cost)).units
<1>1. B \in Seq(BudgetIx) /\ T \in TipSeqs /\ Len(B) + Len(T) <= 2
  BY BudgetFacts, TipFacts
<1>2. <<>> \in Seq(BudgetIx) /\ <<>> \in TipSeqs
      /\ build_transaction(Instructions(r)) = Built(r, <<>>, <<>>)
  BY SimulatedTransaction
<1>3. build_transaction(Sent(r, e, limit)) = Built(r, B, T)
  BY SentTransaction
<1>4. LeastUnits(r) + first + Len(<<>>) + Len(<<>>) <= simulated
      /\ simulated \in Nat /\ LeastUnits(r) \in Nat
  BY <1>2, UnitsBounds
<1>5. sent <= LeastUnits(r) + cost + Creations(r) + Len(B) + Len(T) /\ sent \in Nat
  BY <1>1, <1>3, UnitsBounds
<1>6. Len(B) \in Nat /\ Len(T) \in Nat
  <2>1. T \in Seq(Ix(r))
    BY <1>1, PartsAreInstructions
  <2> QED
    BY <1>1, <2>1
<1> DEFINE b == Len(B)
           t == Len(T)
<1> HIDE DEF simulated, sent, b, t
<1>7. sent <= simulated + Overhead(r) + (cost - first)
  <2>1. Len(<<>>) = 0
    OBVIOUS
  <2>2. LeastUnits(r) + first <= simulated
    BY <1>4, <2>1
  <2>3. /\ b \in Nat /\ t \in Nat /\ b + t <= 2
        /\ sent <= LeastUnits(r) + cost + Creations(r) + b + t
    BY <1>1, <1>5, <1>6 DEF b, t
  <2> DEFINE n == LeastUnits(r)
             made == Creations(r)
             over == Overhead(r)
  <2>4. /\ made \in Nat /\ over = made + 2 /\ n \in Nat /\ simulated \in Nat /\ sent \in Nat
        /\ n + first <= simulated /\ sent <= n + cost + made + b + t
    BY <1>4, <1>5, <2>2, <2>3, OverheadFacts
  <2> HIDE DEF n, made, over
  <2>5. sent <= simulated + over + (cost - first)
    BY <2>3, <2>4
  <2> QED
    BY <2>5 DEF over
<1> QED
  BY <1>2, <1>3, <1>7 DEF simulated, sent

-----------------------------------------------------------------------------
(* The fee charged for the transaction that is sent.                       *)
LEMMA ProductGrows ==
  ASSUME NEW p \in Nat, NEW x \in Nat, NEW y \in Nat, x <= y
  PROVE  p * x <= p * y
  OBVIOUS

(* The price computed for a fee and a limit costs no more than the fee: in *)
(* micro-lamports, limit times price.                                      *)
LEMMA PriceProduct ==
  ASSUME NEW fee \in Nat, NEW units \in Nat
  PROVE  /\ calculate_cu_price(fee, units) \in Nat
         /\ calculate_cu_price(fee, units) * units <= MicroPerLamport * fee
<1> DEFINE p == calculate_cu_price(fee, units)
           x == p * units
           y == MicroPerLamport * fee
<1>1. p \in Nat /\ x + (MicroPerLamport - 1) < y + MicroPerLamport
  BY CuPriceProduct
<1>2. MicroPerLamport \in Nat
  BY FeeAssumption
<1>3. x \in Int /\ y \in Int
  BY <1>1, <1>2
<1> HIDE DEF p, x, y
<1>4. x <= y
  BY <1>1, <1>2, <1>3
<1> QED
  BY <1>1, <1>4 DEF p, x, y

LEMMA ChargeBound ==
  ASSUME NEW price \in Nat, NEW limit \in Nat, NEW fee \in Nat,
         price * limit <= MicroPerLamport * fee
  PROVE  PriorityFeeCharged(price, limit) <= fee
<1> DEFINE x == price * limit
           y == MicroPerLamport * fee
           a == x + (MicroPerLamport - 1)
<1>1. MicroPerLamport \in Nat \ {0}
  BY FeeAssumption
<1>2. x \in Nat /\ y \in Nat /\ x <= y
  BY <1>1
<1> HIDE DEF x
<1>3. a \in Nat /\ a < y + MicroPerLamport
  <2> HIDE DEF y
  <2> QED
    BY <1>1, <1>2
<1> HIDE DEF a
<1>4. a \div MicroPerLamport <= fee
  BY <1>1, <1>3, DivUpper
<1> QED
  BY <1>4 DEF PriorityFeeCharged, a, x

(* With a limit, a request for an automatic fee or a multiple of the unit  *)
(* fee pays no more than that; without one, no more per instruction.       *)
THEOREM SentFeeWithinTarget ==
  ASSUME NEW r \in SwapRequest, FeeBranch(r) \in {"auto_fee", "multiplier"},
         NEW e \in Estimate, NEW limit \in Nat \cup {None}, NEW n \in Nat
  PROVE  PriorityFeeCharged(cu_price(r, e, limit), RuntimeLimit(limit, n))
           <= TargetFee(r, e) * (IF limit = None THEN n ELSE 1)
<1> DEFINE fee == TargetFee(r, e)
           units == IF limit = None THEN DefaultUnits ELSE limit
           p == calculate_cu_price(fee, units)
           most == RuntimeLimit(limit, n)
<1>1. cu_price(r, e, limit) = p
  BY DEF cu_price
<1>2. fee \in Nat
  BY TargetFeeType
<1>3. units \in Nat /\ MaxUnits \in Nat /\ DefaultUnits \in Nat /\ MicroPerLamport \in Nat
  BY FeeAssumption
<1> HIDE DEF fee, units
<1>4. p \in Nat /\ p * units <= MicroPerLamport * fee
  BY <1>2, <1>3, PriceProduct
<1> HIDE DEF p
<1>5. CASE limit = None
  <2> DEFINE t == p * units
             m == MicroPerLamport * fee
             all == n * units
  <2>1. units = DefaultUnits
    BY <1>5 DEF units
  <2>2. all \in Nat /\ t \in Nat /\ m \in Nat
    BY <1>2, <1>3, <1>4
  <2>3. most \in Nat /\ most <= all
    <3>1. most = AtMost(all, MaxUnits)
      BY <1>5, <2>1 DEF RuntimeLimit
    <3> HIDE DEF most, all
    <3> QED
      BY <1>3, <2>2, <3>1 DEF AtMost
  <2>4. p * all = n * t
    BY <1>3, <1>4
  <2>5. n * m = MicroPerLamport * (fee * n) /\ fee * n \in Nat
    BY <1>2, <1>3
  <2> HIDE DEF most, all, t
  <2>6. p * most <= p * all
    BY <1>4, <2>2, <2>3, ProductGrows
  <2>7. n * t <= n * m
    <3>1. t <= m
      BY <1>4 DEF t
    <3> HIDE DEF m
    <3> QED
      BY <2>2, <3>1, ProductGrows
  <2> DEFINE x == p * most
             y == n * t
             z == MicroPerLamport * (fee * n)
  <2>8. x \in Int /\ y \in Int /\ z \in Int
    BY <1>2, <1>3, <1>4, <2>2, <2>3
  <2>9. x <= y /\ y <= z
    BY <2>4, <2>5, <2>6, <2>7
  <2> HIDE DEF x, y, z, m
  <2>10. x <= z
    BY <2>8, <2>9
  <2>11. PriorityFeeCharged(p, most) <= fee * n
    BY <1>4, <2>3, <2>5, <2>10, ChargeBound DEF x, z
  <2> QED
    BY <1>1, <1>5, <2>11 DEF fee, most
<1>6. CASE limit # None
  <2>1. units = limit /\ units \in Nat
    BY <1>3, <1>6 DEF units
  <2>2. most \in Nat /\ most <= units
    <3>1. most = AtMost(units, MaxUnits)
      BY <1>6, <2>1 DEF RuntimeLimit
    <3> HIDE DEF most
    <3> QED
      BY <1>3, <3>1 DEF AtMost
  <2> HIDE DEF most
  <2>3. p * most <= p * units
    BY <1>4, <2>1, <2>2, ProductGrows
  <2> DEFINE x == p * most
             y == p * units
             z == MicroPerLamport * fee
  <2>4. x \in Int /\ y \in Int /\ z \in Int /\ x <= y /\ y <= z
    BY <1>2, <1>3, <1>4, <2>1, <2>2, <2>3
  <2> HIDE DEF x, y, z
  <2>5. x <= z
    BY <2>4
  <2>6. PriorityFeeCharged(p, most) <= fee
    BY <1>2, <1>4, <2>2, <2>5, ChargeBound DEF x, z
  <2>7. fee * 1 = fee
    BY <1>2
  <2> QED
    BY <1>1, <1>6, <2>6, <2>7 DEF fee, most
<1> QED
  BY <1>5, <1>6

(* What an answered transaction pays (SwapServer!FeeOf) is what this       *)
(* section speaks of: there is one price, the one computed.                *)
LEMMA PriceFound ==
  ASSUME NEW r \in SwapRequest, FeeBranch(r) # "tip",
         NEW e \in Estimate, NEW limit \in Nat \cup {None}
  PROVE  (CHOOSE ix \in ToSet(Sent(r, e, limit).budget) : ix.op = "price").arg
           = cu_price(r, e, limit)
<1> DEFINE B == BudgetOf(r, e, limit)
           p == Budget("price", cu_price(r, e, limit))
<1>1. Sent(r, e, limit).budget = B
  BY SentTransaction
<1>2. /\ \A i \in DOMAIN B : B[i] = p \/ B[i].op = "limit"
      /\ \E i \in DOMAIN B : B[i] = p
  BY BudgetFacts
<1>3. p.op = "price" /\ p.arg = cu_price(r, e, limit)
  BY DEF Budget
<1> HIDE DEF B, p
<1>4. /\ \A ix \in ToSet(B) : ix.op = "price" => ix = p
      /\ p \in ToSet(B)
  BY <1>2 DEF ToSet
<1>5. (CHOOSE ix \in ToSet(B) : ix.op = "price") = p
  BY <1>3, <1>4
<1> QED
  BY <1>1, <1>3, <1>5

LEMMA NonBudgetType ==
  ASSUME NEW X, NEW s \in Seq(X)
  PROVE  NonBudget(s) \in Nat
<1> DEFINE I == {i \in DOMAIN s : ~IsBudget(s[i])}
<1>1. IsFiniteSet(1 .. Len(s))
  BY FS_Interval
<1>2. I \subseteq 1 .. Len(s)
  OBVIOUS
<1>3. IsFiniteSet(I)
  BY <1>1, <1>2, FS_Subset
<1> QED
  BY <1>3, FS_CardinalityType DEF NonBudget
=============================================================================
