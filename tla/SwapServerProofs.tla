-------------------------- MODULE SwapServerProofs --------------------------
(***************************************************************************)
(* Proofs about SwapServer, for any clients, requests, ledgers and         *)
(* estimates.                                                              *)
(*                                                                         *)
(* Which hash an answer carries (HashOfArrival): the argument is about the *)
(* order of the queue.  A client that waits behind the polling task will   *)
(* see what that task is about to write, one that waits in front of it     *)
(* what is there already.                                                  *)
(*                                                                         *)
(* What becomes of the transaction of an answer: HandlerInv says how what  *)
(* a handler holds at each of its stations came from the request, and      *)
(* SwapTransactionProofs what the transaction built from it does.          *)
(***************************************************************************)
EXTENDS SwapServer, SwapTransactionProofs

Working == {"build", "simulate", "price"}

(* The queue holds the polling task while it waits to write, and the       *)
(* clients that wait to read, each once.                                   *)
QueueInv ==
    /\ queue \in Seq(Clients \cup {"poller"})
    /\ \A i \in 1 .. Len(queue) :
        IF queue[i] = "poller" THEN poller = "write" ELSE pc[queue[i]] = "lock"
    /\ \A i, j \in 1 .. Len(queue) : queue[i] = queue[j] => i = j
    /\ poller = "write" => \E i \in 1 .. Len(queue) : queue[i] = "poller"
    /\ \A c \in Clients : pc[c] = "lock" => \E i \in 1 .. Len(queue) : queue[i] = c

(* A waiting client gets to see the hash that was known when it came.      *)
Behind(i) == \E j \in 1 .. Len(queue) : j < i /\ queue[j] = "poller"

KnownInv ==
    \A i \in 1 .. Len(queue) :
        queue[i] \in Clients =>
            known[queue[i]] = IF Behind(i) THEN fetched ELSE blockhash

(* The guard is held exactly by the /swap requests under way.              *)
GuardInv ==
    /\ readers \subseteq Clients
    /\ \A c \in Clients :
        /\ c \in readers <=> pc[c] \in Working /\ req[c].endpoint = "swap"
        /\ c \in readers => known[c] = blockhash
        /\ pc[c] = "lock" => req[c].endpoint = "swap"

(* Answers are there for the requests that are answered, and only there.   *)
AnswerInv ==
    /\ pc \in [Clients -> {"idle", "lock", "answered"} \cup Working]
    /\ DOMAIN req = Clients
    /\ DOMAIN known = Clients
    /\ DOMAIN answer = Clients
    /\ \A c \in Clients :
        /\ pc[c] # "answered" => answer[c] = NoAnswer
        /\ answer[c].status = "ok" /\ req[c].endpoint = "swap" =>
               answer[c].hash = known[c]

(* Nobody is served before startup is over.                                *)
StartInv ==
    /\ main # "serving" => \A c \in Clients : pc[c] = "idle"
    /\ main = "blockhash" => poller = "none"

Inv == QueueInv /\ KnownInv /\ GuardInv /\ AnswerInv /\ StartInv

lockState == <<main, poller, fetched, blockhash, queue, readers, pc, req, known, answer>>

-----------------------------------------------------------------------------
LEMMA AppendFacts ==
  ASSUME NEW S, NEW s \in Seq(S), NEW x \in S
  PROVE  /\ Append(s, x) \in Seq(S)
         /\ Len(Append(s, x)) = Len(s) + 1
         /\ \A i \in 1 .. Len(s) : Append(s, x)[i] = s[i]
         /\ Append(s, x)[Len(s) + 1] = x
  OBVIOUS

LEMMA TailFacts ==
  ASSUME NEW S, NEW s \in Seq(S), 0 < Len(s)
  PROVE  /\ Tail(s) \in Seq(S)
         /\ Len(Tail(s)) = Len(s) - 1
         /\ \A i \in 1 .. Len(s) - 1 : Tail(s)[i] = s[i + 1]
         /\ Head(s) = s[1]
  OBVIOUS

THEOREM Initially == Init => Inv
<1> SUFFICES ASSUME Init PROVE Inv
  OBVIOUS
<1>1. Len(queue) = 0 /\ queue \in Seq(Clients \cup {"poller"})
  BY DEF Init
<1>2. QueueInv
  BY <1>1 DEF Init, QueueInv
<1>3. KnownInv
  BY <1>1 DEF KnownInv
<1>4. GuardInv
  BY DEF Init, GuardInv, Working
<1>5. AnswerInv
  BY DEF Init, AnswerInv, NoAnswer
<1>6. StartInv
  BY DEF Init, StartInv
<1> QED
  BY <1>2, <1>3, <1>4, <1>5, <1>6 DEF Inv

(* Steps that touch nothing the invariant speaks of.                       *)
LEMMA SameLockState ==
  ASSUME Inv, UNCHANGED lockState
  PROVE  Inv'
  BY DEF Inv, QueueInv, KnownInv, Behind, GuardInv, AnswerInv, StartInv, lockState

-----------------------------------------------------------------------------
(* Startup: nobody waits and nobody reads before main serves.              *)
LEMMA Unserved ==
  ASSUME Inv, main # "serving"
  PROVE  readers = {} /\ \A i \in 1 .. Len(queue) : queue[i] = "poller"
<1>1. \A c \in Clients : pc[c] = "idle"
  BY DEF Inv, StartInv
<1>2. readers = {}
  BY <1>1 DEF Inv, GuardInv, Working
<1>3. \A i \in 1 .. Len(queue) : queue[i] \in Clients \cup {"poller"}
  BY DEF Inv, QueueInv
<1>4. \A i \in 1 .. Len(queue) : queue[i] = "poller"
  BY <1>1, <1>3 DEF Inv, QueueInv
<1> QED
  BY <1>2, <1>4

LEMMA StepFirstHash ==
  ASSUME Inv, NEW h \in NodeHeights, FirstHash(h)
  PROVE  Inv'
<1>1. /\ main = "blockhash"
      /\ poller' = "fetch"
      /\ main' \in {"priofee", "bootstrap"}
      /\ UNCHANGED <<queue, readers, pc, req, known, answer>>
  BY DEF FirstHash, lockVars, clientVars
<1>2. readers = {} /\ Len(queue) = 0
  <2>1. readers = {} /\ \A i \in 1 .. Len(queue) : queue[i] = "poller"
    BY <1>1, Unserved
  <2>2. poller = "none"
    BY <1>1 DEF Inv, StartInv
  <2>3. \A i \in 1 .. Len(queue) : FALSE
    BY <2>1, <2>2 DEF Inv, QueueInv
  <2>4. Len(queue) \in Nat
    BY DEF Inv, QueueInv
  <2> QED
    BY <2>1, <2>3, <2>4
<1>3. QueueInv' /\ KnownInv'
  BY <1>1, <1>2 DEF Inv, QueueInv, KnownInv
<1>4. GuardInv'
  BY <1>1, <1>2 DEF Inv, GuardInv
<1>5. AnswerInv' /\ StartInv'
  BY <1>1 DEF Inv, AnswerInv, StartInv
<1> QED
  BY <1>3, <1>4, <1>5 DEF Inv

LEMMA StepStartup ==
  ASSUME Inv,
         FirstHashFails \/ Bootstrapped \/ StartupFails
           \/ \E e \in Estimates : FirstEstimate(e)
  PROVE  Inv'
<1>1. /\ main # "serving"
      /\ main' = "blockhash" => main = "blockhash"
      /\ UNCHANGED <<poller, fetched, blockhash, queue, readers, pc, req, known, answer>>
  BY DEF FirstHashFails, Bootstrapped, StartupFails, FirstEstimate,
         pollVars, lockVars, clientVars
<1>2. StartInv'
  BY <1>1 DEF Inv, StartInv
<1>3. QueueInv' /\ KnownInv' /\ GuardInv' /\ AnswerInv'
  BY <1>1 DEF Inv, QueueInv, KnownInv, Behind, GuardInv, AnswerInv
<1> QED
  BY <1>2, <1>3 DEF Inv

-----------------------------------------------------------------------------
(* The polling task.  It joins the end of the queue, so nobody is behind   *)
(* it yet; when it writes nobody reads, and everybody else is behind it.   *)
LEMMA StepPollAnswered ==
  ASSUME Inv, NEW h \in NodeHeights, PollAnswered(h)
  PROVE  Inv'
<1> USE ServerAssumption
<1>1. /\ poller = "fetch"
      /\ poller' = "write"
      /\ queue' = Append(queue, "poller")
      /\ UNCHANGED <<main, blockhash, readers, pc, req, known, answer>>
  BY DEF PollAnswered, startVars, clientVars
<1>2. queue \in Seq(Clients \cup {"poller"}) /\ Len(queue) \in Nat
  BY DEF Inv, QueueInv
<1>3. /\ queue' \in Seq(Clients \cup {"poller"})
      /\ Len(queue') = Len(queue) + 1
      /\ \A i \in 1 .. Len(queue) : queue'[i] = queue[i]
      /\ queue'[Len(queue) + 1] = "poller"
  BY <1>1, <1>2, AppendFacts
<1>4. \A i \in 1 .. Len(queue) : queue[i] # "poller"
  BY <1>1 DEF Inv, QueueInv
<1>5. \A i \in 1 .. Len(queue') : i \in 1 .. Len(queue) \/ i = Len(queue) + 1
  BY <1>2, <1>3
<1>6. QueueInv'
  BY <1>1, <1>2, <1>3, <1>4, <1>5 DEF Inv, QueueInv
<1>7. KnownInv'
  <2> SUFFICES ASSUME NEW i \in 1 .. Len(queue'), queue'[i] \in Clients
               PROVE  known[queue'[i]] = blockhash /\ ~Behind(i)'
    BY <1>1 DEF KnownInv
  <2>1. i \in 1 .. Len(queue) /\ queue'[i] = queue[i]
    BY <1>3, <1>5
  <2>2. known[queue[i]] = blockhash
    BY <1>4, <2>1 DEF Inv, KnownInv, Behind
  <2>3. ~Behind(i)'
    BY <1>2, <1>3, <1>4, <1>5, <2>1 DEF Behind
  <2> QED
    BY <2>1, <2>2, <2>3
<1>8. GuardInv' /\ AnswerInv' /\ StartInv'
  <2>1. GuardInv' /\ AnswerInv'
    BY <1>1 DEF Inv, GuardInv, AnswerInv
  <2>2. StartInv'
    BY <1>1 DEF Inv, StartInv
  <2> QED
    BY <2>1, <2>2
<1> QED
  BY <1>6, <1>7, <1>8 DEF Inv

(* The task goes to sleep, or wakes up, without having waited.             *)
LEMMA StepPollIdles ==
  ASSUME Inv, PollFails \/ PollWakes
  PROVE  Inv'
<1>1. /\ poller \in {"fetch", "sleep"} /\ poller' \in {"fetch", "sleep"}
      /\ UNCHANGED <<main, fetched, blockhash, queue, readers, pc, req, known, answer>>
  BY DEF PollFails, PollWakes, startVars, lockVars, clientVars
<1>2. QueueInv'
  BY <1>1 DEF Inv, QueueInv
<1>3. KnownInv' /\ GuardInv' /\ AnswerInv' /\ StartInv'
  BY <1>1 DEF Inv, KnownInv, Behind, GuardInv, AnswerInv, StartInv
<1> QED
  BY <1>2, <1>3 DEF Inv

(* The head of the queue leaves: who was behind it moves up by one.        *)
LEMMA QueueMovesUp ==
  ASSUME Inv, 0 < Len(queue), queue' = Tail(queue)
  PROVE  /\ queue' \in Seq(Clients \cup {"poller"})
         /\ Len(queue') = Len(queue) - 1
         /\ Len(queue) \in Nat
         /\ Head(queue) = queue[1]
         /\ \A i \in 1 .. Len(queue') :
              /\ i + 1 \in 1 .. Len(queue)
              /\ queue'[i] = queue[i + 1]
              /\ queue'[i] # queue[1]
         /\ \A i \in 2 .. Len(queue) :
              i - 1 \in 1 .. Len(queue') /\ queue'[i - 1] = queue[i]
<1>1. queue \in Seq(Clients \cup {"poller"}) /\ Len(queue) \in Nat
  BY DEF Inv, QueueInv
<1>2. /\ queue' \in Seq(Clients \cup {"poller"})
      /\ Len(queue') = Len(queue) - 1
      /\ \A i \in 1 .. Len(queue) - 1 : queue'[i] = queue[i + 1]
      /\ Head(queue) = queue[1]
  BY <1>1, TailFacts
<1>3. \A i, j \in 1 .. Len(queue) : queue[i] = queue[j] => i = j
  BY DEF Inv, QueueInv
<1>4. \A i \in 1 .. Len(queue') :
        /\ i + 1 \in 1 .. Len(queue)
        /\ queue'[i] = queue[i + 1]
        /\ queue'[i] # queue[1]
  BY <1>1, <1>2, <1>3
<1>5. \A i \in 2 .. Len(queue) :
        i - 1 \in 1 .. Len(queue') /\ queue'[i - 1] = queue[i]
  <2> TAKE i \in 2 .. Len(queue)
  <2>1. i - 1 \in 1 .. Len(queue) - 1 /\ (i - 1) + 1 = i
    BY <1>1
  <2> QED
    BY <1>2, <2>1
<1> QED
  BY <1>1, <1>2, <1>4, <1>5

LEMMA StepPollWrites ==
  ASSUME Inv, PollWrites
  PROVE  Inv'
<1> USE ServerAssumption
<1>1. /\ poller = "write" /\ Head(queue) = "poller" /\ readers = {}
      /\ queue' = Tail(queue)
      /\ blockhash' = fetched
      /\ poller' = "sleep"
      /\ UNCHANGED <<main, fetched, readers, pc, req, known, answer>>
  BY DEF PollWrites, startVars, clientVars
<1>2. 0 < Len(queue)
  BY <1>1 DEF Inv, QueueInv
<1>3. /\ queue' \in Seq(Clients \cup {"poller"})
      /\ Len(queue') = Len(queue) - 1
      /\ Len(queue) \in Nat
      /\ queue[1] = "poller"
      /\ \A i \in 1 .. Len(queue') :
           /\ i + 1 \in 1 .. Len(queue)
           /\ queue'[i] = queue[i + 1]
           /\ queue'[i] # "poller"
      /\ \A i \in 2 .. Len(queue) :
           i - 1 \in 1 .. Len(queue') /\ queue'[i - 1] = queue[i]
  BY <1>1, <1>2, QueueMovesUp
<1>4. QueueInv'
  <2>1. \A i \in 1 .. Len(queue') :
          IF queue'[i] = "poller" THEN poller' = "write" ELSE pc'[queue'[i]] = "lock"
    BY <1>1, <1>3 DEF Inv, QueueInv
  <2>2. \A i, j \in 1 .. Len(queue') : queue'[i] = queue'[j] => i = j
    <3> TAKE i, j \in 1 .. Len(queue')
    <3>1. queue[i + 1] = queue[j + 1] => i + 1 = j + 1
      BY <1>3 DEF Inv, QueueInv
    <3> QED
      BY <1>3, <3>1
  <2>3. \A c \in Clients : pc'[c] = "lock" => \E i \in 1 .. Len(queue') : queue'[i] = c
    <3> TAKE c \in Clients
    <3>1. ASSUME pc[c] = "lock" PROVE \E i \in 1 .. Len(queue') : queue'[i] = c
      <4>1. PICK i \in 1 .. Len(queue) : queue[i] = c
        BY <3>1 DEF Inv, QueueInv
      <4>2. i \in 2 .. Len(queue)
        BY <1>3, <4>1
      <4> QED
        BY <1>3, <4>1, <4>2
    <3> QED
      BY <1>1, <3>1
  <2> QED
    BY <1>1, <1>3, <2>1, <2>2, <2>3 DEF QueueInv
<1>5. KnownInv'
  <2> SUFFICES ASSUME NEW i \in 1 .. Len(queue'), queue'[i] \in Clients
               PROVE  known[queue'[i]] = fetched
    BY <1>1 DEF KnownInv
  <2>1. i + 1 \in 1 .. Len(queue) /\ queue'[i] = queue[i + 1]
    BY <1>3
  <2>2. Behind(i + 1)
    BY <1>2, <1>3, <2>1 DEF Behind
  <2> QED
    BY <2>1, <2>2 DEF Inv, KnownInv
<1>6. GuardInv' /\ AnswerInv' /\ StartInv'
  <2>1. GuardInv'
    BY <1>1 DEF Inv, GuardInv
  <2>2. AnswerInv' /\ StartInv'
    BY <1>1 DEF Inv, AnswerInv, StartInv
  <2> QED
    BY <2>1, <2>2
<1> QED
  BY <1>4, <1>5, <1>6 DEF Inv

-----------------------------------------------------------------------------
(* The handlers.  A /swap request joins the end of the queue: it is behind *)
(* the polling task just when that task waits.                             *)
LEMMA StepRequestSwap ==
  ASSUME Inv, NEW c \in Clients, NEW r \in Requests, Request(c, r), r.endpoint = "swap"
  PROVE  Inv'
<1> USE ServerAssumption
<1>1. /\ main = "serving" /\ pc[c] = "idle"
      /\ req' = [req EXCEPT ![c] = r]
      /\ queue' = Append(queue, c)
      /\ pc' = [pc EXCEPT ![c] = "lock"]
      /\ known' = [known EXCEPT ![c] = IF poller = "write" THEN fetched ELSE blockhash]
      /\ UNCHANGED <<main, poller, fetched, blockhash, readers, answer>>
  BY DEF Request, startVars, pollVars
<1>2. queue \in Seq(Clients \cup {"poller"}) /\ Len(queue) \in Nat
  BY DEF Inv, QueueInv
<1>3. /\ queue' \in Seq(Clients \cup {"poller"})
      /\ Len(queue') = Len(queue) + 1
      /\ \A i \in 1 .. Len(queue) : queue'[i] = queue[i]
      /\ queue'[Len(queue) + 1] = c
  BY <1>1, <1>2, AppendFacts
<1>4. \A i \in 1 .. Len(queue') : i \in 1 .. Len(queue) \/ i = Len(queue) + 1
  BY <1>2, <1>3
<1>5. c # "poller" /\ \A i \in 1 .. Len(queue) : queue[i] # c
  BY <1>1 DEF Inv, QueueInv
<1>6. /\ DOMAIN pc = Clients /\ DOMAIN req = Clients /\ DOMAIN known = Clients
      /\ pc \in [Clients -> {"idle", "lock", "answered"} \cup Working]
  BY DEF Inv, AnswerInv
<1>7. /\ pc'[c] = "lock" /\ \A d \in Clients \ {c} : pc'[d] = pc[d]
      /\ req'[c] = r /\ \A d \in Clients \ {c} : req'[d] = req[d]
      /\ known'[c] = IF poller = "write" THEN fetched ELSE blockhash
      /\ \A d \in Clients \ {c} : known'[d] = known[d]
  BY <1>1, <1>6
<1>8. QueueInv'
  <2>1. \A i \in 1 .. Len(queue') :
          IF queue'[i] = "poller" THEN poller' = "write" ELSE pc'[queue'[i]] = "lock"
    <3> TAKE i \in 1 .. Len(queue')
    <3>1. CASE i = Len(queue) + 1
      BY <1>3, <1>5, <1>7, <3>1
    <3>2. CASE i \in 1 .. Len(queue)
      <4>1. queue'[i] = queue[i] /\ queue[i] # c /\ queue[i] \in Clients \cup {"poller"}
        BY <1>2, <1>3, <1>5, <3>2
      <4>2. IF queue[i] = "poller" THEN poller = "write" ELSE pc[queue[i]] = "lock"
        BY <3>2 DEF Inv, QueueInv
      <4> QED
        BY <1>1, <1>7, <4>1, <4>2
    <3> QED
      BY <1>4, <3>1, <3>2
  <2>2. \A i, j \in 1 .. Len(queue') : queue'[i] = queue'[j] => i = j
    BY <1>2, <1>3, <1>4, <1>5 DEF Inv, QueueInv
  <2>3. poller' = "write" => \E i \in 1 .. Len(queue') : queue'[i] = "poller"
    BY <1>1, <1>2, <1>3 DEF Inv, QueueInv
  <2>4. \A d \in Clients : pc'[d] = "lock" => \E i \in 1 .. Len(queue') : queue'[i] = d
    <3> TAKE d \in Clients
    <3>1. ASSUME d # c, pc[d] = "lock" PROVE \E i \in 1 .. Len(queue') : queue'[i] = d
      <4>1. PICK i \in 1 .. Len(queue) : queue[i] = d
        BY <3>1 DEF Inv, QueueInv
      <4> QED
        BY <1>2, <1>3, <4>1
    <3>2. CASE d = c
      BY <1>2, <1>3, <3>2
    <3> QED
      BY <1>7, <3>1, <3>2
  <2> QED
    BY <1>3, <2>1, <2>2, <2>3, <2>4 DEF QueueInv
<1>9. KnownInv'
  <2> SUFFICES ASSUME NEW i \in 1 .. Len(queue'), queue'[i] \in Clients
               PROVE  known'[queue'[i]] = IF Behind(i)' THEN fetched ELSE blockhash
    BY <1>1 DEF KnownInv
  <2>1. CASE i = Len(queue) + 1
    <3>1. Behind(i)' <=> poller = "write"
      <4>1. ASSUME poller = "write" PROVE Behind(i)'
        <5>1. PICK j \in 1 .. Len(queue) : queue[j] = "poller"
          BY <4>1 DEF Inv, QueueInv
        <5> QED
          BY <1>2, <1>3, <2>1, <5>1 DEF Behind
      <4>2. ASSUME Behind(i)' PROVE poller = "write"
        <5>1. PICK j \in 1 .. Len(queue') : j < i /\ queue'[j] = "poller"
          BY <4>2 DEF Behind
        <5>2. j \in 1 .. Len(queue) /\ queue[j] = "poller"
          BY <1>2, <1>3, <1>4, <2>1, <5>1
        <5> QED
          BY <5>2 DEF Inv, QueueInv
      <4> QED
        BY <4>1, <4>2
    <3> QED
      BY <1>3, <1>7, <2>1, <3>1
  <2>2. CASE i \in 1 .. Len(queue)
    <3>1. queue'[i] = queue[i] /\ queue[i] \in Clients \ {c}
      BY <1>3, <1>5, <2>2
    <3>2. Behind(i)' <=> Behind(i)
      BY <1>2, <1>3, <1>4, <2>2 DEF Behind
    <3> QED
      BY <1>7, <2>2, <3>1, <3>2 DEF Inv, KnownInv
  <2> QED
    BY <1>4, <2>1, <2>2
<1>10. GuardInv'
  <2>1. c \notin readers
    BY <1>1 DEF Inv, GuardInv, Working
  <2> QED
    BY <1>1, <1>7, <2>1 DEF Inv, GuardInv, Working
<1>11. AnswerInv'
  <2>1. answer[c] = NoAnswer
    BY <1>1 DEF Inv, AnswerInv
  <2>2. pc' \in [Clients -> {"idle", "lock", "answered"} \cup Working]
    BY <1>1, <1>6
  <2>3. DOMAIN req' = Clients /\ DOMAIN known' = Clients /\ DOMAIN answer' = Clients
    BY <1>1, <1>6 DEF Inv, AnswerInv
  <2>4. \A d \in Clients :
          /\ pc'[d] # "answered" => answer'[d] = NoAnswer
          /\ answer'[d].status = "ok" /\ req'[d].endpoint = "swap" =>
                 answer'[d].hash = known'[d]
    <3> TAKE d \in Clients
    <3>1. CASE d = c
      BY <1>1, <2>1, <3>1 DEF NoAnswer
    <3>2. CASE d # c
      BY <1>1, <1>7, <3>2 DEF Inv, AnswerInv
    <3> QED
      BY <3>1, <3>2
  <2> QED
    BY <2>2, <2>3, <2>4 DEF AnswerInv
<1>12. StartInv'
  BY <1>1 DEF Inv, StartInv
<1> QED
  BY <1>8, <1>9, <1>10, <1>11, <1>12 DEF Inv

(* A client that is not in the queue changes its request or its state: the *)
(* queue does not care.                                                    *)
LEMMA QueueIgnores ==
  ASSUME Inv, NEW c \in Clients, pc[c] # "lock", pc'[c] # "lock",
         \A d \in Clients \ {c} : pc'[d] = pc[d] /\ known'[d] = known[d],
         UNCHANGED <<poller, fetched, blockhash, queue>>
  PROVE  QueueInv' /\ KnownInv'
<1> USE ServerAssumption
<1>1. \A i \in 1 .. Len(queue) :
        /\ queue[i] \in Clients \cup {"poller"}
        /\ queue[i] # c
  <2>1. queue \in Seq(Clients \cup {"poller"})
    BY DEF Inv, QueueInv
  <2>2. \A i \in 1 .. Len(queue) : queue[i] \in Clients \cup {"poller"}
    BY <2>1
  <2>3. \A i \in 1 .. Len(queue) : queue[i] # c
    BY DEF Inv, QueueInv
  <2> QED
    BY <2>2, <2>3
<1>2. \A i \in 1 .. Len(queue) :
        IF queue[i] = "poller" THEN poller = "write" ELSE pc'[queue[i]] = "lock"
  BY <1>1 DEF Inv, QueueInv
<1>3. QueueInv'
  BY <1>2 DEF Inv, QueueInv
<1>4. KnownInv'
  BY <1>1 DEF Inv, KnownInv, Behind
<1> QED
  BY <1>3, <1>4

LEMMA StepRequestOther ==
  ASSUME Inv, NEW c \in Clients, NEW r \in Requests, Request(c, r), r.endpoint # "swap"
  PROVE  Inv'
<1>1. /\ main = "serving" /\ pc[c] = "idle"
      /\ req' = [req EXCEPT ![c] = r]
      /\ pc' = [pc EXCEPT ![c] = "build"]
      /\ UNCHANGED <<main, poller, fetched, blockhash, queue, readers, known, answer>>
  BY DEF Request, startVars, pollVars
<1>2. /\ DOMAIN pc = Clients /\ DOMAIN req = Clients
      /\ pc \in [Clients -> {"idle", "lock", "answered"} \cup Working]
  BY DEF Inv, AnswerInv
<1>3. /\ pc'[c] = "build" /\ \A d \in Clients \ {c} : pc'[d] = pc[d]
      /\ req'[c] = r /\ \A d \in Clients \ {c} : req'[d] = req[d]
  BY <1>1, <1>2
<1>4. QueueInv' /\ KnownInv'
  BY <1>1, <1>3, QueueIgnores
<1>5. GuardInv'
  <2>1. c \notin readers
    BY <1>1 DEF Inv, GuardInv, Working
  <2> QED
    BY <1>1, <1>3, <2>1 DEF Inv, GuardInv
<1>6. AnswerInv'
  <2>1. answer[c] = NoAnswer
    BY <1>1 DEF Inv, AnswerInv
  <2>2. pc' \in [Clients -> {"idle", "lock", "answered"} \cup Working]
    BY <1>1, <1>2 DEF Working
  <2> QED
    BY <1>1, <1>3, <2>1, <2>2 DEF Inv, AnswerInv, NoAnswer
<1>7. StartInv'
  BY <1>1 DEF Inv, StartInv
<1> QED
  BY <1>4, <1>5, <1>6, <1>7 DEF Inv

(* The guard is granted to the head of the queue, which nobody is before:  *)
(* what it sees is the hash it was to see.                                 *)
LEMMA StepGrantRead ==
  ASSUME Inv, NEW c \in Clients, GrantRead(c)
  PROVE  Inv'
<1> USE ServerAssumption
<1>1. /\ pc[c] = "lock" /\ Head(queue) = c
      /\ queue' = Tail(queue)
      /\ readers' = readers \cup {c}
      /\ pc' = [pc EXCEPT ![c] = "build"]
      /\ UNCHANGED <<main, poller, fetched, blockhash, req, known, answer>>
  BY DEF GrantRead, startVars, pollVars
<1>2. 0 < Len(queue)
  BY <1>1 DEF Inv, QueueInv
<1>3. /\ queue' \in Seq(Clients \cup {"poller"})
      /\ Len(queue') = Len(queue) - 1
      /\ Len(queue) \in Nat
      /\ queue[1] = c
      /\ \A i \in 1 .. Len(queue') :
           /\ i + 1 \in 1 .. Len(queue)
           /\ queue'[i] = queue[i + 1]
           /\ queue'[i] # c
      /\ \A i \in 2 .. Len(queue) :
           i - 1 \in 1 .. Len(queue') /\ queue'[i - 1] = queue[i]
  BY <1>1, <1>2, QueueMovesUp
<1>4. /\ DOMAIN pc = Clients
      /\ pc \in [Clients -> {"idle", "lock", "answered"} \cup Working]
  BY DEF Inv, AnswerInv
<1>5. /\ c # "poller"
      /\ pc'[c] = "build" /\ \A d \in Clients \ {c} : pc'[d] = pc[d]
      /\ \A i \in 1 .. Len(queue') : queue'[i] \in Clients \cup {"poller"}
  BY <1>1, <1>3, <1>4
<1>6. QueueInv'
  <2>1. \A i \in 1 .. Len(queue') :
          IF queue'[i] = "poller" THEN poller' = "write" ELSE pc'[queue'[i]] = "lock"
    <3> TAKE i \in 1 .. Len(queue')
    <3>1. IF queue[i + 1] = "poller" THEN poller = "write" ELSE pc[queue[i + 1]] = "lock"
      BY <1>3 DEF Inv, QueueInv
    <3> QED
      BY <1>1, <1>3, <1>5, <3>1
  <2>2. \A i, j \in 1 .. Len(queue') : queue'[i] = queue'[j] => i = j
    <3> TAKE i, j \in 1 .. Len(queue')
    <3>1. queue[i + 1] = queue[j + 1] => i + 1 = j + 1
      BY <1>3 DEF Inv, QueueInv
    <3> QED
      BY <1>3, <3>1
  <2>3. ASSUME NEW w \in Clients \cup {"poller"}, w # c,
               \E i \in 1 .. Len(queue) : queue[i] = w
        PROVE  \E i \in 1 .. Len(queue') : queue'[i] = w
    <3>1. PICK i \in 1 .. Len(queue) : queue[i] = w
      BY <2>3
    <3>2. i \in 2 .. Len(queue)
      BY <1>3, <2>3, <3>1
    <3> QED
      BY <1>3, <3>1, <3>2
  <2>4. poller' = "write" => \E i \in 1 .. Len(queue') : queue'[i] = "poller"
    BY <1>1, <1>5, <2>3 DEF Inv, QueueInv
  <2>5. \A d \in Clients : pc'[d] = "lock" => \E i \in 1 .. Len(queue') : queue'[i] = d
    <3> TAKE d \in Clients
    <3>1. ASSUME pc'[d] = "lock" PROVE d # c /\ pc[d] = "lock"
      BY <1>5, <3>1
    <3> QED
      BY <2>3, <3>1 DEF Inv, QueueInv
  <2> QED
    BY <1>3, <2>1, <2>2, <2>4, <2>5 DEF QueueInv
<1>7. KnownInv'
  <2> SUFFICES ASSUME NEW i \in 1 .. Len(queue'), queue'[i] \in Clients
               PROVE  known[queue'[i]] = IF Behind(i)' THEN fetched ELSE blockhash
    BY <1>1 DEF KnownInv
  <2>1. i + 1 \in 1 .. Len(queue) /\ queue'[i] = queue[i + 1]
    BY <1>3
  <2>2. Behind(i)' => Behind(i + 1)
    <3>1. ASSUME NEW j \in 1 .. Len(queue'), j < i, queue'[j] = "poller"
          PROVE  Behind(i + 1)
      <4>1. j + 1 \in 1 .. Len(queue) /\ j + 1 < i + 1 /\ queue[j + 1] = "poller"
        BY <1>3, <3>1
      <4> QED
        BY <4>1 DEF Behind
    <3> QED
      BY <3>1 DEF Behind
  <2>3. Behind(i + 1) => Behind(i)'
    <3>1. ASSUME NEW j \in 1 .. Len(queue), j < i + 1, queue[j] = "poller"
          PROVE  Behind(i)'
      <4>1. j \in 2 .. Len(queue)
        BY <1>3, <1>5, <3>1
      <4>2. j - 1 \in 1 .. Len(queue') /\ queue'[j - 1] = "poller" /\ j - 1 < i
        BY <1>3, <3>1, <4>1
      <4> QED
        BY <4>2 DEF Behind
    <3> QED
      BY <3>1 DEF Behind
  <2> QED
    BY <2>1, <2>2, <2>3 DEF Inv, KnownInv
<1>8. known[c] = blockhash
  <2>1. ~Behind(1)
    BY <1>3 DEF Behind
  <2> QED
    BY <1>2, <1>3, <2>1 DEF Inv, KnownInv
<1>9. GuardInv'
  <2>1. req[c].endpoint = "swap"
    BY <1>1 DEF Inv, GuardInv
  <2> QED
    BY <1>1, <1>5, <1>8, <2>1 DEF Inv, GuardInv, Working
<1>10. AnswerInv'
  <2>1. pc' \in [Clients -> {"idle", "lock", "answered"} \cup Working]
    BY <1>1, <1>4 DEF Working
  <2> QED
    BY <1>1, <1>5, <2>1 DEF Inv, AnswerInv
<1>11. StartInv'
  BY <1>1 DEF Inv, StartInv
<1> QED
  BY <1>6, <1>7, <1>9, <1>10, <1>11 DEF Inv

(* A handler under way goes on to its next step.                           *)
LEMMA StepWorks ==
  ASSUME Inv, NEW c \in Clients,
         Build(c) \/ \E l \in Ledgers, d \in Drifts, u \in SwapUnits : Simulated(c, l, d, u)
  PROVE  Inv'
<1>1. /\ pc[c] \in Working
      /\ \/ pc' = [pc EXCEPT ![c] = "simulate"]
         \/ pc' = [pc EXCEPT ![c] = "price"]
      /\ UNCHANGED <<main, poller, fetched, blockhash, queue, readers, req, known, answer>>
  BY DEF Build, Simulated, Working, startVars, pollVars, lockVars
<1>2. pc \in [Clients -> {"idle", "lock", "answered"} \cup Working]
  BY DEF Inv, AnswerInv
<1>3. pc'[c] \in Working /\ \A d \in Clients \ {c} : pc'[d] = pc[d]
  BY <1>1, <1>2 DEF Working
<1>4. QueueInv' /\ KnownInv'
  <2>1. pc[c] # "lock" /\ pc'[c] # "lock"
    BY <1>1, <1>3 DEF Working
  <2> QED
    BY <1>1, <1>3, <2>1, QueueIgnores
<1>5. GuardInv'
  <2>1. pc'[c] # "lock"
    BY <1>3 DEF Working
  <2> QED
    BY <1>1, <1>3, <2>1 DEF Inv, GuardInv
<1>6. AnswerInv'
  <2>1. pc' \in [Clients -> {"idle", "lock", "answered"} \cup Working]
    BY <1>1, <1>2 DEF Working
  <2>2. pc[c] # "answered"
    BY <1>1 DEF Working
  <2> QED
    BY <1>1, <1>3, <2>1, <2>2 DEF Inv, AnswerInv
<1>7. StartInv'
  <2>1. main = "serving"
    BY <1>1 DEF Inv, StartInv, Working
  <2> QED
    BY <1>1, <2>1 DEF Inv, StartInv
<1> QED
  BY <1>4, <1>5, <1>6, <1>7 DEF Inv

(* An answer: the guard goes, and the hash in the answer is the one the    *)
(* guard kept in place.                                                    *)
LEMMA StepAnswers ==
  ASSUME Inv, NEW c \in Clients, SameMints(c) \/ NodeFails(c) \/ Price(c)
  PROVE  Inv'
<1>1. /\ pc[c] \in Working
      /\ \E status \in {"ok", "bad_request", "error"} : Answer(c, status)
      /\ UNCHANGED <<main, poller, fetched, blockhash, queue, req, known>>
  BY DEF SameMints, NodeFails, Price, Working, startVars, pollVars
<1>2. PICK status \in {"ok", "bad_request", "error"} :
        /\ pc' = [pc EXCEPT ![c] = "answered"]
        /\ answer' = [answer EXCEPT ![c] =
             [status |-> status,
              hash   |-> IF status = "ok" /\ HoldsGuard(c) THEN blockhash ELSE NoHash]]
        /\ readers' = readers \ {c}
  BY <1>1 DEF Answer, Release
<1>3. /\ DOMAIN answer = Clients
      /\ pc \in [Clients -> {"idle", "lock", "answered"} \cup Working]
  BY DEF Inv, AnswerInv
<1>4. /\ pc'[c] = "answered" /\ \A d \in Clients \ {c} : pc'[d] = pc[d]
      /\ answer'[c].status = status
      /\ answer'[c].hash = IF status = "ok" /\ c \in readers THEN blockhash ELSE NoHash
      /\ \A d \in Clients \ {c} : answer'[d] = answer[d]
  BY <1>2, <1>3 DEF HoldsGuard
<1>5. QueueInv' /\ KnownInv'
  <2>1. pc[c] # "lock" /\ pc'[c] # "lock"
    BY <1>1, <1>4 DEF Working
  <2> QED
    BY <1>1, <1>4, <2>1, QueueIgnores
<1>6. GuardInv'
  BY <1>1, <1>2, <1>4 DEF Inv, GuardInv, Working
<1>7. AnswerInv'
  <2>1. pc' \in [Clients -> {"idle", "lock", "answered"} \cup Working]
    BY <1>2, <1>3
  <2>2. status = "ok" /\ req[c].endpoint = "swap" => answer'[c].hash = known[c]
    <3>1. req[c].endpoint = "swap" => c \in readers /\ known[c] = blockhash
      BY <1>1 DEF Inv, GuardInv
    <3> QED
      BY <1>4, <3>1
  <2>3. DOMAIN req' = Clients /\ DOMAIN known' = Clients /\ DOMAIN answer' = Clients
    BY <1>1, <1>2, <1>3 DEF Inv, AnswerInv
  <2>4. \A d \in Clients :
          /\ pc'[d] # "answered" => answer'[d] = NoAnswer
          /\ answer'[d].status = "ok" /\ req'[d].endpoint = "swap" =>
                 answer'[d].hash = known'[d]
    <3> TAKE d \in Clients
    <3>1. CASE d = c
      BY <1>1, <1>4, <2>2, <3>1
    <3>2. CASE d # c
      BY <1>1, <1>4, <3>2 DEF Inv, AnswerInv
    <3> QED
      BY <3>1, <3>2
  <2> QED
    BY <2>1, <2>3, <2>4 DEF AnswerInv
<1>8. StartInv'
  <2>1. main = "serving"
    BY <1>1 DEF Inv, StartInv, Working
  <2> QED
    BY <1>1, <2>1 DEF Inv, StartInv
<1> QED
  BY <1>5, <1>6, <1>7, <1>8 DEF Inv

LEMMA StepDone ==
  ASSUME Inv, NEW c \in Clients, Done(c)
  PROVE  Inv'
<1>1. /\ pc[c] = "answered"
      /\ pc' = [pc EXCEPT ![c] = "idle"]
      /\ req' = [req EXCEPT ![c] = NoRequest]
      /\ known' = [known EXCEPT ![c] = NoHash]
      /\ answer' = [answer EXCEPT ![c] = NoAnswer]
      /\ UNCHANGED <<main, poller, fetched, blockhash, queue, readers>>
  BY DEF Done, startVars, pollVars, lockVars
<1>2. /\ DOMAIN req = Clients /\ DOMAIN known = Clients /\ DOMAIN answer = Clients
      /\ pc \in [Clients -> {"idle", "lock", "answered"} \cup Working]
  BY DEF Inv, AnswerInv
<1>3. /\ pc'[c] = "idle" /\ \A d \in Clients \ {c} : pc'[d] = pc[d]
      /\ \A d \in Clients \ {c} : req'[d] = req[d]
      /\ \A d \in Clients \ {c} : known'[d] = known[d]
      /\ answer'[c] = NoAnswer /\ \A d \in Clients \ {c} : answer'[d] = answer[d]
  BY <1>1, <1>2
<1>4. QueueInv' /\ KnownInv'
  BY <1>1, <1>3, QueueIgnores
<1>5. GuardInv'
  <2>1. c \notin readers
    BY <1>1 DEF Inv, GuardInv, Working
  <2> QED
    BY <1>1, <1>3, <2>1 DEF Inv, GuardInv, Working
<1>6. AnswerInv'
  <2>1. pc' \in [Clients -> {"idle", "lock", "answered"} \cup Working]
    BY <1>1, <1>2
  <2> QED
    BY <1>1, <1>3, <2>1 DEF Inv, AnswerInv, NoAnswer
<1>7. StartInv'
  <2>1. main = "serving"
    BY <1>1 DEF Inv, StartInv
  <2> QED
    BY <1>1, <2>1 DEF Inv, StartInv
<1> QED
  BY <1>4, <1>5, <1>6, <1>7 DEF Inv

-----------------------------------------------------------------------------
LEMMA Inductive == Inv /\ [Next]_vars => Inv'
<1> SUFFICES ASSUME Inv, [Next]_vars PROVE Inv'
  OBVIOUS
<1>1. CASE UNCHANGED vars
  <2>1. UNCHANGED lockState
    BY <1>1 DEF vars, lockState, startVars, pollVars, lockVars, clientVars
  <2> QED
    BY <2>1, SameLockState
<1>2. CASE NewBlock \/ \E e \in Estimates : NewEstimate(e)
  <2>1. UNCHANGED lockState
    BY <1>2 DEF NewBlock, NewEstimate, lockState, startVars, pollVars, lockVars, clientVars
  <2> QED
    BY <2>1, SameLockState
<1>3. CASE \E h \in NodeHeights : FirstHash(h) \/ PollAnswered(h)
  BY <1>3, StepFirstHash, StepPollAnswered
<1>4. CASE FirstHashFails \/ Bootstrapped \/ StartupFails
             \/ \E e \in Estimates : FirstEstimate(e)
  BY <1>4, StepStartup
<1>5. CASE PollFails \/ PollWakes
  BY <1>5, StepPollIdles
<1>6. CASE PollWrites
  BY <1>6, StepPollWrites
<1>7. ASSUME NEW c \in Clients, \E r \in Requests : Request(c, r) PROVE Inv'
  BY <1>7, StepRequestSwap, StepRequestOther
<1>8. ASSUME NEW c \in Clients, GrantRead(c) PROVE Inv'
  BY <1>8, StepGrantRead
<1>9. ASSUME NEW c \in Clients,
             Build(c) \/ \E l \in Ledgers, d \in Drifts, u \in SwapUnits : Simulated(c, l, d, u)
      PROVE  Inv'
  BY <1>9, StepWorks
<1>10. ASSUME NEW c \in Clients, SameMints(c) \/ NodeFails(c) \/ Price(c) PROVE Inv'
  BY <1>10, StepAnswers
<1>11. ASSUME NEW c \in Clients, Done(c) PROVE Inv'
  BY <1>11, StepDone
<1> QED
  BY <1>1, <1>2, <1>3, <1>4, <1>5, <1>6, <1>7, <1>8, <1>9, <1>10, <1>11 DEF Next

(* The order of the lock's waiters, and what each of them is to see, is as *)
(* Inv says in every state.                                                *)
THEOREM LockInvariant == Spec => []Inv
<1> QED
  BY Initially, Inductive, PTL DEF Spec

(* A /swap answer carries the newest hash that had been fetched when its   *)
(* request came, however many clients and blocks there are.                *)
THEOREM AnswersCarryKnownHash == Spec => []HashOfArrival
<1>1. Inv => HashOfArrival
  BY DEF Inv, AnswerInv, HashOfArrival
<1> QED
  BY <1>1, LockInvariant, PTL

-----------------------------------------------------------------------------
(***************************************************************************)
(* What a request is worth: the transaction an answer carries is the one   *)
(* SwapTransactionProofs speaks of, and its limit comes from a simulation. *)
(***************************************************************************)
Limits == (0 .. U32Max) \cup {None}

(* Startup and the polling tasks; startup goes on while attempts are left. *)
ServerInv ==
    /\ height \in 0 .. MaxHeight
    /\ main \in {"blockhash", "priofee", "bootstrap", "serving", "exited"}
    /\ tries \in 0 .. Retries
    /\ main = "blockhash" => tries < Retries
    /\ poller \in {"none", "fetch", "write", "sleep"}
    /\ fetched \in Hashes
    /\ blockhash \in Hashes
    /\ estimate \in Estimates \cup {NoEstimate}

(* One request: what has been built of it so far, the fee estimate that    *)
(* went into its answer, and where a limit after a good simulation is      *)
(* from.                                                                   *)
RequestInv(c) ==
    /\ IF pc[c] = "idle" THEN req[c] = NoRequest /\ simulated[c] = None
                         ELSE req[c] \in Requests
    /\ pc[c] \in {"simulate", "price"} => ixs[c] = Instructions(req[c])
    /\ answer[c].status = "ok" =>
          \E e \in Estimates \cup {NoEstimate} : ixs[c] = Sent(req[c], e, limit[c])
    /\ simulated[c] # None /\ limit[c] # None =>
          limit[c] >= LeastUnits(req[c]) + simulated[c] + SafetyUnits

Answers == [status : {"none", "ok", "bad_request", "error"}, hash : Hashes]

HandlerInv ==
    /\ limit \in [Clients -> Limits]
    /\ simulated \in [Clients -> SwapUnits \cup {None}]
    /\ known \in [Clients -> Hashes]
    /\ answer \in [Clients -> Answers]
    /\ DOMAIN ixs = Clients
    /\ \A c \in Clients : RequestInv(c)

TransactionInv == ServerInv /\ HandlerInv

LEMMA EstimateTypes == Estimates \cup {NoEstimate} \subseteq Estimate
<1>1. NoEstimate \in Estimate
  BY DEF NoEstimate, Estimate, None
<1>2. Estimates \subseteq Estimate
  BY ServerAssumption DEF Estimate
<1> QED
  BY <1>1, <1>2

LEMMA InitTransactionInv == Init => TransactionInv
<1> SUFFICES ASSUME Init PROVE TransactionInv
  OBVIOUS
<1> USE ServerAssumption DEF Init
<1>1. NoHash \in Hashes
  BY DEF Hashes
<1>2. ServerInv
  BY <1>1 DEF ServerInv
<1>3. NoAnswer \in Answers /\ NoAnswer.status = "none"
  BY <1>1 DEF NoAnswer, Answers
<1>4. /\ limit \in [Clients -> Limits] /\ simulated \in [Clients -> SwapUnits \cup {None}]
      /\ known \in [Clients -> Hashes] /\ answer \in [Clients -> Answers]
      /\ DOMAIN ixs = Clients
  BY <1>1, <1>3 DEF Limits
<1>5. \A c \in Clients : RequestInv(c)
  BY <1>3 DEF RequestInv
<1> QED
  BY <1>2, <1>4, <1>5 DEF TransactionInv, HandlerInv

(* Startup and the tasks, action by action.                                *)
LEMMA HeightsAreNat ==
  ASSUME ServerInv, NEW h \in NodeHeights
  PROVE  h \in Nat /\ RecentBlockhash(h) \in Hashes
<1>1. height \in Int
  BY DEF ServerInv
<1>2. h \in Nat
  BY <1>1 DEF NodeHeights
<1> QED
  BY <1>2, ServerAssumption DEF RecentBlockhash, Hashes

LEMMA StepServer ==
  ASSUME ServerInv, [Next]_vars
  PROVE  ServerInv'
<1> USE ServerAssumption
<1> DEFINE handled == UNCHANGED <<height, main, tries, poller, fetched, blockhash, estimate>>
<1>1. ASSUME handled PROVE ServerInv'
  BY <1>1 DEF ServerInv
<1>2. CASE UNCHANGED vars
  BY <1>1, <1>2 DEF vars, chainVars, startVars, pollVars
<1>3. CASE NewBlock
  BY <1>3 DEF NewBlock, ServerInv, startVars, pollVars
<1>4. ASSUME NEW h \in NodeHeights, FirstHash(h) PROVE ServerInv'
  <2>1. RecentBlockhash(h) \in Hashes
    BY HeightsAreNat
  <2>2. /\ main' \in {"priofee", "bootstrap"} /\ tries' = 0 /\ poller' = "fetch"
        /\ blockhash' = RecentBlockhash(h)
        /\ UNCHANGED <<height, fetched, estimate>>
    BY <1>4 DEF FirstHash, chainVars
  <2> QED
    BY <2>1, <2>2 DEF ServerInv
<1>5. ASSUME NEW h \in NodeHeights, PollAnswered(h) PROVE ServerInv'
  <2>1. RecentBlockhash(h) \in Hashes
    BY HeightsAreNat
  <2>2. /\ fetched' = RecentBlockhash(h) /\ poller' = "write"
        /\ UNCHANGED <<height, main, tries, blockhash, estimate>>
    BY <1>5 DEF PollAnswered, chainVars, startVars
  <2> QED
    BY <2>1, <2>2 DEF ServerInv
<1>6. CASE FirstHashFails
  <2>1. /\ main = "blockhash" /\ tries' = tries + 1
        /\ main' = IF tries' = Retries THEN "exited" ELSE main
        /\ UNCHANGED <<height, poller, fetched, blockhash, estimate>>
    BY <1>6 DEF FirstHashFails, chainVars, pollVars
  <2>2. tries \in Nat /\ tries < Retries
    BY <2>1 DEF ServerInv
  <2> QED
    BY <2>1, <2>2 DEF ServerInv
<1>7. ASSUME NEW e \in Estimates, FirstEstimate(e) \/ NewEstimate(e) PROVE ServerInv'
  <2>1. /\ estimate' = e
        /\ main' = main \/ main' = "bootstrap"
        /\ UNCHANGED <<height, tries, poller, fetched, blockhash>>
    BY <1>7 DEF FirstEstimate, NewEstimate, chainVars, startVars, pollVars
  <2> QED
    BY <2>1 DEF ServerInv
<1>8. CASE Bootstrapped \/ StartupFails
  <2>1. /\ main' \in {"serving", "exited"}
        /\ UNCHANGED <<height, tries, poller, fetched, blockhash, estimate>>
    BY <1>8 DEF Bootstrapped, StartupFails, chainVars, pollVars
  <2> QED
    BY <2>1 DEF ServerInv
<1>9. CASE PollFails \/ PollWrites \/ PollWakes
  <2>1. /\ poller' \in {"fetch", "sleep"} /\ blockhash' \in {blockhash, fetched}
        /\ UNCHANGED <<height, main, tries, fetched, estimate>>
    BY <1>9 DEF PollFails, PollWrites, PollWakes, chainVars, startVars
  <2> QED
    BY <2>1 DEF ServerInv
<1>10. ASSUME NEW c \in Clients, NEW r \in Requests, Request(c, r) PROVE handled
  BY <1>10 DEF Request, chainVars, startVars, pollVars
<1>11. ASSUME NEW c \in Clients, GrantRead(c) \/ Build(c) \/ Price(c) \/ Done(c)
       PROVE  handled
  BY <1>11 DEF GrantRead, Build, Price, Done, chainVars, startVars, pollVars
<1>12. ASSUME NEW c \in Clients, SameMints(c) \/ NodeFails(c) PROVE handled
  BY <1>12 DEF SameMints, NodeFails, chainVars, startVars, pollVars
<1>13. ASSUME NEW c \in Clients, NEW l \in Ledgers, NEW d \in Drifts,
             NEW u \in SwapUnits, Simulated(c, l, d, u)
       PROVE  handled
  BY <1>13 DEF Simulated, chainVars, startVars, pollVars
<1> HIDE DEF handled
<1> QED
  BY <1>1, <1>2, <1>3, <1>4, <1>5, <1>6, <1>7, <1>8, <1>9, <1>10, <1>11, <1>12, <1>13
     DEF Next

(* The handlers: a step of one client leaves the others as they are.       *)
LEMMA RequestStays ==
  ASSUME NEW d, RequestInv(d),
         pc'[d] = pc[d], req'[d] = req[d], ixs'[d] = ixs[d], limit'[d] = limit[d],
         simulated'[d] = simulated[d], answer'[d] = answer[d]
  PROVE  RequestInv(d)'
  BY DEF RequestInv

LEMMA OneRequestMoves ==
  ASSUME HandlerInv, NEW c \in Clients, RequestInv(c)',
         \A d \in Clients \ {c} :
           /\ pc'[d] = pc[d] /\ req'[d] = req[d] /\ ixs'[d] = ixs[d]
           /\ limit'[d] = limit[d] /\ simulated'[d] = simulated[d]
           /\ answer'[d] = answer[d],
         limit' \in [Clients -> Limits], simulated' \in [Clients -> SwapUnits \cup {None}],
         known' \in [Clients -> Hashes], answer' \in [Clients -> Answers],
         DOMAIN ixs' = Clients
  PROVE  HandlerInv'
<1>1. \A d \in Clients : RequestInv(d)'
  <2> TAKE d \in Clients
  <2>1. CASE d = c
    BY <2>1
  <2>2. CASE d # c
    <3>1. RequestInv(d)
      BY DEF HandlerInv
    <3> QED
      BY <2>2, <3>1, RequestStays
  <2> QED
    BY <2>1, <2>2
<1> QED
  BY <1>1 DEF HandlerInv

LEMMA StepRequestArrives ==
  ASSUME Inv, TransactionInv, NEW c \in Clients, NEW r \in Requests, Request(c, r)
  PROVE  HandlerInv'
<1>1. /\ pc[c] = "idle"
      /\ req' = [req EXCEPT ![c] = r]
      /\ pc' = [pc EXCEPT ![c] = "lock"] \/ pc' = [pc EXCEPT ![c] = "build"]
      /\ known' = known
         \/ known' = [known EXCEPT ![c] = IF poller = "write" THEN fetched ELSE blockhash]
      /\ UNCHANGED <<ixs, limit, simulated, answer>>
  BY DEF Request
<1>2. /\ DOMAIN pc = Clients /\ DOMAIN req = Clients /\ answer[c] = NoAnswer
      /\ fetched \in Hashes /\ blockhash \in Hashes /\ known \in [Clients -> Hashes]
      /\ RequestInv(c)
  BY <1>1 DEF Inv, AnswerInv, TransactionInv, ServerInv, HandlerInv
<1>3. pc'[c] \in {"lock", "build"} /\ req'[c] = r /\ simulated'[c] = None
  BY <1>1, <1>2 DEF RequestInv
<1>4. answer'[c].status = "none"
  BY <1>1, <1>2 DEF NoAnswer
<1>5. RequestInv(c)'
  BY <1>3, <1>4 DEF RequestInv
<1>6. known' \in [Clients -> Hashes]
  BY <1>1, <1>2
<1>7. \A d \in Clients \ {c} : pc'[d] = pc[d] /\ req'[d] = req[d]
  BY <1>1, <1>2
<1> QED
  BY <1>1, <1>5, <1>6, <1>7, OneRequestMoves DEF TransactionInv, HandlerInv

LEMMA StepGrantReadRequest ==
  ASSUME Inv, TransactionInv, NEW c \in Clients, GrantRead(c)
  PROVE  HandlerInv'
<1>1. /\ pc[c] = "lock" /\ pc' = [pc EXCEPT ![c] = "build"]
      /\ UNCHANGED <<req, ixs, limit, simulated, known, answer>>
  BY DEF GrantRead
<1>2. DOMAIN pc = Clients /\ RequestInv(c)
  BY DEF Inv, AnswerInv, TransactionInv, HandlerInv
<1>3. pc'[c] = "build" /\ \A d \in Clients \ {c} : pc'[d] = pc[d]
  BY <1>1, <1>2
<1>4. RequestInv(c)'
  BY <1>1, <1>2, <1>3 DEF RequestInv
<1> QED
  BY <1>1, <1>3, <1>4, OneRequestMoves DEF TransactionInv, HandlerInv

LEMMA StepBuildRequest ==
  ASSUME Inv, TransactionInv, NEW c \in Clients, Build(c)
  PROVE  HandlerInv'
<1>1. /\ pc[c] = "build"
      /\ ixs' = [ixs EXCEPT ![c] = Instructions(req[c])]
      /\ pc' = [pc EXCEPT ![c] = IF req[c].dynamic THEN "simulate" ELSE "price"]
      /\ UNCHANGED <<req, limit, simulated, known, answer>>
  BY DEF Build
<1>2. DOMAIN pc = Clients /\ DOMAIN ixs = Clients /\ RequestInv(c) /\ answer[c] = NoAnswer
  BY <1>1 DEF Inv, AnswerInv, TransactionInv, HandlerInv
<1>3. /\ pc'[c] \in {"simulate", "price"} /\ ixs'[c] = Instructions(req'[c])
      /\ \A d \in Clients \ {c} : pc'[d] = pc[d] /\ ixs'[d] = ixs[d]
      /\ DOMAIN ixs' = Clients
  BY <1>1, <1>2
<1>4. answer'[c].status = "none"
  BY <1>1, <1>2 DEF NoAnswer
<1>5. RequestInv(c)'
  BY <1>1, <1>2, <1>3, <1>4 DEF RequestInv
<1> QED
  BY <1>1, <1>3, <1>5, OneRequestMoves DEF TransactionInv, HandlerInv

(* The limit is a u32 or none; if the simulation ran through it is what    *)
(* that consumed and SafetyUnits.                                          *)
LEMMA DynamicCompute ==
  ASSUME NEW consumed \in Nat \cup {None}
  PROVE  /\ dynamic_compute(consumed) \in Limits
         /\ dynamic_compute(consumed) # None =>
              consumed # None /\ dynamic_compute(consumed) = consumed + SafetyUnits
  BY FeeAssumption DEF dynamic_compute, Limits, None

LEMMA StepSimulated ==
  ASSUME Inv, TransactionInv, NEW c \in Clients, NEW l \in Ledgers, NEW d \in Drifts,
         NEW k \in SwapUnits, Simulated(c, l, d, k)
  PROVE  HandlerInv'
<1> DEFINE r == req[c]
           tx == build_transaction(ixs[c])
           run == Execute(tx, l, Market(r, d, k))
<1>1. /\ pc[c] = "simulate" /\ pc' = [pc EXCEPT ![c] = "price"]
      /\ simulated' = [simulated EXCEPT ![c] = IF run.ok THEN k ELSE None]
      /\ UNCHANGED <<req, ixs, known, answer>>
  BY DEF Simulated
<1>2. PICK consumed \in {run.units, None} :
        limit' = [limit EXCEPT ![c] = dynamic_compute(consumed)]
  BY DEF Simulated
<1>3. /\ DOMAIN pc = Clients /\ answer[c] = NoAnswer /\ RequestInv(c)
      /\ limit \in [Clients -> Limits] /\ simulated \in [Clients -> SwapUnits \cup {None}]
  BY <1>1 DEF Inv, AnswerInv, TransactionInv, HandlerInv
<1>4. r \in SwapRequest /\ l \in Ledger /\ r \in Requests
  BY <1>1, <1>3, ServerAssumption DEF RequestInv
<1>5. tx = Built(r, <<>>, <<>>) /\ <<>> \in Seq(BudgetIx) /\ <<>> \in TipSeqs
  BY <1>1, <1>3, <1>4, SimulatedTransaction DEF RequestInv
<1>6. tx \in Seq(Ix(r))
  BY <1>4, <1>5, RunParts
<1>14. k \in Nat
  BY RuntimeAssumption
<1> HIDE DEF r, tx
<1>7. run.units \in Nat /\ run.ok \in BOOLEAN
  <2>1. Market(r, d, k).units \in Nat
    BY <1>14 DEF Market
  <2> QED
    BY <1>6, <2>1, RunTypes
<1>8. run.ok => LeastUnits(r) + k <= run.units /\ LeastUnits(r) \in Nat
  <2> SUFFICES ASSUME run.ok
               PROVE  LeastUnits(r) + k <= run.units /\ LeastUnits(r) \in Nat
    OBVIOUS
  <2>1. /\ LeastUnits(r) + k + Len(<<>>) + Len(<<>>) <= run.units
        /\ LeastUnits(r) \in Nat
    BY <1>4, <1>5, <1>14, UnitsBounds
  <2>2. Len(<<>>) = 0
    OBVIOUS
  <2> HIDE DEF run
  <2> QED
    BY <1>14, <2>1, <2>2
<1> HIDE DEF run
<1>9. /\ dynamic_compute(consumed) \in Limits
      /\ dynamic_compute(consumed) # None =>
           consumed = run.units /\ dynamic_compute(consumed) = consumed + SafetyUnits
  BY <1>2, <1>7, DynamicCompute
<1>10. /\ limit' \in [Clients -> Limits] /\ limit'[c] = dynamic_compute(consumed)
       /\ simulated' \in [Clients -> SwapUnits \cup {None}] 
       /\ simulated'[c] = IF run.ok THEN k ELSE None
       /\ pc'[c] = "price"
       /\ \A b \in Clients \ {c} :
            pc'[b] = pc[b] /\ limit'[b] = limit[b] /\ simulated'[b] = simulated[b]
  BY <1>1, <1>2, <1>3, <1>7, <1>9
<1>11. answer'[c].status = "none"
  BY <1>1, <1>3 DEF NoAnswer
<1>12. simulated'[c] # None /\ limit'[c] # None =>
         limit'[c] >= LeastUnits(req'[c]) + simulated'[c] + SafetyUnits
  <2> SUFFICES ASSUME simulated'[c] # None, limit'[c] # None
               PROVE  limit'[c] >= LeastUnits(r) + simulated'[c] + SafetyUnits
    BY <1>1 DEF r
  <2>1. run.ok /\ simulated'[c] = k
    BY <1>10
  <2>2. limit'[c] = run.units + SafetyUnits
    BY <1>9, <1>10
  <2> QED
    BY <1>7, <1>8, <1>14, <2>1, <2>2, FeeAssumption
<1>13. RequestInv(c)'
  BY <1>1, <1>3, <1>10, <1>11, <1>12 DEF RequestInv
<1> QED
  BY <1>1, <1>10, <1>13, OneRequestMoves DEF TransactionInv, HandlerInv

LEMMA AnswerFacts ==
  ASSUME Inv, TransactionInv, NEW c \in Clients,
         NEW status \in {"ok", "bad_request", "error"}, Answer(c, status)
  PROVE  /\ pc'[c] = "answered" /\ \A d \in Clients \ {c} : pc'[d] = pc[d]
         /\ answer'[c].status = status
         /\ \A d \in Clients \ {c} : answer'[d] = answer[d]
         /\ answer' \in [Clients -> Answers]
<1> DEFINE a == [status |-> status,
                 hash   |-> IF status = "ok" /\ HoldsGuard(c) THEN blockhash ELSE NoHash]
<1>1. pc' = [pc EXCEPT ![c] = "answered"] /\ answer' = [answer EXCEPT ![c] = a]
  BY DEF Answer
<1>2. DOMAIN pc = Clients /\ answer \in [Clients -> Answers] /\ blockhash \in Hashes
  BY DEF Inv, AnswerInv, TransactionInv, ServerInv, HandlerInv
<1>3. a \in Answers /\ a.status = status
  BY <1>2 DEF Answers, Hashes
<1> HIDE DEF a
<1> QED
  BY <1>1, <1>2, <1>3

LEMMA StepRefused ==
  ASSUME Inv, TransactionInv, NEW c \in Clients, SameMints(c) \/ NodeFails(c)
  PROVE  HandlerInv'
<1>1. /\ pc[c] \in {"build", "simulate"}
      /\ \E status \in {"bad_request", "error"} : Answer(c, status)
      /\ UNCHANGED <<req, ixs, limit, simulated, known>>
  BY DEF SameMints, NodeFails
<1>2. PICK status \in {"bad_request", "error"} : Answer(c, status)
  BY <1>1
<1>3. /\ pc'[c] = "answered" /\ \A d \in Clients \ {c} : pc'[d] = pc[d]
      /\ answer'[c].status = status /\ \A d \in Clients \ {c} : answer'[d] = answer[d]
      /\ answer' \in [Clients -> Answers]
  BY <1>2, AnswerFacts
<1>4. RequestInv(c)
  BY DEF TransactionInv, HandlerInv
<1>5. RequestInv(c)'
  BY <1>1, <1>3, <1>4 DEF RequestInv
<1> QED
  BY <1>1, <1>3, <1>5, OneRequestMoves DEF TransactionInv, HandlerInv

LEMMA StepPrice ==
  ASSUME Inv, TransactionInv, NEW c \in Clients, Price(c)
  PROVE  HandlerInv'
<1>1. pc[c] = "price" /\ UNCHANGED <<req, limit, simulated, known>>
  BY DEF Price
<1>2. RequestInv(c) /\ DOMAIN ixs = Clients
  BY DEF TransactionInv, HandlerInv
<1>3. CASE PriofeeOverflows(req[c])
  <2>1. Answer(c, "error") /\ ixs' = ixs
    BY <1>3 DEF Price
  <2>2. /\ pc'[c] = "answered" /\ \A d \in Clients \ {c} : pc'[d] = pc[d]
        /\ answer'[c].status = "error" /\ \A d \in Clients \ {c} : answer'[d] = answer[d]
        /\ answer' \in [Clients -> Answers]
    BY <2>1, AnswerFacts
  <2>3. RequestInv(c)'
    BY <1>1, <1>2, <2>1, <2>2 DEF RequestInv
  <2> QED
    BY <1>1, <1>2, <2>1, <2>2, <2>3, OneRequestMoves DEF TransactionInv, HandlerInv
<1>4. CASE ~PriofeeOverflows(req[c])
  <2>1. /\ Answer(c, "ok")
        /\ ixs' = [ixs EXCEPT ![c] =
                     WithFee(WithLimit(ixs[c], limit[c]), req[c], estimate, limit[c])]
    BY <1>4 DEF Price
  <2>2. /\ pc'[c] = "answered" /\ \A d \in Clients \ {c} : pc'[d] = pc[d]
        /\ answer'[c].status = "ok" /\ \A d \in Clients \ {c} : answer'[d] = answer[d]
        /\ answer' \in [Clients -> Answers]
    BY <2>1, AnswerFacts
  <2>3. ixs[c] = Instructions(req[c])
    BY <1>1, <1>2 DEF RequestInv
  <2>4. /\ ixs'[c] = Sent(req[c], estimate, limit[c])
        /\ \A d \in Clients \ {c} : ixs'[d] = ixs[d]
        /\ DOMAIN ixs' = Clients
    BY <1>2, <2>1, <2>3 DEF Sent
  <2>5. estimate \in Estimates \cup {NoEstimate}
    BY DEF TransactionInv, ServerInv
  <2>6. RequestInv(c)'
    BY <1>1, <1>2, <2>2, <2>4, <2>5 DEF RequestInv
  <2> QED
    BY <1>1, <2>2, <2>4, <2>6, OneRequestMoves DEF TransactionInv, HandlerInv
<1> QED
  BY <1>3, <1>4

LEMMA StepDoneRequest ==
  ASSUME Inv, TransactionInv, NEW c \in Clients, Done(c)
  PROVE  HandlerInv'
<1>1. /\ pc' = [pc EXCEPT ![c] = "idle"]
      /\ req' = [req EXCEPT ![c] = NoRequest]
      /\ ixs' = [ixs EXCEPT ![c] = NoInstructions]
      /\ limit' = [limit EXCEPT ![c] = None]
      /\ simulated' = [simulated EXCEPT ![c] = None]
      /\ known' = [known EXCEPT ![c] = NoHash]
      /\ answer' = [answer EXCEPT ![c] = NoAnswer]
  BY DEF Done
<1>2. /\ DOMAIN pc = Clients /\ DOMAIN req = Clients /\ DOMAIN ixs = Clients
      /\ limit \in [Clients -> Limits] /\ simulated \in [Clients -> SwapUnits \cup {None}]
      /\ known \in [Clients -> Hashes] /\ answer \in [Clients -> Answers]
  BY DEF Inv, AnswerInv, TransactionInv, HandlerInv
<1>3. NoHash \in Hashes /\ NoAnswer \in Answers /\ None \in Limits
      /\ NoAnswer.status = "none"
  BY DEF Hashes, Answers, NoAnswer, Limits
<1>4. /\ pc'[c] = "idle" /\ req'[c] = NoRequest /\ limit'[c] = None
      /\ simulated'[c] = None /\ answer'[c] = NoAnswer
  BY <1>1, <1>2
<1>5. RequestInv(c)'
  BY <1>3, <1>4 DEF RequestInv
<1>6. \A d \in Clients \ {c} :
        /\ pc'[d] = pc[d] /\ req'[d] = req[d] /\ ixs'[d] = ixs[d]
        /\ limit'[d] = limit[d] /\ simulated'[d] = simulated[d]
        /\ answer'[d] = answer[d]
  BY <1>1, <1>2
<1>7. /\ limit' \in [Clients -> Limits] /\ simulated' \in [Clients -> SwapUnits \cup {None}]
      /\ known' \in [Clients -> Hashes] /\ answer' \in [Clients -> Answers]
      /\ DOMAIN ixs' = Clients
  BY <1>1, <1>2, <1>3
<1> QED
  BY <1>5, <1>6, <1>7, OneRequestMoves DEF TransactionInv

(* Steps of the chain, of startup and of the tasks.                        *)
LEMMA StepElsewhere ==
  ASSUME TransactionInv, UNCHANGED clientVars
  PROVE  HandlerInv'
<1>1. UNCHANGED <<pc, req, ixs, limit, simulated, known, answer>>
  BY DEF clientVars
<1>2. \A c \in Clients : RequestInv(c)'
  BY <1>1, RequestStays DEF TransactionInv, HandlerInv
<1> QED
  BY <1>1, <1>2 DEF TransactionInv, HandlerInv

LEMMA TransactionInductive == Inv /\ TransactionInv /\ [Next]_vars => TransactionInv'
<1> SUFFICES ASSUME Inv, TransactionInv, [Next]_vars PROVE TransactionInv'
  OBVIOUS
<1>1. ServerInv'
  BY StepServer DEF TransactionInv
<1>2. ASSUME UNCHANGED vars PROVE HandlerInv'
  BY <1>2, StepElsewhere DEF vars
<1>3. ASSUME NewBlock \/ FirstHashFails \/ Bootstrapped \/ StartupFails
               \/ PollFails \/ PollWrites \/ PollWakes
      PROVE  HandlerInv'
  BY <1>3, StepElsewhere DEF NewBlock, FirstHashFails, Bootstrapped, StartupFails,
                             PollFails, PollWrites, PollWakes
<1>4. ASSUME NEW h \in NodeHeights, FirstHash(h) \/ PollAnswered(h) PROVE HandlerInv'
  BY <1>4, StepElsewhere DEF FirstHash, PollAnswered
<1>5. ASSUME NEW e \in Estimates, FirstEstimate(e) \/ NewEstimate(e) PROVE HandlerInv'
  BY <1>5, StepElsewhere DEF FirstEstimate, NewEstimate
<1>6. ASSUME NEW c \in Clients, NEW r \in Requests, Request(c, r) PROVE HandlerInv'
  BY <1>6, StepRequestArrives
<1>7. ASSUME NEW c \in Clients, GrantRead(c) \/ Build(c) PROVE HandlerInv'
  BY <1>7, StepGrantReadRequest, StepBuildRequest
<1>8. ASSUME NEW c \in Clients, NEW l \in Ledgers, NEW d \in Drifts,
             NEW u \in SwapUnits, Simulated(c, l, d, u)
      PROVE  HandlerInv'
  BY <1>8, StepSimulated
<1>9. ASSUME NEW c \in Clients, SameMints(c) \/ NodeFails(c) PROVE HandlerInv'
  BY <1>9, StepRefused
<1>10. ASSUME NEW c \in Clients, Price(c) \/ Done(c) PROVE HandlerInv'
  BY <1>10, StepPrice, StepDoneRequest
<1>11. HandlerInv'
  BY <1>2, <1>3, <1>4, <1>5, <1>6, <1>7, <1>8, <1>9, <1>10 DEF Next
<1> QED
  BY <1>1, <1>11 DEF TransactionInv

(* What is built for a request, and where its limit is from, is as         *)
(* TransactionInv says in every state.                                     *)
THEOREM TransactionInvariant == Spec => []TransactionInv
<1> QED
  BY InitTransactionInv, TransactionInductive, LockInvariant, PTL DEF Spec

-----------------------------------------------------------------------------
(* TypeOK, for any clients, requests and bounds.                           *)
THEOREM TypeCorrect == Spec => []TypeOK
<1>1. ASSUME Inv, TransactionInv PROVE TypeOK
  <2>1. /\ queue \in Seq(Clients \cup {"poller"}) /\ readers \subseteq Clients
        /\ pc \in [Clients -> {"idle", "lock", "build", "simulate", "price", "answered"}]
    BY <1>1 DEF Inv, QueueInv, GuardInv, AnswerInv, Working
  <2>2. \A c \in Clients : req[c] \in Requests \cup {NoRequest}
    BY <1>1 DEF TransactionInv, HandlerInv, RequestInv
  <2>3. /\ limit \in [Clients -> (0 .. U32Max) \cup {None}]
        /\ simulated \in [Clients -> SwapUnits \cup {None}] /\ known \in [Clients -> Hashes]
        /\ answer \in [Clients -> [status : {"none", "ok", "bad_request", "error"},
                                   hash : Hashes]]
    BY <1>1 DEF TransactionInv, HandlerInv, Limits, Answers
  <2> QED
    BY <1>1, <2>1, <2>2, <2>3 DEF TransactionInv, ServerInv, TypeOK
<1> QED
  BY <1>1, LockInvariant, TransactionInvariant, PTL

(* The transaction of an answer, in the terms of SwapTransactionProofs.    *)
LEMMA AnsweredTransaction ==
  ASSUME Inv, TransactionInv, NEW c \in Clients, Answered(c)
  PROVE  /\ req[c] \in SwapRequest /\ limit[c] \in Limits
         /\ \E e \in Estimate :
              /\ ixs[c] = Sent(req[c], e, limit[c])
              /\ Transaction(c) = Built(req[c], BudgetOf(req[c], e, limit[c]), Tips(req[c]))
              /\ BudgetOf(req[c], e, limit[c]) \in Seq(BudgetIx)
              /\ Len(BudgetOf(req[c], e, limit[c])) + Len(Tips(req[c])) <= 2
<1>1. pc[c] = "answered" /\ answer[c].status = "ok"
  BY DEF Answered
<1>2. RequestInv(c) /\ limit[c] \in Limits
  BY DEF TransactionInv, HandlerInv
<1>3. req[c] \in SwapRequest
  BY <1>1, <1>2, ServerAssumption DEF RequestInv
<1>4. PICK e \in Estimates \cup {NoEstimate} : ixs[c] = Sent(req[c], e, limit[c])
  BY <1>1, <1>2 DEF RequestInv
<1>5. e \in Estimate
  BY EstimateTypes
<1>6. limit[c] \in Nat \cup {None}
  BY <1>2, FeeAssumption DEF Limits
<1>7. Transaction(c) = Built(req[c], BudgetOf(req[c], e, limit[c]), Tips(req[c]))
  BY <1>3, <1>4, <1>5, <1>6, SentTransaction DEF Transaction
<1>8. /\ BudgetOf(req[c], e, limit[c]) \in Seq(BudgetIx)
      /\ Len(BudgetOf(req[c], e, limit[c])) + Len(Tips(req[c])) <= 2
  BY <1>3, <1>5, <1>6, BudgetFacts
<1> QED
  BY <1>2, <1>3, <1>4, <1>5, <1>7, <1>8

(* The transaction of every answer runs through exactly if the market is   *)
(* within the slippage and the user has what the swap takes.               *)
THEOREM AnswersRunIfFunded == Spec => []RunsIfFunded
<1>1. ASSUME Inv, TransactionInv PROVE RunsIfFunded
  <2> SUFFICES ASSUME NEW c \in Clients, Answered(c),
                      NEW l \in Ledgers, NEW drift \in Drifts, NEW k \in SwapUnits
               PROVE  Outcome(c, l, drift, k).ok <=> Funded(req[c], l, drift)
    BY DEF RunsIfFunded
  <2>1. PICK e \in Estimate :
          /\ Transaction(c) = Built(req[c], BudgetOf(req[c], e, limit[c]), Tips(req[c]))
          /\ BudgetOf(req[c], e, limit[c]) \in Seq(BudgetIx)
    BY <1>1, AnsweredTransaction
  <2>2. req[c] \in SwapRequest /\ l \in Ledger /\ k \in Nat
    BY <1>1, AnsweredTransaction, ServerAssumption, RuntimeAssumption
  <2> QED
    BY <2>1, <2>2, TransactionRunsIfFunded DEF Outcome
<1> QED
  BY <1>1, LockInvariant, TransactionInvariant, PTL

(* The transaction of every answer, once it has run through, leaves no SOL *)
(* behind in a native account it wrapped into or unwraps from.             *)
THEOREM AnswersSettle == Spec => []SolComesBack
<1>1. ASSUME Inv, TransactionInv PROVE SolComesBack
  <2> SUFFICES ASSUME NEW c \in Clients, Answered(c),
                      NEW l \in Ledgers, NEW drift \in Drifts, NEW k \in SwapUnits,
                      Outcome(c, l, drift, k).ok
               PROVE  Settled(req[c], l, Market(req[c], drift, k),
                              Outcome(c, l, drift, k).ledger)
    BY DEF SolComesBack
  <2>1. PICK e \in Estimate :
          /\ Transaction(c) = Built(req[c], BudgetOf(req[c], e, limit[c]), Tips(req[c]))
          /\ BudgetOf(req[c], e, limit[c]) \in Seq(BudgetIx)
    BY <1>1, AnsweredTransaction
  <2>2. req[c] \in SwapRequest /\ l \in Ledger /\ k \in Nat
    BY <1>1, AnsweredTransaction, ServerAssumption, RuntimeAssumption
  <2> QED
    BY <2>1, <2>2, TransactionSettles DEF Outcome
<1> QED
  BY <1>1, LockInvariant, TransactionInvariant, PTL

(* The limit set from a simulation that ran through covers what is sent,   *)
(* unless the swap takes more than it took there by over the safety units  *)
(* less the overhead of the request: whatever instructions cost.           *)
THEOREM LimitsCover == Spec => []LimitCoversTransaction
<1>1. ASSUME Inv, TransactionInv PROVE LimitCoversTransaction
  <2> SUFFICES ASSUME NEW c \in Clients, Answered(c), simulated[c] # None, limit[c] # None,
                      NEW l \in Ledgers, NEW drift \in Drifts, NEW k \in SwapUnits,
                      Outcome(c, l, drift, k).ok,
                      Outcome(c, l, drift, k).units > limit[c]
               PROVE  k > simulated[c] + SafetyUnits - Overhead(req[c])
    BY DEF LimitCoversTransaction
  <2> DEFINE r == req[c]
             T == Tips(r)
  <2>1. PICK e \in Estimate :
          /\ Transaction(c) = Built(r, BudgetOf(r, e, limit[c]), T)
          /\ BudgetOf(r, e, limit[c]) \in Seq(BudgetIx)
          /\ Len(BudgetOf(r, e, limit[c])) + Len(T) <= 2
    BY <1>1, AnsweredTransaction
  <2> DEFINE B == BudgetOf(r, e, limit[c])
             run == Execute(Built(r, B, T), l, Market(r, drift, k))
  <2>2. r \in SwapRequest /\ l \in Ledger /\ T \in TipSeqs /\ k \in Nat
    BY <1>1, AnsweredTransaction, TipFacts, ServerAssumption, RuntimeAssumption
  <2>3. B \in Seq(BudgetIx) /\ Len(B) + Len(T) <= 2 /\ Outcome(c, l, drift, k) = run
    BY <2>1 DEF Outcome
  <2>4. /\ run.units \in Nat /\ LeastUnits(r) \in Nat
        /\ run.units <= LeastUnits(r) + k + Creations(r) + Len(B) + Len(T)
    <3> HIDE DEF r, B, T
    <3> QED
      BY <2>2, <2>3, UnitsBounds
  <2>5. Len(B) \in Nat /\ Len(T) \in Nat
    <3>1. T \in Seq(Ix(r))
      BY <2>2, <2>3, PartsAreInstructions
    <3> QED
      BY <2>3, <3>1
  <2>6. /\ limit[c] >= LeastUnits(r) + simulated[c] + SafetyUnits
        /\ limit[c] \in Int /\ simulated[c] \in Nat
    <3>1. /\ RequestInv(c) /\ limit[c] \in Limits
          /\ simulated[c] \in SwapUnits \cup {None}
      BY <1>1 DEF TransactionInv, HandlerInv
    <3> QED
      BY <3>1, FeeAssumption, RuntimeAssumption DEF RequestInv, Limits, None
  <2> DEFINE b == Len(B)
             t == Len(T)
             u == run.units
             m == limit[c]
             n == LeastUnits(r)
             before == simulated[c]
             over == Overhead(r)
             made == Creations(r)
  <2>7. /\ b \in Nat /\ t \in Nat /\ u \in Nat /\ m \in Int /\ n \in Nat
        /\ before \in Nat /\ made \in Nat /\ over = made + 2 /\ k \in Nat
        /\ b + t <= 2 /\ u <= n + k + made + b + t /\ m >= n + before + SafetyUnits
        /\ SafetyUnits \in Nat /\ u > m
    BY <2>2, <2>3, <2>4, <2>5, <2>6, FeeAssumption, OverheadFacts
  <2> HIDE DEF b, t, u, m, n, run, before, over, made
  <2>8. k > before + SafetyUnits - over
    BY <2>7
  <2> QED
    BY <2>8 DEF before, over
<1> QED
  BY <1>1, LockInvariant, TransactionInvariant, PTL

(* An answer in the price step comes from Price.                           *)
LEMMA AnsweredByPrice ==
  ASSUME Inv, [Next]_vars, NEW c \in Clients, pc[c] = "price", pc'[c] = "answered"
  PROVE  Price(c)
<1> USE DEF clientVars
<1>1. DOMAIN pc = Clients
  BY DEF Inv, AnswerInv
<1>2. pc' # pc
  OBVIOUS
<1>3. PICK d \in Clients :
        \/ \E r \in Requests : Request(d, r)
        \/ GrantRead(d) \/ Build(d) \/ SameMints(d) \/ NodeFails(d)
        \/ \E l \in Ledgers, x \in Drifts, u \in SwapUnits : Simulated(d, l, x, u)
        \/ Price(d) \/ Done(d)
  BY <1>2 DEF Next, vars, NewBlock, FirstHash, PollAnswered, FirstHashFails,
              FirstEstimate, NewEstimate, Bootstrapped, StartupFails,
              PollFails, PollWrites, PollWakes
<1>4. \E v : pc' = [pc EXCEPT ![d] = v]
  BY <1>3 DEF Request, GrantRead, Build, SameMints, NodeFails, Simulated, Price, Done, Answer
<1>5. d = c
  BY <1>1, <1>4
<1>6. pc[d] = "price"
  BY <1>5
<1> QED
  BY <1>3, <1>5, <1>6 DEF Request, GrantRead, Build, SameMints, NodeFails, Simulated, Done

(* The price an answer gets makes the runtime charge no more than the fee  *)
(* aimed at, times the instructions if no limit is set.                    *)
THEOREM FeesAreWithinTarget == Spec => FeesWithinTarget
<1>1. ASSUME Inv, TransactionInv, [Next]_vars,
             NEW c \in Clients, pc[c] = "price", Answered(c)',
             FeeBranch(req'[c]) \in {"auto_fee", "multiplier"}
      PROVE  FeeOf(c)' <= TargetFee(req[c], estimate)
                            * (IF limit[c] = None THEN NonBudget(Transaction(c))' ELSE 1)
  <2> DEFINE r == req[c]
             n == NonBudget(Transaction(c)')
             m == limit[c]
  <2>1. pc'[c] = "answered" /\ answer'[c].status = "ok"
    BY <1>1 DEF Answered
  <2>2. Price(c)
    BY <1>1, <2>1, AnsweredByPrice
  <2>3. RequestInv(c) /\ DOMAIN ixs = Clients /\ m \in Limits
    BY <1>1 DEF TransactionInv, HandlerInv
  <2>4. req' = req /\ limit' = limit
    BY <2>2 DEF Price
  <2>5. ~PriofeeOverflows(r)
    <3>1. CASE PriofeeOverflows(r)
      <4>1. Answer(c, "error")
        BY <2>2, <3>1 DEF Price
      <4>2. answer'[c].status = "error"
        BY <1>1, <4>1, AnswerFacts
      <4> QED
        BY <2>1, <4>2
    <3> QED
      BY <3>1
  <2>6. ixs'[c] = Sent(r, estimate, m)
    <3>1. ixs' = [ixs EXCEPT ![c] = WithFee(WithLimit(ixs[c], m), r, estimate, m)]
      BY <2>2, <2>5 DEF Price
    <3>2. ixs[c] = Instructions(r)
      BY <1>1, <2>3 DEF RequestInv
    <3> QED
      BY <2>3, <3>1, <3>2 DEF Sent
  <2>7. r \in SwapRequest /\ estimate \in Estimate /\ m \in Nat \cup {None}
    <3>1. r \in Requests
      BY <1>1, <2>3 DEF RequestInv
    <3>2. estimate \in Estimates \cup {NoEstimate}
      BY <1>1 DEF TransactionInv, ServerInv
    <3> QED
      BY <2>3, <3>1, <3>2, EstimateTypes, ServerAssumption, FeeAssumption DEF Limits
  <2>8. Transaction(c)' = Built(r, BudgetOf(r, estimate, m), Tips(r))
    <3>1. Transaction(c)' = build_transaction(ixs'[c])
      BY DEF Transaction
    <3>2. build_transaction(Sent(r, estimate, m))
            = Built(r, BudgetOf(r, estimate, m), Tips(r))
      <4> HIDE DEF r, m
      <4> QED
        BY <2>7, SentTransaction
    <3> QED
      BY <2>6, <3>1, <3>2
  <2>9. n \in Nat
    <3>1. BudgetOf(r, estimate, m) \in Seq(BudgetIx) /\ Tips(r) \in TipSeqs
      BY <2>7, BudgetFacts, TipFacts
    <3>2. Transaction(c)' \in Seq(Ix(r))
      BY <2>7, <2>8, <3>1, RunParts
    <3> QED
      BY <3>2, NonBudgetType
  <2>10. FeeBranch(r) \in {"auto_fee", "multiplier"}
    BY <1>1, <2>4
  <2>11. PriceSet(c)'.arg = cu_price(r, estimate, m)
    <3>1. PriceSet(c)' = (CHOOSE ix \in ToSet(Sent(r, estimate, m).budget) : ix.op = "price")
      BY <2>6 DEF PriceSet
    <3>2. FeeBranch(r) # "tip"
      BY <2>10
    <3> QED
      BY <2>7, <3>1, <3>2, PriceFound
  <2>12. FeeOf(c)' = PriorityFeeCharged(cu_price(r, estimate, m), RuntimeLimit(m, n))
    BY <2>4, <2>11 DEF FeeOf
  <2>13. PriorityFeeCharged(cu_price(r, estimate, m), RuntimeLimit(m, n))
           <= TargetFee(r, estimate) * (IF m = None THEN n ELSE 1)
    BY <2>7, <2>9, <2>10, SentFeeWithinTarget
  <2> QED
    BY <2>12, <2>13
<1>2. Inv /\ TransactionInv /\ [Next]_vars
        => [\A c \in Clients : pc[c] = "price" => FeeWithinTarget(c)]_vars
  BY <1>1 DEF FeeWithinTarget
<1> QED
  BY <1>2, LockInvariant, TransactionInvariant, PTL DEF Spec, FeesWithinTarget
=============================================================================
