---------------------------- MODULE SwapServer ------------------------------
(***************************************************************************)
(* The server around the swap instructions: startup (main.rs), the task    *)
(* that keeps the latest blockhash (blockhash_polling.rs), the one that    *)
(* keeps the fee estimate (priofee.rs), and the handlers of /swap and      *)
(* /swap-instructions (handlers/swap.rs, gfx_swap/swap.rs).                *)
(*                                                                         *)
(* The blockhash sits behind a tokio RwLock, which serves its waiters in   *)
(* the order they came.  A /swap request holds a read guard from before it *)
(* loads accounts until it has its answer, across every request it makes   *)
(* to the node; the polling task needs the write guard.                    *)
(*                                                                         *)
(* An operator named X_Slip, put before X, is X with a plausible slip: it  *)
(* stands for a bug the properties must notice, and is used nowhere.       *)
(***************************************************************************)
EXTENDS SwapTransaction

CONSTANTS
    Clients,     \* connections, each with at most one request under way
    Requests,    \* what they ask for
    Estimates,   \* [unit, transaction] answers of the priority-fee service
    Ledgers,     \* states of the user's accounts at a simulation
    HasPriofee,  \* whether a priority-fee service is configured
    Retries,     \* attempts at the first blockhash (3)
    Validity,    \* blocks a blockhash stays valid (150)
    MaxHeight    \* bound on the blocks the chain produces

ASSUME ServerAssumption ==
    /\ "poller" \notin Clients
    /\ Requests \subseteq SwapRequest
    /\ Estimates \subseteq [unit : Nat, transaction : Nat]
    /\ Ledgers \subseteq Ledger
    /\ HasPriofee \in BOOLEAN
    /\ Retries \in Nat \ {0}
    /\ Validity \in Nat
    /\ MaxHeight \in Nat

VARIABLES
    height,     \* the chain's latest block
    main,       \* where startup is
    tries,      \* failed attempts at the first blockhash
    poller,     \* the blockhash task: "none", "fetch", "write" or "sleep"
    fetched,    \* what it is about to write
    blockhash,  \* the pair behind the lock
    queue,      \* who waits for the lock, in order
    readers,    \* who holds a read guard
    estimate,   \* the latest priority fees
    pc,         \* the handler of each client's request
    req,        \* that request
    ixs,        \* the instructions built for it so far
    limit,      \* the compute-unit limit chosen for it
    simulated,  \* history: the swap's units, if its simulation ran through
    known,      \* history: the newest hash fetched when the request came
    answer      \* status and hash of the answer

chainVars  == <<height>>
startVars  == <<main, tries>>
pollVars   == <<poller, fetched, blockhash>>
lockVars   == <<queue, readers>>
clientVars == <<pc, req, ixs, limit, simulated, known, answer>>
vars == <<chainVars, startVars, pollVars, lockVars, estimate, clientVars>>

(* get_latest_blockhash: the hash of a block and the last height at which  *)
(* it is accepted.  The hash is named by its block.                        *)
RecentBlockhash(h) == [hash |-> h, last_valid_block_height |-> h + Validity]
NoHash == [hash |-> None, last_valid_block_height |-> None]
NoEstimate == [unit |-> None, transaction |-> None]
NoRequest == [endpoint |-> "none"]
NoInstructions == [budget |-> <<>>]
NoAnswer == [status |-> "none", hash |-> NoHash]

(* A node may lag behind the chain by a block.                             *)
NodeHeights == {h \in {height, height - 1} : h >= 0}

Init ==
    /\ height = 0
    /\ main = "blockhash"
    /\ tries = 0
    /\ poller = "none"
    /\ fetched = NoHash
    /\ blockhash = NoHash
    /\ queue = <<>>
    /\ readers = {}
    /\ estimate = NoEstimate
    /\ pc = [c \in Clients |-> "idle"]
    /\ req = [c \in Clients |-> NoRequest]
    /\ ixs = [c \in Clients |-> NoInstructions]
    /\ limit = [c \in Clients |-> None]
    /\ simulated = [c \in Clients |-> None]
    /\ known = [c \in Clients |-> NoHash]
    /\ answer = [c \in Clients |-> NoAnswer]

-----------------------------------------------------------------------------
(* The chain goes on.                                                      *)
NewBlock ==
    /\ height < MaxHeight
    /\ height' = height + 1
    /\ UNCHANGED <<startVars, pollVars, lockVars, estimate, clientVars>>

-----------------------------------------------------------------------------
(***************************************************************************)
(* Startup: the first blockhash, the first fee estimate, the bootstrap of  *)
(* the accounts (AccountsService), then the server.  Each `?' ends main,   *)
(* and with it the process.                                                *)
(***************************************************************************)

FirstHash(h) ==
    /\ main = "blockhash"
    /\ blockhash' = RecentBlockhash(h)
    /\ tries' = 0
    /\ poller' = "fetch"
    /\ main' = IF HasPriofee THEN "priofee" ELSE "bootstrap"
    /\ UNCHANGED <<chainVars, fetched, lockVars, estimate, clientVars>>

FirstHashFails_OffByOne ==
    /\ main = "blockhash"
    /\ tries' = tries + 1
    /\ main' = IF tries' > Retries THEN "exited" ELSE main
    /\ UNCHANGED <<chainVars, pollVars, lockVars, estimate, clientVars>>
FirstHashFails ==
    /\ main = "blockhash"
    /\ tries' = tries + 1
    /\ main' = IF tries' = Retries THEN "exited" ELSE main
    /\ UNCHANGED <<chainVars, pollVars, lockVars, estimate, clientVars>>

FirstEstimate(e) ==
    /\ main = "priofee"
    /\ estimate' = e
    /\ main' = "bootstrap"
    /\ UNCHANGED <<chainVars, tries, pollVars, lockVars, clientVars>>

Bootstrapped ==
    /\ main = "bootstrap"
    /\ main' = "serving"
    /\ UNCHANGED <<chainVars, tries, pollVars, lockVars, estimate, clientVars>>

StartupFails ==
    /\ main \in {"priofee", "bootstrap"}
    /\ main' = "exited"
    /\ UNCHANGED <<chainVars, tries, pollVars, lockVars, estimate, clientVars>>

Running == main # "exited"

-----------------------------------------------------------------------------
(***************************************************************************)
(* The polling tasks.                                                      *)
(***************************************************************************)

(* The node answers, and the task asks for the write guard.                *)
PollAnswered(h) ==
    /\ Running
    /\ poller = "fetch"
    /\ fetched' = RecentBlockhash(h)
    /\ queue' = Append(queue, "poller")
    /\ poller' = "write"
    /\ UNCHANGED <<chainVars, startVars, blockhash, readers, estimate, clientVars>>

PollFails ==
    /\ Running
    /\ poller = "fetch"
    /\ poller' = "sleep"
    /\ UNCHANGED <<chainVars, startVars, fetched, blockhash, lockVars, estimate, clientVars>>

(* The guard is granted, the pair written and the guard dropped without an *)
(* await in between.                                                       *)
PollWrites ==
    /\ Running
    /\ poller = "write"
    /\ Head(queue) = "poller"
    /\ readers = {}
    /\ queue' = Tail(queue)
    /\ blockhash' = fetched
    /\ poller' = "sleep"
    /\ UNCHANGED <<chainVars, startVars, fetched, readers, estimate, clientVars>>

PollWakes ==
    /\ Running
    /\ poller = "sleep"
    /\ poller' = "fetch"
    /\ UNCHANGED <<chainVars, startVars, fetched, blockhash, lockVars, estimate, clientVars>>

(* The fee task replaces the estimate; a failed request leaves it.  Its    *)
(* lock is held for a copy only, so the write is one step.                 *)
NewEstimate(e) ==
    /\ Running
    /\ estimate # NoEstimate
    /\ estimate' = e
    /\ UNCHANGED <<chainVars, startVars, pollVars, lockVars, clientVars>>

-----------------------------------------------------------------------------
(***************************************************************************)
(* The handlers.                                                           *)
(***************************************************************************)
HoldsGuard(c) == c \in readers

(* The guard is dropped with the handler's frame, however it returns.      *)
Release_Leaks(c) == readers' = readers
Release(c) == readers' = readers \ {c}

Answer(c, status) ==
    /\ pc' = [pc EXCEPT ![c] = "answered"]
    /\ answer' = [answer EXCEPT ![c] =
                    [status |-> status,
                     hash   |-> IF status = "ok" /\ HoldsGuard(c) THEN blockhash ELSE NoHash]]
    /\ Release(c)

(* A request arrives; the first thing /swap does is to ask for the guard.  *)
Request(c, r) ==
    /\ main = "serving"
    /\ pc[c] = "idle"
    /\ req' = [req EXCEPT ![c] = r]
    /\ IF r.endpoint = "swap"
         THEN /\ queue' = Append(queue, c)
              /\ pc' = [pc EXCEPT ![c] = "lock"]
              /\ known' = [known EXCEPT ![c] =
                             IF poller = "write" THEN fetched ELSE blockhash]
         ELSE /\ pc' = [pc EXCEPT ![c] = "build"]
              /\ UNCHANGED <<queue, known>>
    /\ UNCHANGED <<chainVars, startVars, pollVars, readers, estimate,
                   ixs, limit, simulated, answer>>

GrantRead_Barging(c) ==
    /\ pc[c] = "lock"
    /\ queue' = SelectSeq(queue, LAMBDA w : w # c)
    /\ readers' = readers \cup {c}
    /\ pc' = [pc EXCEPT ![c] = "build"]
    /\ UNCHANGED <<chainVars, startVars, pollVars, estimate,
                   req, ixs, limit, simulated, known, answer>>
GrantRead(c) ==
    /\ pc[c] = "lock"
    /\ Head(queue) = c
    /\ queue' = Tail(queue)
    /\ readers' = readers \cup {c}
    /\ pc' = [pc EXCEPT ![c] = "build"]
    /\ UNCHANGED <<chainVars, startVars, pollVars, estimate,
                   req, ixs, limit, simulated, known, answer>>

(* The mints are compared, the pool and the config account looked up, the  *)
(* instructions built.                                                     *)
Build(c) ==
    /\ pc[c] = "build"
    /\ req[c].pair # "same"
    /\ ixs' = [ixs EXCEPT ![c] = Instructions(req[c])]
    /\ pc' = [pc EXCEPT ![c] = IF req[c].dynamic THEN "simulate" ELSE "price"]
    /\ UNCHANGED <<chainVars, startVars, pollVars, lockVars, estimate,
                   req, limit, simulated, known, answer>>

SameMints(c) ==
    /\ pc[c] = "build"
    /\ req[c].pair = "same"
    /\ Answer(c, "bad_request")
    /\ UNCHANGED <<chainVars, startVars, pollVars, queue, estimate,
                   req, ixs, limit, simulated, known>>

(* An account is missing, or the simulation cannot be requested.           *)
NodeFails(c) ==
    /\ \/ pc[c] = "build" /\ req[c].pair # "same"
       \/ pc[c] = "simulate"
    /\ Answer(c, "error")
    /\ UNCHANGED <<chainVars, startVars, pollVars, queue, estimate,
                   req, ixs, limit, simulated, known>>

(* The node runs the transaction, as it is so far, on the ledger it sees.  *)
(* Only the units are looked at: not whether the run went through.         *)
Simulated(c, ledger, drift, units) ==
    LET run == Execute(build_transaction(ixs[c]), ledger, Market(req[c], drift, units))
    IN  /\ pc[c] = "simulate"
        /\ \E consumed \in {run.units, None} :
               limit' = [limit EXCEPT ![c] = dynamic_compute(consumed)]
        /\ simulated' = [simulated EXCEPT ![c] = IF run.ok THEN units ELSE None]
        /\ pc' = [pc EXCEPT ![c] = "price"]
        /\ UNCHANGED <<chainVars, startVars, pollVars, lockVars, estimate,
                       req, ixs, known, answer>>

Price(c) ==
    /\ pc[c] = "price"
    /\ IF PriofeeOverflows(req[c])
         THEN Answer(c, "error") /\ UNCHANGED ixs
         ELSE /\ ixs' = [ixs EXCEPT ![c] =
                            WithFee(WithLimit(@, limit[c]), req[c], estimate, limit[c])]
              /\ Answer(c, "ok")
    /\ UNCHANGED <<chainVars, startVars, pollVars, queue, estimate,
                   req, limit, simulated, known>>

(* The client has its answer and may ask again.                            *)
Done(c) ==
    /\ pc[c] = "answered"
    /\ pc' = [pc EXCEPT ![c] = "idle"]
    /\ req' = [req EXCEPT ![c] = NoRequest]
    /\ ixs' = [ixs EXCEPT ![c] = NoInstructions]
    /\ limit' = [limit EXCEPT ![c] = None]
    /\ simulated' = [simulated EXCEPT ![c] = None]
    /\ known' = [known EXCEPT ![c] = NoHash]
    /\ answer' = [answer EXCEPT ![c] = NoAnswer]
    /\ UNCHANGED <<chainVars, startVars, pollVars, lockVars, estimate>>

-----------------------------------------------------------------------------
Next ==
    \/ NewBlock
    \/ \E h \in NodeHeights : FirstHash(h) \/ PollAnswered(h)
    \/ FirstHashFails
    \/ \E e \in Estimates : FirstEstimate(e) \/ NewEstimate(e)
    \/ Bootstrapped
    \/ StartupFails
    \/ PollFails
    \/ PollWrites
    \/ PollWakes
    \/ \E c \in Clients :
        \/ \E r \in Requests : Request(c, r)
        \/ GrantRead(c)
        \/ Build(c)
        \/ SameMints(c)
        \/ NodeFails(c)
        \/ \E l \in Ledgers, d \in Drifts, u \in SwapUnits : Simulated(c, l, d, u)
        \/ Price(c)
        \/ Done(c)

Spec == Init /\ [][Next]_vars

(* Handlers and the lock move on; every request to the node is answered or *)
(* fails (the client's timeout).  Nothing makes clients ask again.         *)
Fairness ==
    /\ WF_vars(PollWrites)
    /\ \A c \in Clients :
        /\ WF_vars(GrantRead(c))
        /\ WF_vars(Build(c) \/ SameMints(c) \/ NodeFails(c) \/ Price(c)
                   \/ \E l \in Ledgers, d \in Drifts, u \in SwapUnits :
                          Simulated(c, l, d, u))

FairSpec == Spec /\ Fairness

-----------------------------------------------------------------------------
(***************************************************************************)
(* Properties.                                                             *)
(***************************************************************************)
Hashes == [hash : Nat, last_valid_block_height : Nat] \cup {NoHash}

TypeOK ==
    /\ height \in 0 .. MaxHeight
    /\ main \in {"blockhash", "priofee", "bootstrap", "serving", "exited"}
    /\ tries \in 0 .. Retries
    /\ poller \in {"none", "fetch", "write", "sleep"}
    /\ fetched \in Hashes
    /\ blockhash \in Hashes
    /\ queue \in Seq(Clients \cup {"poller"})
    /\ readers \subseteq Clients
    /\ estimate \in Estimates \cup {NoEstimate}
    /\ pc \in [Clients -> {"idle", "lock", "build", "simulate", "price", "answered"}]
    /\ \A c \in Clients : req[c] \in Requests \cup {NoRequest}
    /\ limit \in [Clients -> (0 .. U32Max) \cup {None}]
    /\ simulated \in [Clients -> SwapUnits \cup {None}]
    /\ known \in [Clients -> Hashes]
    /\ answer \in [Clients -> [status : {"none", "ok", "bad_request", "error"},
                               hash : Hashes]]

(* A swap transaction carries the newest hash the server had fetched when  *)
(* the request came, with the height that belongs to it: a hash that was   *)
(* waiting to be written is written first, a later one waits for the       *)
(* answer.                                                                 *)
HashOfArrival ==
    \A c \in Clients :
        answer[c].status = "ok" /\ req[c].endpoint = "swap" => answer[c].hash = known[c]

(* Every request gets an answer: the lock is passed on by every handler,   *)
(* whatever becomes of its requests to the node.                           *)
RequestsAnswered ==
    \A c \in Clients : pc[c] # "idle" ~> pc[c] = "answered"

(* A fetched hash gets written, however many swaps overlap and never leave *)
(* the lock free of readers.                                               *)
HashGetsWritten == poller = "write" /\ Running ~> blockhash = fetched \/ ~Running

-----------------------------------------------------------------------------
(* What the user's accounts and the market may be when the transaction of  *)
(* an answered request runs.                                               *)
Answered(c) == pc[c] = "answered" /\ answer[c].status = "ok"
Transaction(c) == build_transaction(ixs[c])
Outcome(c, ledger, drift, units) ==
    Execute(Transaction(c), ledger, Market(req[c], drift, units))

(* The transaction runs, units apart, exactly if the market is within the  *)
(* slippage and the user has what the swap takes.  When it wraps, the      *)
(* quoted amount is wrapped: enough for every exact-in swap, and for an    *)
(* exact-out swap as long as the pool asks for no more than was quoted.    *)
RunsIfFunded ==
    \A c \in Clients : Answered(c) =>
        \A ledger \in Ledgers, drift \in Drifts, units \in SwapUnits :
            Outcome(c, ledger, drift, units).ok <=> Funded(req[c], ledger, drift)

(* After a swap that wraps, no SOL is left behind in the native account:   *)
(* what the pool did not take and the rent are back in the wallet, as is   *)
(* the output of a swap that unwraps.  Everything else changes by no more  *)
(* than the swap, the tip and the rent of accounts created.                *)
SolComesBack ==
    \A c \in Clients : Answered(c) =>
        \A ledger \in Ledgers, drift \in Drifts, units \in SwapUnits :
            LET run == Outcome(c, ledger, drift, units)
            IN  run.ok =>
                  Settled(req[c], ledger, Market(req[c], drift, units), run.ledger)

(* The limit set from a simulation that ran through covers the transaction *)
(* that is sent unless the swap itself has become dearer: by more than the *)
(* units added for safety, less what the transaction has on top of the     *)
(* simulated one.  In between the market moves, accounts come and go, and  *)
(* the instructions for the limit, the price or the tip are added.         *)
LimitCoversTransaction ==
    \A c \in Clients : Answered(c) /\ simulated[c] # None /\ limit[c] # None =>
        \A ledger \in Ledgers, drift \in Drifts, units \in SwapUnits :
            LET run == Outcome(c, ledger, drift, units)
            IN  run.ok /\ run.units > limit[c] =>
                  units > simulated[c] + SafetyUnits - Overhead(req[c])

(* The fee of an answered transaction.                                     *)
PriceSet(c) == CHOOSE ix \in ToSet(ixs[c].budget) : ix.op = "price"
FeeOf(c) ==
    PriorityFeeCharged(PriceSet(c).arg, RuntimeLimit(limit[c], NonBudget(Transaction(c))))

(* The step that answers chose a price by which the runtime charges no     *)
(* more than the fee aimed at: if a limit is set.  If none is, the runtime *)
(* allows the default per instruction, and the fee may be as many times    *)
(* as much as there are instructions.                                      *)
FeeWithinTarget(c) ==
    Answered(c)' /\ FeeBranch(req'[c]) \in {"auto_fee", "multiplier"} =>
        FeeOf(c)' <= TargetFee(req[c], estimate)
                       * (IF limit[c] = None THEN NonBudget(Transaction(c))' ELSE 1)
FeesWithinTarget == [][\A c \in Clients : pc[c] = "price" => FeeWithinTarget(c)]_vars

(* "The cap we set on auto priority-fees" (swap.rs:31): no transaction of  *)
(* a request for an automatic fee is charged more.                         *)
AutoFeesCapped ==
    \A c \in Clients :
        Answered(c) /\ FeeBranch(req[c]) = "auto_fee" => FeeOf(c) <= MaxAutoFee
=============================================================================
