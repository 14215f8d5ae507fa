--------------------------- MODULE MCSwapServer -----------------------------
(***************************************************************************)
(* Instances of SwapServer for TLC: requests, estimates and ledgers.       *)
(***************************************************************************)
EXTENDS SwapServer

Option(kind, value) == [kind |-> kind, value |-> value]
Unset == Option("none", 0)

(* Every setting of the two fees the code tells apart.                     *)
FeeSettings ==
    {<<Option("micro", 3), Unset>>, <<Option("auto", 0), Unset>>, <<Unset, Unset>>,
     <<Unset, Option("auto", 0)>>, <<Unset, Option("multiplier", 1)>>,
     <<Unset, Option("tip", 2)>>}

RequestsOf(endpoints, settings) ==
    {[endpoint |-> e, pair |-> p, wrap |-> w, dest |-> d, mode |-> m, dynamic |-> y,
      cu_price |-> s[1], priofee |-> s[2]] :
        e \in endpoints, p \in {"same", "sol_in", "sol_out", "tokens"}, w \in BOOLEAN,
        d \in BOOLEAN, m \in {"ExactIn", "ExactOut"}, y \in BOOLEAN, s \in settings}

AllRequests == RequestsOf({"swap-instructions"}, FeeSettings)
AutoFeeRequests == RequestsOf({"swap-instructions"}, {<<Unset, Option("auto", 0)>>})

(* For the run about the lock: the ways through the handlers.              *)
FewRequests ==
    {r \in RequestsOf({"swap"}, {<<Unset, Unset>>}) :
        r.pair \in {"same", "tokens"} /\ ~r.wrap /\ r.dest /\ r.mode = "ExactIn"
        /\ (r.pair = "same" => ~r.dynamic)}

TwoEstimates == {[unit |-> 1, transaction |-> 1], [unit |-> 4, transaction |-> 9]}
OneEstimate == {[unit |-> 1, transaction |-> 1]}

(* Accounts of the user: poor or rich, each token account there or not.    *)
SomeLedgers ==
    {[wallet |-> w, tokens |-> [input |-> i, output |-> o, destination |-> d], unsynced |-> 0] :
        w \in {3, 9}, i \in {Absent, 2}, o \in {Absent, 1}, d \in {Absent, 0}}
OneLedger ==
    {[wallet |-> 9, tokens |-> [input |-> 3, output |-> 1, destination |-> 0], unsynced |-> 0]}
=============================================================================
