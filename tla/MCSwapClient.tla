---------------------------- MODULE MCSwapClient ----------------------------
(***************************************************************************)
(* An instance of SwapClient for TLC.                                      *)
(***************************************************************************)
EXTENDS SwapClient

CONSTANTS self, other

TwoPrograms == {self, other}

SomeCalls ==
    LET Inner == UNION {[1 .. n -> TwoPrograms] : n \in 0 .. 2}
        OneCall == [program : TwoPrograms, inner : Inner]
    IN  UNION {[1 .. n -> OneCall] : n \in 1 .. 2}

(* The keys of programs a transaction calls are in its message; those of   *)
(* programs that are only called by others may come from tables.           *)
Layouts ==
    {[keys |-> <<other, self>>, writable |-> <<>>, readonly |-> <<>>],
     [keys |-> <<"payer", other>>, writable |-> <<"pool">>, readonly |-> <<self>>],
     [keys |-> <<"payer", self>>, writable |-> <<"pool", "vault">>, readonly |-> <<other>>]}

Fits(cs, layout) ==
    /\ \A i \in DOMAIN cs : cs[i].program \in ToSet(layout.keys)
    /\ \E i \in DOMAIN cs : self \in ToSet(cs[i].inner) \cup {cs[i].program}

SomeTransactions ==
    {[calls |-> c, keys |-> l.keys, writable |-> l.writable, readonly |-> l.readonly] :
        <<c, l>> \in {x \in SomeCalls \X Layouts : Fits(x[1], x[2])}}
=============================================================================
