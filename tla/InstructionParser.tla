------------------------- MODULE InstructionParser --------------------------
(***************************************************************************)
(* Which instructions of a fetched transaction are shown as the program's  *)
(* own (parse_program_instruction,                                         *)
(* src/tx_utils/events_instructions_parse.rs).  The instructions name      *)
(* programs by their index in the keys of the message, followed by those   *)
(* the transaction loaded from lookup tables.                              *)
(*                                                                         *)
(* A call is [program, inner]: an instruction of the transaction with the  *)
(* programs it calls, one after the other.  An instruction is labelled     *)
(* <<i>>, its j-th inner one <<i, j>>.  Shown(...) is a set, and so are    *)
(* the groups of inner instructions: the lines are in the node's order.    *)
(*                                                                         *)
(* An operator named X_Slip, put before X, is X with a plausible slip: it  *)
(* shows what the properties would notice, and is used nowhere.            *)
(***************************************************************************)
EXTENDS Naturals, Sequences, FiniteSets, SequencesExt

(* The meta's writable keys come before its readonly ones, in the node's   *)
(* numbering and in the code.                                              *)
AccountKeys_Readonly(tx) == tx.keys \o tx.readonly \o tx.writable
AccountKeys(tx) == tx.keys \o tx.writable \o tx.readonly

(* The first position: none is a panic.                                    *)
ProgramIndex(tx, self) == SelectInSeq(AccountKeys(tx), LAMBDA key : key = self)

(* Inner instructions come in groups, for the instructions that have any;  *)
(* a group holds the index of its instruction.                             *)
Shown(tx, self) ==
    {<<i>> : i \in {i \in DOMAIN tx.instructions : tx.instructions[i] = ProgramIndex(tx, self)}}
    \cup UNION {{<<g.index, j>> : j \in {j \in DOMAIN g.programs :
                                            g.programs[j] = ProgramIndex(tx, self)}} :
                   g \in tx.inner}

(* What a node returns for a transaction that made these calls: keys is    *)
(* the message's, and the tables gave the other two.                       *)
Encoded(calls, keys, writable, readonly) ==
    LET Index(p) == SelectInSeq(keys \o writable \o readonly, LAMBDA key : key = p)
        Group(i) == [index |-> i,
                     programs |-> [j \in DOMAIN calls[i].inner |-> Index(calls[i].inner[j])]]
    IN  [keys |-> keys, writable |-> writable, readonly |-> readonly,
         instructions |-> [i \in DOMAIN calls |-> Index(calls[i].program)],
         inner |-> {Group(i) : i \in {i \in DOMAIN calls : calls[i].inner # <<>>}}]

(* The program's own instructions, from the calls themselves.              *)
OwnCalls(calls, self) ==
    {<<i>> : i \in {i \in DOMAIN calls : calls[i].program = self}}
    \cup UNION {{<<i, j>> : j \in {j \in DOMAIN calls[i].inner : calls[i].inner[j] = self}} :
                   i \in DOMAIN calls}
=============================================================================
