---------------------------- MODULE EventFinder -----------------------------
(***************************************************************************)
(* What parse_program_event promises (src/tx_utils): of a transaction's    *)
(* log it returns the first swap event the program itself emitted, and     *)
(* nothing if there is none.  It promises nothing on a log that cannot be  *)
(* relied upon: one with lines missing, or with text of another program    *)
(* that reads like a line of the runtime.                                  *)
(***************************************************************************)
CONSTANT Events

VARIABLES
    ours,     \* whether the program itself is running
    first,    \* the first swap event it emitted: at most one
    found,    \* the event returned: at most one
    reliable  \* whether the log can be relied upon so far

finderVars == <<ours, first, found, reliable>>

Init ==
    /\ ours = FALSE
    /\ first = {}
    /\ found = {}
    /\ reliable = TRUE

(* A program calls another one, returns or fails.                          *)
Switch ==
    /\ ours' \in BOOLEAN
    /\ UNCHANGED <<first, found, reliable>>

(* The program emits a swap event.                                         *)
Emit ==
    /\ reliable
    /\ ours
    /\ first = {}
    /\ \E e \in Events : first' = {e}
    /\ found' = first'
    /\ UNCHANGED <<ours, reliable>>

(* From some line on the log is not reliable: anything may be found.       *)
Garbled ==
    /\ ~reliable'
    /\ found' \in SUBSET Events
    /\ first' \in SUBSET Events
    /\ ours' \in BOOLEAN

NewLog == Init'

Next == Switch \/ Emit \/ Garbled \/ NewLog

Spec == Init /\ [][Next]_finderVars
=============================================================================
