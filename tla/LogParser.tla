----------------------------- MODULE LogParser ------------------------------
(***************************************************************************)
(* How the log of a transaction is read (parse_program_event,              *)
(* src/tx_utils/events_instructions_parse.rs).  The runtime logs calls,    *)
(* returns, text and data, but not which program the text and the data are *)
(* from: the parser keeps a stack of the programs that run, and decodes    *)
(* the data logged while its own program is on top.                        *)
(*                                                                         *)
(* The log is complete before it is read.  As the parser looks at one line *)
(* at a time and never back, each line is chosen here when it is read:     *)
(* an action is a step of the transaction, and the parser's turn of the    *)
(* loop over the line this step had logged.  Lines that no test of the     *)
(* parser matches (units consumed, failures) are left out.                 *)
(*                                                                         *)
(* An operator named X_Slip, put before X, is X with a plausible slip: it  *)
(* shows what the properties would notice, and is used nowhere.            *)
(***************************************************************************)
EXTENDS Naturals, Sequences, SequencesExt

CONSTANTS
    Self,      \* the program whose events are looked for
    Others,    \* programs that run in the same transactions
    Upgraded,  \* whether Self on chain is newer than the parser knows it
    MaxLogs,   \* bound: logs parsed one after the other
    MaxDepth,  \* bound: programs in a chain of calls
    MaxStack   \* bound: entries of the parser's stack

Programs == Others \cup {Self}

ASSUME ParserAssumption ==
    /\ Self \notin Others
    /\ "cpi" \notin Programs
    /\ Upgraded \in BOOLEAN
    /\ MaxLogs \in Nat \ {0}
    /\ {MaxDepth, MaxStack} \subseteq Nat

VARIABLES
    log,      \* which log is parsed
    calls,    \* the programs running, the innermost last
    emitted,  \* history: the first swap event of Self: at most one
    garbled,  \* history: a line was missing, or read like one of the runtime
    odd,      \* history: Self itself logged data the parser cannot decode
    status,   \* how far the parser is
    stack,    \* Execution.stack
    found     \* the event it returned: at most one

parserVars == <<log, calls, emitted, garbled, odd, status, stack, found>>

(* Swap events: who emitted them, in which log, and which one it is.       *)
Events == [by : Programs, log : 1 .. MaxLogs, nr : 1 .. 2]

ParserInit ==
    /\ log = 0
    /\ calls = <<>>
    /\ emitted = {}
    /\ garbled = FALSE
    /\ odd = FALSE
    /\ status = "idle"
    /\ stack = <<>>
    /\ found = {}

-----------------------------------------------------------------------------
(* Lines of the log, by what the parser can tell apart.  A line of text    *)
(* may hold the word "invoke" or end in " success"; so may base64.         *)
InvokeLine(p) == [kind |-> "invoke", program |-> p]
SuccessLine   == [kind |-> "success"]
TextLine(has) == [kind |-> "text", has |-> has]

(* Data by its discriminator: "broken" does not decode as a swap event,    *)
(* "short" is less than a discriminator, "other" all there is to skip.     *)
SwapData(e) == [kind |-> "data", is |-> "swap", event |-> e]
OtherData(is) == [kind |-> "data", is |-> is]

OnTop(s, p) == s # <<>> /\ Last(s) = p

(* handle_system_log: what to push, and whether to pop.                    *)
Pushed_OwnOnly(line) ==
    IF line.kind = "invoke" /\ line.program = Self THEN <<Self>> ELSE <<>>
Pushed(line) ==
    CASE line.kind = "invoke" -> IF line.program = Self THEN <<Self>> ELSE <<"cpi">>
      [] line.kind = "text" /\ line.has = "invoke" -> <<"cpi">>
      [] OTHER -> <<>>

Pops(line) ==
    \/ line.kind = "success"
    \/ line.kind = "text" /\ line.has = "success"

(* Execution::pop asserts that there is something to pop.                  *)
ReadSystem_NoPop(line) ==
    /\ stack' = stack \o Pushed(line)
    /\ UNCHANGED <<status, found>>
ReadSystem(line) ==
    IF Pops(line) /\ stack = <<>>
      THEN status' = "panic" /\ UNCHANGED <<stack, found>>
      ELSE /\ stack' = IF Pops(line) THEN Front(stack) ELSE stack \o Pushed(line)
           /\ UNCHANGED <<status, found>>

(* handle_program_log, for data: a swap event ends the search, one that    *)
(* does not decode ends the process.                                       *)
ReadData_GoesOn(line) ==
    /\ status' = CASE line.is = "broken" -> "exit"
                   [] line.is = "short" -> "panic"
                   [] OTHER -> status
    /\ found' = IF line.is = "swap" THEN {line.event} ELSE found
    /\ UNCHANGED stack
ReadData(line) ==
    /\ status' = CASE line.is = "swap" -> "found"
                   [] line.is = "broken" -> "exit"
                   [] line.is = "short" -> "panic"
                   [] OTHER -> status
    /\ found' = IF line.is = "swap" THEN {line.event} ELSE found
    /\ UNCHANGED stack

Read_AnyData(line) ==
    CASE line.kind = "data" -> ReadData(line)
      [] OnTop(stack, Self) /\ line.kind = "text" -> UNCHANGED <<status, stack, found>>
      [] OTHER -> ReadSystem(line)
Read(line) ==
    CASE OnTop(stack, Self) /\ line.kind = "data" -> ReadData(line)
      [] OnTop(stack, Self) /\ line.kind = "text" -> UNCHANGED <<status, stack, found>>
      [] OTHER -> ReadSystem(line)

(* Execution::new takes the first program from the first line.             *)
ReadFirst(p) ==
    /\ stack' = <<p>>
    /\ status' = "reading"
    /\ UNCHANGED found

-----------------------------------------------------------------------------
(* The log of transaction n arrives, or none at all.                       *)
NewLog(n) ==
    /\ status \notin {"start", "reading"}
    /\ log' = n
    /\ calls' = <<>>
    /\ emitted' = {}
    /\ garbled' = FALSE
    /\ odd' = FALSE
    /\ status' \in {"start", "none"}
    /\ stack' = <<>>
    /\ found' = {}

Room == Len(calls) < MaxDepth /\ Len(stack) < MaxStack

(* The runtime lets a program call itself, but no other one that runs.     *)
MayCall(p) == OnTop(calls, p) \/ p \notin ToSet(calls)

(* An instruction of the transaction, or of a program, calls p.            *)
Call(p) ==
    /\ status \in {"start", "reading"}
    /\ Room
    /\ MayCall(p)
    /\ calls' = Append(calls, p)
    /\ IF status = "start" THEN ReadFirst(p) ELSE Read(InvokeLine(p))
    /\ UNCHANGED <<log, emitted, garbled, odd>>

Return ==
    /\ status = "reading"
    /\ calls # <<>>
    /\ calls' = Front(calls)
    /\ Read(SuccessLine)
    /\ UNCHANGED <<log, emitted, garbled, odd>>

(* A program's text.                                                       *)
LogText(has) ==
    /\ status = "reading"
    /\ calls # <<>>
    /\ Room
    /\ Read(TextLine(has))
    /\ garbled' = (garbled \/ (has # "nothing" /\ Last(calls) # Self))
    /\ UNCHANGED <<log, calls, emitted, odd>>

(* A program's swap event.                                                 *)
LogSwap(nr) ==
    /\ status = "reading"
    /\ calls # <<>>
    /\ LET e == [by |-> Last(calls), log |-> log, nr |-> nr]
       IN  /\ Read(SwapData(e))
           /\ emitted' = IF e.by = Self /\ emitted = {} THEN {e} ELSE emitted
    /\ UNCHANGED <<log, calls, garbled, odd>>

(* Any other data.  That of the parser's own program decodes, unless the   *)
(* program was upgraded since: an event may have lost a field, or be of a  *)
(* kind with less than eight bytes.                                        *)
LogData(is) ==
    /\ status = "reading"
    /\ calls # <<>>
    /\ Last(calls) = Self /\ ~Upgraded => is = "other"
    /\ Read(OtherData(is))
    /\ odd' = (odd \/ (Last(calls) = Self /\ is # "other"))
    /\ UNCHANGED <<log, calls, emitted, garbled>>

(* Beyond its limit of bytes the runtime drops lines, the long ones first. *)
LineDropped ==
    /\ status = "reading"
    /\ \/ /\ Room
          /\ \E p \in Programs : MayCall(p) /\ calls' = Append(calls, p)
          /\ UNCHANGED emitted
       \/ /\ calls # <<>>
          /\ calls' = Front(calls)
          /\ UNCHANGED emitted
       \/ /\ OnTop(calls, Self)
          /\ \E nr \in 1 .. 2 :
                emitted' = IF emitted = {} THEN {[by |-> Self, log |-> log, nr |-> nr]}
                           ELSE emitted
          /\ UNCHANGED calls
    /\ garbled' = TRUE
    /\ UNCHANGED <<log, odd, status, stack, found>>

(* The last line: all calls have returned, or one failed.                  *)
EndOfLog ==
    /\ status = "reading"
    /\ calls' = <<>>
    /\ status' = "none"
    /\ UNCHANGED <<log, emitted, garbled, odd, stack, found>>

(* A line of the log is read.                                              *)
ReadLine ==
    \/ \E p \in Programs : Call(p)
    \/ Return
    \/ \E has \in {"nothing", "invoke", "success"} : LogText(has)
    \/ \E nr \in 1 .. 2 : LogSwap(nr)
    \/ \E is \in {"other", "broken", "short"} : LogData(is)
    \/ LineDropped
    \/ EndOfLog

-----------------------------------------------------------------------------
(* What the parser may hold; an event ends the search.                     *)
ParserTypeOK ==
    /\ log \in 0 .. MaxLogs
    /\ calls \in Seq(Programs)
    /\ emitted \subseteq Events
    /\ {garbled, odd} \subseteq BOOLEAN
    /\ status \in {"idle", "start", "reading", "found", "none", "panic", "exit"}
    /\ stack \in Seq(Programs \cup {"cpi"})
    /\ found \subseteq Events
    /\ status = "found" <=> found # {}

(* As long as the log is intact, the parser's stack has an entry for each  *)
(* program that runs, and the entry says whether it is its own program:    *)
(* pushing "cpi" for every other one, and on every line that contains      *)
(* "invoke", loses nothing.                                                *)
StackFollowsCalls ==
    status = "reading" /\ ~garbled =>
        /\ Len(stack) = Len(calls)
        /\ \A i \in DOMAIN stack : stack[i] = Self <=> calls[i] = Self

(* On an intact log the parser panics (Execution::pop, the eight bytes of  *)
(* the discriminator) or ends the process (an event that does not decode)  *)
(* exactly where its own program, upgraded since, has logged data it does  *)
(* not know: never for what other programs log, and never on its stack.    *)
AbortsExplained ==
    ~garbled => (status \in {"panic", "exit"} <=> odd)

(* What is found in an intact log is the first swap event of the program,  *)
(* and none is missed of what was read.                                    *)
Finder == INSTANCE EventFinder
    WITH Events <- Events, ours <- OnTop(calls, Self), first <- emitted,
         found <- found, reliable <- ~garbled

ImplementsFinder == Finder!Spec
=============================================================================
