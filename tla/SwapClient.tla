----------------------------- MODULE SwapClient -----------------------------
(***************************************************************************)
(* The client that records swaps (src/bin/swap_test_csv.rs): a hundred     *)
(* turns, each of which asks this server for a quote and a transaction,    *)
(* signs and sends it, fetches it back once confirmed, looks for the swap  *)
(* event in its log (decode_transaction_logs) and writes a row of the      *)
(* quote and the event.  src/bin/swap.rs is a client of one turn that      *)
(* writes no row.                                                          *)
(*                                                                         *)
(* The quote, the transaction and the log of a turn are named by the turn  *)
(* they were asked for in.  Requests may fail, for whatever reason; a      *)
(* transaction that was not confirmed may still have landed, which the     *)
(* client does not notice.                                                 *)
(*                                                                         *)
(* An operator named X_Slip, put before X, is X with a plausible slip: it  *)
(* shows what the properties would notice, and is used nowhere.            *)
(***************************************************************************)
EXTENDS LogParser, InstructionParser

CONSTANTS
    Transactions   \* the calls of a transaction, and where its keys were:
                   \*   [calls, keys, writable, readonly]

Turns == MaxLogs  \* the code has a hundred

VARIABLES
    turn,
    phase,    \* what the client is about to do in this turn
    quote,    \* the turn quote_response is of
    tx,       \* the turn the signed transaction is of
    listed,   \* the transaction fetched, and its instructions shown: at most one
    rows,     \* the records serialized to the writer
    flushed,  \* how many of them are in the file
    failed,   \* history: a write to the file has failed
    ended     \* how the process ended

fileVars   == <<flushed, failed>>
clientVars == <<turn, phase, quote, tx, listed, rows, fileVars, ended>>
allVars    == <<parserVars, clientVars>>

ClientInit ==
    /\ ParserInit
    /\ turn = 1
    /\ phase = "quote"
    /\ quote = 0
    /\ tx = 0
    /\ listed = {}
    /\ rows = <<>>
    /\ flushed = 0
    /\ failed = FALSE
    /\ ended = "no"

-----------------------------------------------------------------------------
At(p) == ended = "no" /\ phase = p

GoTo(p) ==
    /\ phase' = p
    /\ UNCHANGED <<turn, fileVars, ended>>

(* What the writer still buffers goes to the file, all of it unless the    *)
(* write fails (the disk is full, say).                                    *)
Flush ==
    \/ flushed' = Len(rows) /\ UNCHANGED failed
    \/ flushed' \in flushed .. Len(rows) /\ failed' = TRUE

(* It is flushed at the end of main, and when it is dropped: by the stack  *)
(* unwinding too, but not by exit().                                       *)
End_AbortOnPanic(how) ==
    /\ ended' = how
    /\ IF how = "returned" THEN Flush ELSE UNCHANGED fileVars
End(how) ==
    /\ ended' = how
    /\ IF how \in {"returned", "panicked"} THEN Flush ELSE UNCHANGED fileVars

(* "continue": the next turn, without a pause.                             *)
Continue ==
    IF turn < Turns
      THEN turn' = turn + 1 /\ phase' = "quote" /\ UNCHANGED <<fileVars, ended>>
      ELSE End("returned") /\ UNCHANGED <<turn, phase>>

AskQuote_GoesOn ==
    /\ At("quote")
    /\ quote' \in {turn, quote} \ {0}
    /\ GoTo("swap")
    /\ UNCHANGED <<parserVars, tx, listed, rows>>
AskQuote ==
    /\ At("quote")
    /\ \/ quote' = turn /\ GoTo("swap")
       \/ quote' = quote /\ Continue
    /\ UNCHANGED <<parserVars, tx, listed, rows>>

(* The transaction is built from the quote; failing to deserialize or to   *)
(* sign it is like getting none.                                           *)
AskSwap ==
    /\ At("swap")
    /\ \/ tx' = quote /\ GoTo("send")
       \/ tx' = tx /\ Continue
    /\ UNCHANGED <<parserVars, quote, listed, rows>>

(* Confirmed; or failed, expired, or given up on.                          *)
Send ==
    /\ At("send")
    /\ GoTo("fetch") \/ Continue
    /\ UNCHANGED <<parserVars, quote, tx, listed, rows>>

(* handle_program_instruction: data of a kind it does not know is shown as *)
(* it is.  An upgraded program has data it does not expect: arguments that *)
(* are cut are a panic, and so is less than the eight bytes of the kind.   *)
InstructionData == {"known", "unknown"} \cup (IF Upgraded THEN {"cut", "short"} ELSE {})
PanicsOn(data) == data \in {"cut", "short"}

(* The transaction is fetched and its instructions are shown.  Without a   *)
(* meta there is nothing to show, and no log.                              *)
Fetch ==
    /\ At("fetch")
    /\ \/ Continue /\ UNCHANGED listed
       \/ \E t \in Transactions, data \in InstructionData :
             LET encoded == Encoded(t.calls, t.keys, t.writable, t.readonly)
             IN  IF ProgramIndex(encoded, Self) = 0 \/ PanicsOn(data)
                   THEN End("panicked") /\ UNCHANGED <<turn, phase, listed>>
                   ELSE /\ listed' = {[calls |-> t.calls, shown |-> Shown(encoded, Self)]}
                        /\ GoTo("open")
    /\ UNCHANGED <<parserVars, quote, tx, rows>>

OpenLog ==
    /\ At("open")
    /\ NewLog(tx)
    /\ listed' = {}
    /\ GoTo("read")
    /\ UNCHANGED <<quote, tx, rows>>

Parse ==
    /\ At("read")
    /\ ReadLine
    /\ UNCHANGED clientVars

(* The row; the buffer may have been full.                                 *)
Record ==
    /\ At("read")
    /\ \E e \in found :
          rows' = Append(rows, [quote |-> quote, event |-> e, garbled |-> garbled])
    /\ flushed' \in {flushed, Len(rows)}
    /\ phase' = "sleep"
    /\ UNCHANGED <<parserVars, turn, quote, tx, listed, failed, ended>>

(* The buffer was full and could not be written: "?" returns from main,    *)
(* and as the writer is dropped the rest may still reach the file.         *)
RecordFails ==
    /\ At("read")
    /\ status = "found"
    /\ flushed' \in flushed .. Len(rows)
    /\ failed' = TRUE
    /\ ended' = "returned"
    /\ UNCHANGED <<parserVars, turn, phase, quote, tx, listed, rows>>

NoEvent ==
    /\ At("read")
    /\ status = "none"
    /\ Continue
    /\ UNCHANGED <<parserVars, quote, tx, listed, rows>>

ParserAborts ==
    /\ At("read")
    /\ \/ status = "panic" /\ End("panicked")
       \/ status = "exit" /\ End("exited")
    /\ UNCHANGED <<parserVars, turn, phase, quote, tx, listed, rows>>

Sleep ==
    /\ At("sleep")
    /\ Continue
    /\ UNCHANGED <<parserVars, quote, tx, listed, rows>>

(* The client runs for minutes and may be interrupted.                     *)
Kill ==
    /\ ended = "no"
    /\ End("killed")
    /\ UNCHANGED <<parserVars, turn, phase, quote, tx, listed, rows>>

ClientNext ==
    \/ AskQuote
    \/ AskSwap
    \/ Send
    \/ Fetch
    \/ OpenLog
    \/ Parse
    \/ Record
    \/ RecordFails
    \/ NoEvent
    \/ ParserAborts
    \/ Sleep
    \/ Kill

ClientSpec == ClientInit /\ [][ClientNext]_allVars

-----------------------------------------------------------------------------
(* The instructions shown are the program's own: those of the transaction  *)
(* and those other programs called it with, wherever its key came from     *)
(* (parse_program_instruction).                                            *)
ShowsOwnInstructions == \A l \in listed : l.shown = OwnCalls(l.calls, Self)

(* A row joins a quote with the event of the swap that was made from it,   *)
(* and no quote has two rows.  The event is the program's own unless the   *)
(* log was not intact, when it may be another program's: two programs that *)
(* name an event SwapEvent have one discriminator.                         *)
RowsAreOwnSwaps ==
    /\ \A i \in DOMAIN rows :
          /\ rows[i].event.log = rows[i].quote
          /\ rows[i].event.by = Self \/ rows[i].garbled
    /\ \A i, j \in DOMAIN rows : rows[i].quote = rows[j].quote => i = j

(* Rows once written are in the file when the client ends, whatever failed *)
(* in the turns before and however it ends, but for three: a write to the  *)
(* file failed, the client was killed, or it called exit() on an event     *)
(* that does not decode, which takes an upgraded program or a log with     *)
(* lines missing or misleading.  A panic loses nothing.                    *)
RowsSurvive ==
    ended # "no" /\ flushed < Len(rows) =>
        \/ failed
        \/ ended = "killed"
        \/ ended = "exited" /\ (odd \/ garbled)
=============================================================================
