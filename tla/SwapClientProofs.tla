-------------------------- MODULE SwapClientProofs --------------------------
(***************************************************************************)
(* Proofs about LogParser, InstructionParser and SwapClient, for any       *)
(* programs, transactions, logs of any depth and any number of turns.      *)
(***************************************************************************)
EXTENDS SwapClient, SequenceTheorems, WellFoundedInduction, TLAPS

-----------------------------------------------------------------------------
(***************************************************************************)
(* The parser's stack and the programs that run.                           *)
(***************************************************************************)
Entries == Programs \cup {"cpi"}

Follows(s, c) ==
    /\ Len(s) = Len(c)
    /\ \A i \in 1 .. Len(c) : s[i] = Self <=> c[i] = Self

(* A call and its line: an entry each.                                     *)
LEMMA FollowsPush ==
    ASSUME NEW s \in Seq(Entries), NEW c \in Seq(Programs), Follows(s, c),
           NEW x \in Entries, NEW p \in Programs, x = Self <=> p = Self
    PROVE  Follows(s \o <<x>>, Append(c, p)) /\ s \o <<x>> \in Seq(Entries)
<1>1. /\ Len(Append(c, p)) = Len(c) + 1 /\ Len(s \o <<x>>) = Len(c) + 1
      /\ \A i \in 1 .. Len(c) : Append(c, p)[i] = c[i] /\ (s \o <<x>>)[i] = s[i]
      /\ Append(c, p)[Len(c) + 1] = p /\ (s \o <<x>>)[Len(c) + 1] = x
  BY DEF Follows
<1>2. Len(c) \in Nat
  OBVIOUS
<1> QED
  BY <1>1, <1>2 DEF Follows

LEMMA FrontFacts ==
    ASSUME NEW S, NEW s \in Seq(S), s # <<>>
    PROVE  /\ Front(s) \in Seq(S)
           /\ Len(Front(s)) = Len(s) - 1
           /\ \A i \in 1 .. Len(s) - 1 : Front(s)[i] = s[i]
<1>1. Len(s) \in Nat \ {0} /\ \A i \in 1 .. Len(s) - 1 : s[i] \in S
  BY EmptySeq
<1>2. DEFINE n == Len(s) - 1
<1>3. /\ SubSeq(s, 1, n) \in Seq(S)
      /\ Len(SubSeq(s, 1, n)) = IF 1 <= n THEN n - 1 + 1 ELSE 0
      /\ \A i \in 1 .. n - 1 + 1 : SubSeq(s, 1, n)[i] = s[1 + i - 1]
  <2>1. 1 \in Int /\ n \in Int /\ \A i \in 1 .. n : s[i] \in S
    BY <1>1
  <2> HIDE DEF n
  <2> QED
    BY ONLY <2>1, SubSeqProperties
<1>4. Front(s) = SubSeq(s, 1, n)
  BY DEF Front
<1>5. Len(Front(s)) = n
  <2>1. n \in Nat
    BY <1>1
  <2>2. Len(Front(s)) = IF 1 <= n THEN n - 1 + 1 ELSE 0
    BY <1>3, <1>4
  <2> HIDE DEF n
  <2> QED
    BY ONLY <2>1, <2>2
<1>6. ASSUME NEW i \in 1 .. n PROVE Front(s)[i] = s[i]
  <2>1. i \in 1 .. n - 1 + 1 /\ 1 + i - 1 = i
    BY <1>1
  <2> QED
    BY <1>3, <1>4, <2>1
<1> QED
  BY <1>3, <1>4, <1>5, <1>6

(* A return and its line: an entry less each.                              *)
LEMMA FollowsPop ==
    ASSUME NEW s \in Seq(Entries), NEW c \in Seq(Programs), Follows(s, c), c # <<>>
    PROVE  s # <<>> /\ Follows(Front(s), Front(c))
<1>1. s # <<>>
  BY DEF Follows
<1>2. /\ Len(Front(s)) = Len(Front(c))
      /\ Len(Front(c)) = Len(c) - 1
      /\ \A i \in 1 .. Len(c) - 1 : Front(s)[i] = s[i] /\ Front(c)[i] = c[i]
  BY <1>1, FrontFacts DEF Follows
<1> QED
  BY <1>1, <1>2 DEF Follows

(* The parser believes its program to be running exactly when it is.       *)
LEMMA FollowsTop ==
    ASSUME NEW s \in Seq(Entries), NEW c \in Seq(Programs), Follows(s, c)
    PROVE  OnTop(s, Self) <=> OnTop(c, Self)
<1>1. s = <<>> <=> c = <<>>
  BY DEF Follows
<1>2. CASE c # <<>>
  <2>1. Len(c) \in 1 .. Len(c)
    BY <1>2
  <2> QED
    BY <1>1, <2>1 DEF Follows, OnTop, Last
<1> QED
  BY <1>1, <1>2 DEF OnTop

-----------------------------------------------------------------------------
(***************************************************************************)
(* What a line does to the parser, kind by kind.                           *)
(***************************************************************************)
LEMMA ReadInvoke ==
    ASSUME NEW p \in Programs, Read(InvokeLine(p))
    PROVE  /\ stack' = stack \o <<IF p = Self THEN Self ELSE "cpi">>
           /\ UNCHANGED <<status, found>>
  BY DEF Read, ReadSystem, InvokeLine, Pops, Pushed

LEMMA ReadSuccess ==
    ASSUME Read(SuccessLine)
    PROVE  /\ found' = found
           /\ stack = <<>> => status' = "panic" /\ stack' = stack
           /\ stack # <<>> => status' = status /\ stack' = Front(stack)
  BY DEF Read, ReadSystem, SuccessLine, Pops, Pushed

LEMMA ReadText ==
    ASSUME NEW has \in {"nothing", "invoke", "success"}, Read(TextLine(has)),
           stack \in Seq(Entries)
    PROVE  /\ found' = found
           /\ OnTop(stack, Self) \/ has = "nothing" => UNCHANGED <<stack, status>>
           /\ status' \in {status, "panic"}
           /\ stack' \in {stack, stack \o <<"cpi">>}
                 \cup (IF stack = <<>> THEN {} ELSE {Front(stack)})
<1>1. CASE OnTop(stack, Self)
  BY <1>1 DEF Read, TextLine
<1>2. CASE ~OnTop(stack, Self) /\ has = "nothing"
  <2>1. Pushed(TextLine(has)) = <<>> /\ ~Pops(TextLine(has))
    BY <1>2 DEF Pushed, Pops, TextLine
  <2>2. ReadSystem(TextLine(has))
    BY <1>2 DEF Read, TextLine
  <2>3. stack' = stack \o <<>> /\ UNCHANGED <<status, found>>
    BY <2>1, <2>2 DEF ReadSystem
  <2> QED
    BY <1>2, <2>3
<1>3. CASE ~OnTop(stack, Self) /\ has = "invoke"
  <2>1. Pushed(TextLine(has)) = <<"cpi">> /\ ~Pops(TextLine(has))
    BY <1>3 DEF Pushed, Pops, TextLine
  <2>2. ReadSystem(TextLine(has))
    BY <1>3 DEF Read, TextLine
  <2> QED
    BY <1>3, <2>1, <2>2 DEF ReadSystem
<1>4. CASE ~OnTop(stack, Self) /\ has = "success"
  <2>1. Pops(TextLine(has))
    BY <1>4 DEF Pops, TextLine
  <2>2. ReadSystem(TextLine(has))
    BY <1>4 DEF Read, TextLine
  <2> QED
    BY <1>4, <2>1, <2>2 DEF ReadSystem
<1> QED
  BY <1>1, <1>2, <1>3, <1>4

(* Data is decoded on top of the stack only.                               *)
LEMMA ReadSwap ==
    ASSUME NEW e, Read(SwapData(e)), stack \in Seq(Entries)
    PROVE  /\ stack' = stack
           /\ OnTop(stack, Self) => status' = "found" /\ found' = {e}
           /\ ~OnTop(stack, Self) => UNCHANGED <<status, found>>
<1>1. CASE OnTop(stack, Self)
  BY <1>1 DEF Read, ReadData, SwapData
<1>2. CASE ~OnTop(stack, Self)
  <2>1. Pushed(SwapData(e)) = <<>> /\ ~Pops(SwapData(e))
    BY DEF Pushed, Pops, SwapData
  <2>2. ReadSystem(SwapData(e))
    BY <1>2 DEF Read, SwapData
  <2>3. stack' = stack \o <<>> /\ UNCHANGED <<status, found>>
    BY <2>1, <2>2 DEF ReadSystem
  <2> QED
    BY <1>2, <2>3
<1> QED
  BY <1>1, <1>2

LEMMA ReadOther ==
    ASSUME NEW is \in {"other", "broken", "short"}, Read(OtherData(is)),
           stack \in Seq(Entries)
    PROVE  /\ UNCHANGED <<stack, found>>
           /\ status' \in {status, "panic", "exit"}
           /\ ~OnTop(stack, Self) \/ is = "other" => status' = status
           /\ OnTop(stack, Self) /\ is # "other" => status' \in {"panic", "exit"}
<1>1. CASE OnTop(stack, Self)
  BY <1>1 DEF Read, ReadData, OtherData
<1>2. CASE ~OnTop(stack, Self)
  <2>1. Pushed(OtherData(is)) = <<>> /\ ~Pops(OtherData(is))
    BY DEF Pushed, Pops, OtherData
  <2>2. ReadSystem(OtherData(is))
    BY <1>2 DEF Read, OtherData
  <2>3. stack' = stack \o <<>> /\ UNCHANGED <<status, found>>
    BY <2>1, <2>2 DEF ReadSystem
  <2> QED
    BY <1>2, <2>3
<1> QED
  BY <1>1, <1>2

-----------------------------------------------------------------------------
(***************************************************************************)
(* The parser's invariant.                                                 *)
(***************************************************************************)
LogInv ==
    /\ status \in {"start", "reading"} => log \in 1 .. MaxLogs
    /\ status = "start" => calls = <<>> /\ emitted = {} /\ ~garbled /\ ~odd
    /\ ~garbled => found = emitted
    /\ \A e \in emitted \cup found : e.log = log
    /\ \A e \in emitted : e.by = Self

ParserInv == ParserTypeOK /\ StackFollowsCalls /\ AbortsExplained /\ LogInv

FinderStep == [Finder!Next]_(Finder!finderVars)

LEMMA FollowsDef ==
    ASSUME ParserTypeOK
    PROVE  StackFollowsCalls <=> (status = "reading" /\ ~garbled => Follows(stack, calls))
<1>1. Len(stack) \in Nat /\ DOMAIN stack = 1 .. Len(stack)
  BY DEF ParserTypeOK
<1> QED
  BY <1>1 DEF StackFollowsCalls, Follows

LEMMA FollowsDefPrimed ==
    ASSUME ParserTypeOK'
    PROVE  StackFollowsCalls' <=>
             (status' = "reading" /\ ~garbled' => Follows(stack', calls'))
<1>1. Len(stack') \in Nat /\ DOMAIN stack' = 1 .. Len(stack')
  BY DEF ParserTypeOK
<1> QED
  BY <1>1 DEF StackFollowsCalls, Follows

(* Once the log is garbled, only the types and the tags of events matter.  *)
LEMMA GarbledStep ==
    ASSUME ParserTypeOK', garbled', \A e \in (emitted \cup found)' : e.log = log',
           \A e \in emitted' : e.by = Self,
           status' # "start", status' = "reading" => log' \in 1 .. MaxLogs
    PROVE  ParserInv' /\ FinderStep
<1>1. LogInv' /\ AbortsExplained' /\ StackFollowsCalls'
  BY DEF LogInv, AbortsExplained, StackFollowsCalls
<1>2. OnTop(calls, Self)' \in BOOLEAN
  BY DEF OnTop
<1>3. Finder!Garbled
  BY <1>2 DEF Finder!Garbled, ParserTypeOK
<1> QED
  BY <1>1, <1>3 DEF ParserInv, FinderStep, Finder!Next

(* While nothing is found or garbled, the program may start or stop.       *)
LEMMA SwitchStep ==
    ASSUME UNCHANGED <<emitted, found, garbled>>
    PROVE  FinderStep
<1>1. OnTop(calls, Self)' \in BOOLEAN
  BY DEF OnTop
<1>2. Finder!Switch
  BY <1>1 DEF Finder!Switch
<1> QED
  BY <1>2 DEF FinderStep, Finder!Next

LEMMA CallStep ==
    ASSUME ParserInv, NEW p \in Programs, Call(p)
    PROVE  ParserInv' /\ FinderStep
<1> USE DEF Call
<1>1. FinderStep
  <2>1. found' = found
    BY ReadInvoke DEF ReadFirst
  <2> QED
    BY <2>1, SwitchStep
<1>2. ParserTypeOK /\ LogInv /\ AbortsExplained
  BY DEF ParserInv
<1>3. calls' = Append(calls, p) /\ calls' \in Seq(Programs)
  BY <1>2 DEF ParserTypeOK
<1>4. CASE status = "start"
  <2>1. stack' = <<p>> /\ status' = "reading" /\ found' = found /\ calls' = <<p>>
    BY <1>2, <1>3, <1>4 DEF ReadFirst, LogInv
  <2>2. ParserTypeOK'
    BY <1>2, <1>3, <1>4, <2>1 DEF ParserTypeOK
  <2>3. LogInv' /\ AbortsExplained'
    BY <1>2, <1>4, <2>1 DEF LogInv, AbortsExplained
  <2>4. Follows(stack', calls')
    BY <2>1 DEF Follows
  <2> QED
    BY <1>1, <2>2, <2>3, <2>4, FollowsDefPrimed DEF ParserInv
<1>5. CASE status = "reading"
  <2> DEFINE x == IF p = Self THEN Self ELSE "cpi"
  <2>1. stack' = stack \o <<x>> /\ UNCHANGED <<status, found>>
    BY <1>5, ReadInvoke
  <2>2. x \in Entries /\ (x = Self <=> p = Self) /\ stack \in Seq(Entries)
        /\ calls \in Seq(Programs)
    BY <1>2, ParserAssumption DEF Entries, Programs, ParserTypeOK
  <2>3. stack' \in Seq(Entries)
    BY <2>1, <2>2
  <2>4. ParserTypeOK'
    BY <1>2, <1>3, <1>5, <2>1, <2>3 DEF ParserTypeOK, Entries
  <2>5. LogInv' /\ AbortsExplained'
    BY <1>2, <1>5, <2>1 DEF LogInv, AbortsExplained
  <2>6. ~garbled => Follows(stack', calls')
    <3>1. ~garbled => Follows(stack, calls)
      BY <1>2, <1>5, FollowsDef DEF ParserInv
    <3> HIDE DEF x
    <3> QED
      BY <1>3, <2>1, <2>2, <3>1, FollowsPush
  <2> QED
    BY <1>1, <2>4, <2>5, <2>6, FollowsDefPrimed DEF ParserInv
<1> QED
  BY <1>4, <1>5

LEMMA ReturnStep ==
    ASSUME ParserInv, Return
    PROVE  ParserInv' /\ FinderStep
<1> USE DEF Return
<1>1. FinderStep
  BY ReadSuccess, SwitchStep
<1>2. ParserTypeOK /\ LogInv /\ AbortsExplained
  BY DEF ParserInv
<1>3. stack \in Seq(Entries) /\ calls \in Seq(Programs) /\ calls # <<>>
  BY <1>2 DEF ParserTypeOK, Entries
<1>4. calls' = Front(calls) /\ calls' \in Seq(Programs)
  BY <1>3, FrontFacts
<1>5. stack' \in Seq(Entries) /\ status' \in {"reading", "panic"} /\ found' = found
  BY <1>3, ReadSuccess, FrontFacts
<1>6. ParserTypeOK'
  BY <1>2, <1>4, <1>5 DEF ParserTypeOK, Entries
<1>7. ~garbled => status' = "reading" /\ Follows(stack', calls')
  <2>1. ~garbled => Follows(stack, calls)
    BY <1>2, FollowsDef DEF ParserInv
  <2> QED
    BY <1>3, <1>4, <2>1, FollowsPop, ReadSuccess
<1>8. LogInv' /\ AbortsExplained'
  BY <1>2, <1>5, <1>7 DEF LogInv, AbortsExplained
<1> QED
  BY <1>1, <1>6, <1>7, <1>8, FollowsDefPrimed DEF ParserInv

LEMMA TextStep ==
    ASSUME ParserInv, NEW has \in {"nothing", "invoke", "success"}, LogText(has)
    PROVE  ParserInv' /\ FinderStep
<1> USE DEF LogText
<1>1. ParserTypeOK /\ LogInv /\ AbortsExplained
  BY DEF ParserInv
<1>2. stack \in Seq(Entries) /\ calls \in Seq(Programs) /\ calls # <<>>
  BY <1>1 DEF ParserTypeOK, Entries
<1>3. "cpi" \in Entries
  BY DEF Entries
<1>4. /\ stack' \in Seq(Entries) /\ status' \in {"reading", "panic"}
      /\ found' = found /\ UNCHANGED <<log, calls, emitted>>
  BY <1>2, <1>3, ReadText, FrontFacts
<1>5. ParserTypeOK'
  BY <1>1, <1>4 DEF ParserTypeOK, Entries
<1>6. CASE garbled'
  BY <1>1, <1>4, <1>5, <1>6, GarbledStep DEF LogInv
<1>7. CASE ~garbled'
  <2>1. ~garbled /\ (has = "nothing" \/ OnTop(calls, Self))
    BY <1>2, <1>7 DEF OnTop
  <2>2. Follows(stack, calls)
    BY <1>1, <2>1, FollowsDef DEF ParserInv
  <2>3. UNCHANGED <<stack, status, garbled>>
    <3>1. OnTop(stack, Self) \/ has = "nothing"
      BY <1>2, <2>1, <2>2, FollowsTop
    <3>2. UNCHANGED <<stack, status>>
      BY <1>2, <3>1, ReadText
    <3>3. garbled = FALSE /\ garbled' = FALSE
      BY <1>1, <1>5, <1>7, <2>1 DEF ParserTypeOK
    <3> QED
      BY <3>2, <3>3
  <2>4. LogInv' /\ AbortsExplained'
    BY <1>1, <1>4, <2>3 DEF LogInv, AbortsExplained
  <2>5. FinderStep
    BY <1>4, <2>3, SwitchStep
  <2> QED
    BY <1>4, <1>5, <2>2, <2>3, <2>4, <2>5, FollowsDefPrimed DEF ParserInv
<1> QED
  BY <1>6, <1>7

LEMMA SwapStep ==
    ASSUME ParserInv, NEW nr \in 1 .. 2, LogSwap(nr)
    PROVE  ParserInv' /\ FinderStep
<1> USE DEF LogSwap
<1> DEFINE e == [by |-> Last(calls), log |-> log, nr |-> nr]
<1>1. ParserTypeOK /\ LogInv /\ AbortsExplained
  BY DEF ParserInv
<1>2. stack \in Seq(Entries) /\ calls \in Seq(Programs) /\ calls # <<>>
  BY <1>1 DEF ParserTypeOK, Entries
<1>3. /\ e \in Events /\ e.log = log
      /\ e.by = Self <=> OnTop(calls, Self)
  <2>1. Last(calls) \in Programs
    <3>1. Len(calls) \in 1 .. Len(calls)
      BY <1>2, EmptySeq
    <3> QED
      BY <1>2, <3>1 DEF Last
  <2> QED
    BY <1>1, <1>2, <2>1 DEF LogInv, Events, OnTop
<1>4. /\ stack' = stack /\ UNCHANGED <<log, calls, garbled>>
      /\ OnTop(stack, Self) => status' = "found" /\ found' = {e}
      /\ ~OnTop(stack, Self) => status' = "reading" /\ found' = found
      /\ emitted' = IF OnTop(calls, Self) /\ emitted = {} THEN {e} ELSE emitted
  <2>1. Read(SwapData(e))
    OBVIOUS
  <2> QED
    BY <1>2, <1>3, <2>1, ReadSwap
<1> HIDE DEF e
<1>5. ParserTypeOK'
  BY <1>1, <1>3, <1>4 DEF ParserTypeOK
<1>6. CASE garbled
  BY <1>1, <1>3, <1>4, <1>5, <1>6, GarbledStep DEF LogInv
<1>7. CASE ~garbled
  <2>1. Follows(stack, calls)
    BY <1>1, <1>7, FollowsDef DEF ParserInv
  <2>2. OnTop(stack, Self) <=> OnTop(calls, Self)
    BY <1>2, <2>1, FollowsTop
  <2>3. found = {} /\ emitted = {}
    BY <1>1, <1>7 DEF ParserTypeOK, LogInv
  <2>4. LogInv' /\ AbortsExplained'
    BY <1>1, <1>3, <1>4, <1>7, <2>2, <2>3 DEF LogInv, AbortsExplained
  <2>5. StackFollowsCalls'
    BY <1>4, <1>5, <2>1, FollowsDefPrimed
  <2>6. CASE OnTop(calls, Self)
    <3>1. Finder!Emit
      BY <1>3, <1>4, <1>7, <2>2, <2>3, <2>6 DEF Finder!Emit, OnTop
    <3> QED
      BY <1>5, <2>4, <2>5, <3>1 DEF ParserInv, FinderStep, Finder!Next
  <2>7. CASE ~OnTop(calls, Self)
    BY <1>4, <1>5, <2>2, <2>4, <2>5, <2>7, SwitchStep DEF ParserInv
  <2> QED
    BY <2>6, <2>7
<1> QED
  BY <1>6, <1>7

LEMMA DataStep ==
    ASSUME ParserInv, NEW is \in {"other", "broken", "short"}, LogData(is)
    PROVE  ParserInv' /\ FinderStep
<1> USE DEF LogData
<1>1. ParserTypeOK /\ LogInv /\ AbortsExplained
  BY DEF ParserInv
<1>2. stack \in Seq(Entries) /\ calls \in Seq(Programs) /\ calls # <<>>
  BY <1>1 DEF ParserTypeOK, Entries
<1>3. /\ UNCHANGED <<stack, found, log, calls, emitted, garbled>>
      /\ status' \in {"reading", "panic", "exit"}
      /\ ~OnTop(stack, Self) \/ is = "other" => status' = "reading"
      /\ OnTop(stack, Self) /\ is # "other" => status' # "reading"
  BY <1>2, ReadOther
<1>8. odd' = (odd \/ (OnTop(calls, Self) /\ is # "other"))
  BY <1>2 DEF OnTop
<1>4. ParserTypeOK'
  BY <1>1, <1>3, <1>8 DEF ParserTypeOK
<1>5. ~garbled => /\ ~odd /\ Follows(stack, calls)
                  /\ OnTop(stack, Self) <=> OnTop(calls, Self)
  <2>1. ~garbled => Follows(stack, calls)
    BY <1>1, FollowsDef DEF ParserInv
  <2>2. ~garbled => ~odd
    BY <1>1 DEF AbortsExplained
  <2> QED
    BY <1>2, <2>1, <2>2, FollowsTop
<1>9. AbortsExplained'
  <2>1. CASE garbled
    BY <1>3, <2>1 DEF AbortsExplained
  <2>2. CASE ~garbled /\ OnTop(calls, Self) /\ is # "other"
    <3>1. odd' /\ status' \in {"panic", "exit"}
      BY <1>3, <1>5, <1>8, <2>2
    <3> QED
      BY <3>1 DEF AbortsExplained
  <2>3. CASE ~garbled /\ ~(OnTop(calls, Self) /\ is # "other")
    <3>1. ~odd' /\ status' = "reading"
      BY <1>3, <1>5, <1>8, <2>3
    <3> QED
      BY <3>1 DEF AbortsExplained
  <2> QED
    BY <2>1, <2>2, <2>3
<1>6. LogInv' /\ AbortsExplained'
  BY <1>1, <1>3, <1>9 DEF LogInv
<1>7. FinderStep
  BY <1>3, SwitchStep
<1> QED
  BY <1>3, <1>4, <1>5, <1>6, <1>7, FollowsDefPrimed DEF ParserInv

LEMMA DropStep ==
    ASSUME ParserInv, LineDropped
    PROVE  ParserInv' /\ FinderStep
<1>1. ParserTypeOK /\ LogInv
  BY DEF ParserInv
<1>2. /\ calls' \in Seq(Programs)
      /\ garbled' /\ status = "reading" /\ UNCHANGED <<log, odd, status, stack, found>>
  <2>1. calls # <<>> => Front(calls) \in Seq(Programs)
    BY <1>1, FrontFacts DEF ParserTypeOK
  <2>2. \A p \in Programs : Append(calls, p) \in Seq(Programs)
    BY <1>1 DEF ParserTypeOK
  <2>3. calls \in Seq(Programs)
    BY <1>1 DEF ParserTypeOK
  <2> QED
    BY <2>1, <2>2, <2>3 DEF LineDropped
<1>3. \/ emitted' = emitted
      \/ \E nr \in 1 .. 2 : emitted' = {[by |-> Self, log |-> log, nr |-> nr]}
  BY DEF LineDropped
<1>4. emitted' \subseteq Events /\ \A e \in emitted' : e.log = log /\ e.by = Self
  BY <1>1, <1>2, <1>3 DEF ParserTypeOK, LogInv, Events, Programs
<1>5. ParserTypeOK'
  BY <1>1, <1>2, <1>4 DEF ParserTypeOK
<1> QED
  BY <1>1, <1>2, <1>4, <1>5, GarbledStep DEF LogInv

LEMMA EndStep ==
    ASSUME ParserInv, EndOfLog
    PROVE  ParserInv' /\ FinderStep
<1>1. ParserTypeOK /\ LogInv /\ AbortsExplained
  BY DEF ParserInv
<1>2. ParserTypeOK'
  BY <1>1, EmptySeq DEF EndOfLog, ParserTypeOK
<1>3. LogInv' /\ AbortsExplained' /\ StackFollowsCalls'
  BY <1>1 DEF EndOfLog, LogInv, AbortsExplained, StackFollowsCalls
<1> QED
  BY <1>2, <1>3, SwitchStep DEF EndOfLog, ParserInv

LEMMA NewLogStep ==
    ASSUME NEW n \in 1 .. MaxLogs, NewLog(n)
    PROVE  ParserInv' /\ FinderStep
<1> USE DEF NewLog
<1>1. ParserTypeOK'
  <2>1. <<>> \in Seq(Programs) /\ <<>> \in Seq(Programs \cup {"cpi"})
    OBVIOUS
  <2>2. n \in 0 .. MaxLogs
    BY ParserAssumption
  <2> QED
    BY <2>1, <2>2 DEF ParserTypeOK
<1>2. LogInv' /\ AbortsExplained' /\ StackFollowsCalls'
  BY DEF LogInv, AbortsExplained, StackFollowsCalls
<1>3. Finder!NewLog
  BY DEF Finder!NewLog, Finder!Init, OnTop
<1> QED
  BY <1>1, <1>2, <1>3 DEF ParserInv, FinderStep, Finder!Next

LEMMA ReadLineStep == ParserInv /\ ReadLine => ParserInv' /\ FinderStep
  BY CallStep, ReturnStep, TextStep, SwapStep, DataStep, DropStep, EndStep DEF ReadLine

-----------------------------------------------------------------------------
(***************************************************************************)
(* The client's invariant: in each turn, what is held is of this turn.     *)
(***************************************************************************)
Row == [quote : 1 .. Turns, event : Events, garbled : BOOLEAN]

TurnInv ==
    /\ turn \in 1 .. Turns
    /\ phase \in {"quote", "swap", "send", "fetch", "open", "read", "sleep"}
    /\ phase # "quote" => quote = turn
    /\ phase \in {"send", "fetch", "open", "read"} => tx = turn
    /\ phase = "read" => log = turn

RowsInv ==
    /\ rows \in Seq(Row)
    /\ RowsAreOwnSwaps
    /\ \A i \in DOMAIN rows :
          rows[i].quote <= turn /\ (rows[i].quote = turn => phase = "sleep")

EndInv ==
    /\ ended \in {"no", "returned", "panicked", "exited", "killed"}
    /\ ended = "exited" => status = "exit"
    /\ ended \in {"returned", "panicked"} /\ ~failed => flushed = Len(rows)
    /\ failed \in BOOLEAN

ClientInv == ParserInv /\ TurnInv /\ RowsInv /\ EndInv

LEMMA ClientInitInv == ClientInit => ClientInv /\ Finder!Init
<1> SUFFICES ASSUME ClientInit PROVE ClientInv /\ Finder!Init
  OBVIOUS
<1> USE DEF ClientInit, ParserInit
<1>1. ParserTypeOK
  <2>1. <<>> \in Seq(Programs) /\ <<>> \in Seq(Programs \cup {"cpi"})
    OBVIOUS
  <2>2. 0 \in 0 .. MaxLogs
    BY ParserAssumption
  <2> QED
    BY <2>1, <2>2 DEF ParserTypeOK
<1>2. StackFollowsCalls /\ AbortsExplained /\ LogInv
  BY DEF StackFollowsCalls, AbortsExplained, LogInv
<1>3. TurnInv
  BY ParserAssumption DEF TurnInv, Turns
<1>4. RowsInv
  <2>1. rows \in Seq(Row) /\ DOMAIN rows = {}
    BY DEF Row
  <2> QED
    BY <2>1 DEF RowsInv, RowsAreOwnSwaps
<1>5. EndInv
  BY DEF EndInv
<1>6. Finder!Init
  BY DEF Finder!Init, OnTop
<1> QED
  BY <1>1, <1>2, <1>3, <1>4, <1>5, <1>6 DEF ClientInv, ParserInv

(* A step that leaves the parser alone.                                    *)
LEMMA ParserUnchanged ==
    ASSUME ParserInv, UNCHANGED parserVars
    PROVE  ParserInv' /\ FinderStep
<1> USE DEF parserVars
<1>1. ParserTypeOK' /\ StackFollowsCalls' /\ AbortsExplained' /\ LogInv'
  BY DEF ParserInv, ParserTypeOK, StackFollowsCalls, AbortsExplained, LogInv
<1>2. UNCHANGED Finder!finderVars
  BY DEF Finder!finderVars, OnTop
<1> QED
  BY <1>1, <1>2 DEF ParserInv, FinderStep

LEMMA RowsUnchanged ==
    ASSUME TurnInv, RowsInv, UNCHANGED rows, turn' \in Nat,
           \/ turn' > turn
           \/ turn' = turn /\ (phase' = phase \/ phase # "sleep")
    PROVE  RowsInv'
<1>1. \A i \in DOMAIN rows : rows[i].quote \in Nat /\ turn \in Nat
  <2>1. MaxLogs \in Nat /\ turn \in Nat
    BY ParserAssumption DEF TurnInv, Turns
  <2>2. \A i \in DOMAIN rows : rows[i] \in Row
    BY DEF RowsInv
  <2> QED
    BY <2>1, <2>2 DEF Row, Turns
<1> QED
  BY <1>1 DEF RowsInv, RowsAreOwnSwaps

LEMMA ContinueStep ==
    ASSUME TurnInv, EndInv, RowsInv, ended = "no", Continue,
           UNCHANGED <<quote, tx, log, rows, status>>
    PROVE  TurnInv' /\ EndInv' /\ RowsInv'
<1>1. MaxLogs \in Nat /\ turn \in 1 .. MaxLogs
  BY ParserAssumption DEF TurnInv, Turns
<1>2. CASE turn < Turns
  <2>1. turn' = turn + 1 /\ phase' = "quote" /\ ended' = "no" /\ failed' = failed
    BY <1>2 DEF Continue, fileVars
  <2>2. TurnInv' /\ EndInv'
    BY <1>1, <1>2, <2>1 DEF TurnInv, EndInv, Turns
  <2> QED
    BY <1>1, <2>1, <2>2, RowsUnchanged
<1>3. CASE ~(turn < Turns)
  <2>1. /\ UNCHANGED <<turn, phase>> /\ ended' = "returned"
        /\ failed' \in BOOLEAN /\ (flushed' = Len(rows) \/ failed')
    BY <1>3 DEF Continue, End, Flush, EndInv
  <2>2. TurnInv' /\ EndInv'
    BY <2>1 DEF TurnInv, EndInv
  <2> QED
    BY <1>1, <2>1, <2>2, RowsUnchanged
<1> QED
  BY <1>2, <1>3

(* The next request of the turn: its result is put down as this turn's.    *)
LEMMA GoToStep ==
    ASSUME TurnInv, EndInv, RowsInv, ended = "no", NEW p, GoTo(p),
           UNCHANGED <<rows, status>>, phase # "sleep", p # "sleep",
           \/ p = "swap" /\ quote' = turn
           \/ p = "send" /\ quote' = turn /\ tx' = turn
           \/ p \in {"fetch", "open"} /\ UNCHANGED <<quote, tx>> /\ phase \in {"send", "fetch"}
    PROVE  TurnInv' /\ EndInv' /\ RowsInv'
<1>1. MaxLogs \in Nat /\ turn \in 1 .. MaxLogs
  BY ParserAssumption DEF TurnInv, Turns
<1>2. phase' = p /\ UNCHANGED <<turn, flushed, failed, ended>>
  BY DEF GoTo, fileVars
<1>3. TurnInv' /\ EndInv'
  BY <1>2 DEF TurnInv, EndInv
<1> QED
  BY <1>1, <1>2, <1>3, RowsUnchanged

(* The client ends, wherever it is.                                        *)
LEMMA EndStepClient ==
    ASSUME TurnInv, EndInv, RowsInv,
           NEW how \in {"panicked", "exited", "killed"}, End(how),
           how = "exited" => status = "exit",
           UNCHANGED <<turn, phase, quote, tx, log, rows, status>>
    PROVE  TurnInv' /\ EndInv' /\ RowsInv'
<1>1. MaxLogs \in Nat /\ turn \in 1 .. MaxLogs
  BY ParserAssumption DEF TurnInv, Turns
<1>2. /\ ended' = how /\ failed' \in BOOLEAN
      /\ how = "panicked" => flushed' = Len(rows) \/ failed'
  BY DEF End, Flush, EndInv, fileVars
<1>3. TurnInv' /\ EndInv'
  BY <1>2 DEF TurnInv, EndInv
<1> QED
  BY <1>1, <1>3, RowsUnchanged

LEMMA RecordStep ==
    ASSUME ClientInv, Record
    PROVE  TurnInv' /\ EndInv' /\ RowsInv'
<1> USE DEF Record, At
<1>1. /\ ParserTypeOK /\ LogInv /\ TurnInv /\ RowsInv /\ EndInv
      /\ MaxLogs \in Nat /\ turn \in 1 .. MaxLogs
  BY ParserAssumption DEF ClientInv, ParserInv, TurnInv, Turns
<1>2. PICK e \in found :
        rows' = Append(rows, [quote |-> quote, event |-> e, garbled |-> garbled])
  OBVIOUS
<1> DEFINE row == [quote |-> quote, event |-> e, garbled |-> garbled]
<1>3. quote = turn /\ log = turn /\ phase' = "sleep"
      /\ UNCHANGED <<turn, quote, tx, log, failed, ended, status>>
  BY <1>1 DEF TurnInv, parserVars
<1>4. row \in Row /\ row.quote = turn /\ row.event.log = turn
      /\ (row.event.by = Self \/ row.garbled)
  BY <1>1, <1>3 DEF ParserTypeOK, LogInv, Row, Turns
<1>5. rows \in Seq(Row) /\ rows' = Append(rows, row)
  BY <1>1, <1>2 DEF RowsInv
<1> HIDE DEF row
<1>6. /\ rows' \in Seq(Row) /\ Len(rows) \in Nat
      /\ DOMAIN rows' = 1 .. Len(rows) + 1 /\ DOMAIN rows = 1 .. Len(rows)
      /\ \A i \in 1 .. Len(rows) : rows'[i] = rows[i]
      /\ rows'[Len(rows) + 1] = row
  BY <1>4, <1>5
<1>7. \A i \in 1 .. Len(rows) : rows[i].quote \in Nat /\ rows[i].quote < turn
  <2>1. \A i \in 1 .. Len(rows) : rows[i] \in Row
    BY <1>5
  <2>2. \A i \in 1 .. Len(rows) : rows[i].quote \in Nat /\ turn \in Nat
    BY <1>1, <2>1 DEF Row, Turns
  <2> QED
    BY <1>1, <1>6, <2>2 DEF RowsInv
<1>8. RowsAreOwnSwaps'
  <2>1. ASSUME NEW i \in DOMAIN rows'
        PROVE  /\ rows'[i].event.log = rows'[i].quote
               /\ rows'[i].event.by = Self \/ rows'[i].garbled
    <3>1. CASE i \in 1 .. Len(rows)
      BY <1>1, <1>6, <3>1 DEF RowsInv, RowsAreOwnSwaps
    <3>2. CASE i = Len(rows) + 1
      BY <1>4, <1>6, <3>2
    <3> QED
      BY <1>6, <3>1, <3>2
  <2>2. ASSUME NEW i \in DOMAIN rows', NEW j \in DOMAIN rows',
               rows'[i].quote = rows'[j].quote
        PROVE  i = j
    <3>1. CASE i \in 1 .. Len(rows) /\ j \in 1 .. Len(rows)
      BY <1>1, <1>6, <2>2, <3>1 DEF RowsInv, RowsAreOwnSwaps
    <3>2. CASE i \in 1 .. Len(rows) /\ j = Len(rows) + 1
      BY <1>1, <1>4, <1>6, <1>7, <2>2, <3>2
    <3>3. CASE j \in 1 .. Len(rows) /\ i = Len(rows) + 1
      BY <1>1, <1>4, <1>6, <1>7, <2>2, <3>3
    <3> QED
      BY <1>6, <3>1, <3>2, <3>3
  <2> QED
    BY <2>1, <2>2 DEF RowsAreOwnSwaps
<1>9. \A i \in DOMAIN rows' : rows'[i].quote <= turn
  BY <1>1, <1>4, <1>6, <1>7
<1>10. RowsInv'
  BY <1>3, <1>6, <1>8, <1>9 DEF RowsInv
<1>11. TurnInv' /\ EndInv'
  BY <1>1, <1>3 DEF TurnInv, EndInv
<1> QED
  BY <1>10, <1>11

LEMMA ReadLineLog == ReadLine => log' = log
  BY DEF ReadLine, Call, Return, LogText, LogSwap, LogData, LineDropped, EndOfLog

LEMMA ClientNextInv == ClientInv /\ [ClientNext]_allVars => ClientInv' /\ FinderStep
<1> SUFFICES ASSUME ClientInv, [ClientNext]_allVars PROVE ClientInv' /\ FinderStep
  OBVIOUS
<1> USE DEF At
<1>1. ParserInv /\ TurnInv /\ RowsInv /\ EndInv
  BY DEF ClientInv
<1>2. UNCHANGED parserVars => UNCHANGED <<log, status>>
  BY DEF parserVars
<1>3. SUFFICES /\ ParserInv' /\ FinderStep
               /\ TurnInv' /\ EndInv' /\ RowsInv'
  BY DEF ClientInv
<1>4. CASE UNCHANGED parserVars /\ TurnInv' /\ EndInv' /\ RowsInv'
  BY <1>1, <1>4, ParserUnchanged
<1>5. CASE AskQuote
  <2>1. UNCHANGED <<parserVars, rows, tx>> /\ phase = "quote" /\ ended = "no"
    BY <1>5 DEF AskQuote
  <2>2. CASE quote' = turn /\ GoTo("swap")
    BY <1>1, <1>2, <1>4, <2>1, <2>2, GoToStep
  <2>3. CASE quote' = quote /\ Continue
    BY <1>1, <1>2, <1>4, <2>1, <2>3, ContinueStep
  <2> QED
    BY <1>5, <2>2, <2>3 DEF AskQuote
<1>6. CASE AskSwap
  <2>1. UNCHANGED <<parserVars, rows, quote>> /\ phase = "swap" /\ ended = "no"
        /\ quote = turn
    BY <1>1, <1>6 DEF AskSwap, TurnInv
  <2>2. CASE tx' = quote /\ GoTo("send")
    BY <1>1, <1>2, <1>4, <2>1, <2>2, GoToStep
  <2>3. CASE tx' = tx /\ Continue
    BY <1>1, <1>2, <1>4, <2>1, <2>3, ContinueStep
  <2> QED
    BY <1>6, <2>2, <2>3 DEF AskSwap
<1>7. CASE Send
  <2>1. UNCHANGED <<parserVars, rows, quote, tx>> /\ phase = "send" /\ ended = "no"
    BY <1>7 DEF Send
  <2>2. CASE GoTo("fetch")
    BY <1>1, <1>2, <1>4, <2>1, <2>2, GoToStep
  <2>3. CASE Continue
    BY <1>1, <1>2, <1>4, <2>1, <2>3, ContinueStep
  <2> QED
    BY <1>7, <2>2, <2>3 DEF Send
<1>8. CASE Fetch
  <2>1. UNCHANGED <<parserVars, rows, quote, tx>> /\ phase = "fetch" /\ ended = "no"
    BY <1>8 DEF Fetch
  <2>2. CASE Continue
    BY <1>1, <1>2, <1>4, <2>1, <2>2, ContinueStep
  <2>3. CASE GoTo("open")
    BY <1>1, <1>2, <1>4, <2>1, <2>3, GoToStep
  <2>4. CASE End("panicked") /\ UNCHANGED <<turn, phase>>
    BY <1>1, <1>2, <1>4, <2>1, <2>4, EndStepClient
  <2> QED
    BY <1>8, <2>2, <2>3, <2>4 DEF Fetch
<1>9. CASE OpenLog
  <2>1. NewLog(tx) /\ phase = "open" /\ GoTo("read") /\ UNCHANGED <<quote, tx, rows>>
    BY <1>9 DEF OpenLog
  <2>2. tx = turn /\ quote = turn /\ turn \in 1 .. MaxLogs
    BY <1>1, <2>1 DEF TurnInv, Turns
  <2>3. ParserInv' /\ FinderStep
    BY <2>1, <2>2, NewLogStep
  <2>4. /\ phase' = "read" /\ UNCHANGED <<turn, flushed, failed, ended>>
        /\ log' = tx /\ ended = "no"
    BY <1>9, <2>1 DEF GoTo, NewLog, OpenLog, fileVars
  <2>5. TurnInv' /\ EndInv'
    BY <1>1, <2>1, <2>2, <2>4 DEF TurnInv, EndInv
  <2>6. RowsInv'
    BY <1>1, <2>1, <2>2, <2>4, RowsUnchanged, ParserAssumption
  <2> QED
    BY <2>3, <2>5, <2>6
<1>10. CASE Parse
  <2>1. ReadLine /\ UNCHANGED clientVars /\ ended = "no" /\ log' = log
    BY <1>10, ReadLineLog DEF Parse
  <2>2. ParserInv' /\ FinderStep
    BY <1>1, <2>1, ReadLineStep
  <2>3. TurnInv' /\ EndInv' /\ RowsInv'
    BY <1>1, <2>1 DEF TurnInv, EndInv, RowsInv, RowsAreOwnSwaps, clientVars, fileVars
  <2> QED
    BY <2>2, <2>3
<1>11. CASE Record
  BY <1>1, <1>4, <1>11, RecordStep DEF Record
<1>12. CASE RecordFails
  <2>1. /\ UNCHANGED <<parserVars, turn, phase, quote, tx, rows>>
        /\ failed' = TRUE /\ ended' = "returned"
    BY <1>12 DEF RecordFails
  <2>2. TurnInv' /\ EndInv'
    BY <1>1, <1>2, <2>1 DEF TurnInv, EndInv
  <2>3. turn' \in Nat
    BY <1>1, <2>1, ParserAssumption DEF TurnInv, Turns
  <2> QED
    BY <1>1, <1>4, <2>1, <2>2, <2>3, RowsUnchanged
<1>16. CASE Kill
  BY <1>1, <1>2, <1>4, <1>16, EndStepClient DEF Kill
<1>13. CASE NoEvent \/ Sleep
  BY <1>1, <1>2, <1>4, <1>13, ContinueStep DEF NoEvent, Sleep
<1>14. CASE ParserAborts
  BY <1>1, <1>2, <1>4, <1>14, EndStepClient DEF ParserAborts
<1>15. CASE UNCHANGED allVars
  <2>1. TurnInv' /\ EndInv' /\ RowsInv'
    BY <1>1, <1>15 DEF TurnInv, EndInv, RowsInv, RowsAreOwnSwaps, allVars, clientVars,
       fileVars, parserVars
  <2> QED
    BY <1>4, <1>15, <2>1 DEF allVars
<1> QED
  BY <1>5, <1>6, <1>7, <1>8, <1>9, <1>10, <1>11, <1>12, <1>13, <1>14, <1>15,
     <1>16 DEF ClientNext

(* What the client holds is of its turn; what its parser believes is so.   *)
THEOREM Invariance == ClientSpec => []ClientInv
  BY ClientInitInv, ClientNextInv, PTL DEF ClientSpec

(* The parser's variables keep their types.                                *)
THEOREM TypeCorrect == ClientSpec => []ParserTypeOK
<1>1. ClientInv => ParserTypeOK
  BY DEF ClientInv, ParserInv
<1> QED
  BY <1>1, Invariance, PTL

(* The stack follows the calls of an intact log, however deep.             *)
THEOREM ParserKeepsStep == ClientSpec => []StackFollowsCalls
<1>1. ClientInv => StackFollowsCalls
  BY DEF ClientInv, ParserInv
<1> QED
  BY <1>1, Invariance, PTL

(* The parser aborts on an intact log exactly where the program itself has *)
(* logged data it cannot decode.                                           *)
THEOREM IntactLogsAreRead == ClientSpec => []AbortsExplained
<1>1. ClientInv => AbortsExplained
  BY DEF ClientInv, ParserInv
<1> QED
  BY <1>1, Invariance, PTL

(* The client's parser is an EventFinder, one log after the other.         *)
THEOREM ParserImplementsFinder == ClientSpec => ImplementsFinder
  BY Invariance, ClientInitInv, ClientNextInv, PTL
     DEF ClientSpec, ImplementsFinder, Finder!Spec, FinderStep

(* Each row is of one turn, and each turn has one row at most.             *)
THEOREM RowsOfOneTurn == ClientSpec => []RowsAreOwnSwaps
<1>1. ClientInv => RowsAreOwnSwaps
  BY DEF ClientInv, RowsInv
<1> QED
  BY <1>1, Invariance, PTL

(* Rows are lost to a failed write, a kill, or exit() on an event that     *)
(* does not decode only, over any number of turns.                         *)
THEOREM RowsReachTheFile == ClientSpec => []RowsSurvive
<1>1. ClientInv => RowsSurvive
  <2> SUFFICES ASSUME ClientInv PROVE RowsSurvive
    OBVIOUS
  <2>1. Len(rows) \in Nat
    BY DEF ClientInv, RowsInv
  <2> QED
    BY <2>1 DEF ClientInv, EndInv, ParserInv, AbortsExplained, RowsSurvive
<1> QED
  BY <1>1, Invariance, PTL

-----------------------------------------------------------------------------
(***************************************************************************)
(* The instructions shown.                                                 *)
(***************************************************************************)
(* Where a key is: the first of the places that hold it, or 0.             *)
Places(keys, key) == {i \in 1 .. Len(keys) : keys[i] = key}
Place(keys, key)  == SelectInSeq(keys, LAMBDA k : k = key)

LEMMA FirstPlace ==
    ASSUME NEW T \in SUBSET Nat, T # {}
    PROVE  Min(T) \in T
<1>1. PICK n \in T : \A m \in T : ~(<<m, n>> \in OpToRel(<, Nat))
  BY NatLessThanWellFounded, WFMin
<1>2. \A m \in T : n <= m
  <2> TAKE m \in T
  <2>1. m \in Nat /\ n \in Nat /\ ~(m < n)
    BY <1>1 DEF OpToRel
  <2> QED
    BY <2>1
<1> QED
  BY <1>2 DEF Min

LEMMA PlaceFacts ==
    ASSUME NEW keys, NEW key
    PROVE  Place(keys, key) # 0 => keys[Place(keys, key)] = key
<1>1. Place(keys, key) = IF Places(keys, key) # {} THEN Min(Places(keys, key)) ELSE 0
  BY DEF Place, Places, SelectInSeq
<1>2. Places(keys, key) \in SUBSET Nat
  BY DEF Places
<1>3. ASSUME Places(keys, key) # {} PROVE Min(Places(keys, key)) \in Places(keys, key)
  BY <1>2, <1>3, FirstPlace
<1> QED
  BY <1>1, <1>3 DEF Places

(* The index of the program is that of an instruction just if the program  *)
(* is the instruction's: no other key is at its place.                     *)
LEMMA SamePlace ==
    ASSUME NEW keys, NEW p, NEW self, Place(keys, self) # 0
    PROVE  Place(keys, p) = Place(keys, self) <=> p = self
  BY PlaceFacts

(* What a node returns names the calls by the places of their programs.    *)
Group(made, keys, i) ==
    [index    |-> i,
     programs |-> [j \in DOMAIN made[i].inner |-> Place(keys, made[i].inner[j])]]

LEMMA EncodedFacts ==
    ASSUME NEW made, NEW keys, NEW writable, NEW readonly, NEW self
    PROVE  LET answer == Encoded(made, keys, writable, readonly)
               all == keys \o writable \o readonly
           IN  /\ ProgramIndex(answer, self) = Place(all, self)
               /\ answer.instructions = [i \in DOMAIN made |-> Place(all, made[i].program)]
               /\ answer.inner = {Group(made, all, i) :
                                i \in {i \in DOMAIN made : made[i].inner # <<>>}}
  BY DEF Encoded, ProgramIndex, AccountKeys, Place, Group

LEMMA ShownIsOwn ==
    ASSUME NEW made, NEW keys, NEW writable, NEW readonly, NEW self,
           ProgramIndex(Encoded(made, keys, writable, readonly), self) # 0
    PROVE  Shown(Encoded(made, keys, writable, readonly), self) = OwnCalls(made, self)
<1> DEFINE answer == Encoded(made, keys, writable, readonly)
           all == keys \o writable \o readonly
           place == Place(all, self)
           outer == {i \in DOMAIN answer.instructions : answer.instructions[i] = place}
           inner(g) == {j \in DOMAIN g.programs : g.programs[j] = place}
           own(i) == {j \in DOMAIN made[i].inner : made[i].inner[j] = self}
           lines == UNION {{<<g.index, j>> : j \in inner(g)} : g \in answer.inner}
           owns == UNION {{<<i, j>> : j \in own(i)} : i \in DOMAIN made}
<1>1. /\ ProgramIndex(answer, self) = place
      /\ answer.instructions = [i \in DOMAIN made |-> Place(all, made[i].program)]
      /\ answer.inner = {Group(made, all, i) :
                       i \in {i \in DOMAIN made : made[i].inner # <<>>}}
  BY EncodedFacts
<1>2. \A p : Place(all, p) = place <=> p = self
  BY <1>1, SamePlace
<1>3. Shown(answer, self) = {<<i>> : i \in outer} \cup lines
  BY <1>1 DEF Shown
<1>4. OwnCalls(made, self)
        = {<<i>> : i \in {i \in DOMAIN made : made[i].program = self}} \cup owns
  BY DEF OwnCalls
<1> HIDE DEF answer, place, all
<1>5. outer = {i \in DOMAIN made : made[i].program = self}
  BY <1>1, <1>2
<1>6. \A i \in DOMAIN made : inner(Group(made, all, i)) = own(i)
  BY <1>2 DEF Group
<1>7. \A i : Group(made, all, i).index = i
  BY DEF Group
<1>8. lines = owns
  <2>1. ASSUME NEW x \in lines PROVE x \in owns
    <3>1. PICK g \in answer.inner : x \in {<<g.index, j>> : j \in inner(g)}
      BY <2>1
    <3>2. PICK i \in DOMAIN made : g = Group(made, all, i)
      BY <1>1
    <3>3. PICK j \in own(i) : x = <<i, j>>
      BY <1>6, <1>7, <3>1, <3>2
    <3> QED
      BY <3>3
  <2>2. ASSUME NEW x \in owns PROVE x \in lines
    <3>1. PICK i \in DOMAIN made : x \in {<<i, j>> : j \in own(i)}
      BY <2>2
    <3>2. PICK j \in own(i) : x = <<i, j>>
      BY <3>1
    <3>3. made[i].inner # <<>>
      BY <3>2
    <3>4. Group(made, all, i) \in answer.inner
      BY <1>1, <3>3
    <3>5. x \in {<<Group(made, all, i).index, k>> : k \in inner(Group(made, all, i))}
      BY <1>6, <1>7, <3>2
    <3> QED
      BY <3>4, <3>5
  <2> QED
    BY <2>1, <2>2
<1> QED
  BY <1>3, <1>4, <1>5, <1>8 DEF answer

(* Nothing but the program's own instructions is shown, and all of them,   *)
(* for every transaction and wherever the keys of its programs are from.   *)
THEOREM OwnInstructionsShown == ClientSpec => []ShowsOwnInstructions
<1>1. ClientInit => ShowsOwnInstructions
  BY DEF ClientInit, ShowsOwnInstructions
<1>2. ASSUME ShowsOwnInstructions, [ClientNext]_allVars PROVE ShowsOwnInstructions'
  <2>1. CASE Fetch
    <3>1. CASE listed' = listed
      BY <1>2, <3>1 DEF ShowsOwnInstructions
    <3>2. CASE listed' # listed
      <4>1. PICK t \in Transactions, data \in InstructionData :
              /\ ProgramIndex(Encoded(t.calls, t.keys, t.writable, t.readonly), Self) # 0
              /\ listed' = {[calls |-> t.calls,
                             shown |-> Shown(Encoded(t.calls, t.keys, t.writable, t.readonly),
                                             Self)]}
        BY <2>1, <3>2 DEF Fetch
      <4>2. Shown(Encoded(t.calls, t.keys, t.writable, t.readonly), Self)
              = OwnCalls(t.calls, Self)
        BY <4>1, ShownIsOwn
      <4> QED
        BY <4>1, <4>2 DEF ShowsOwnInstructions
    <3> QED
      BY <3>1, <3>2
  <2>2. CASE OpenLog
    BY <2>2 DEF OpenLog, ShowsOwnInstructions
  <2>3. CASE listed' = listed
    BY <1>2, <2>3 DEF ShowsOwnInstructions
  <2>4. Fetch \/ OpenLog \/ listed' = listed
    BY <1>2 DEF ClientNext, allVars, clientVars, AskQuote, AskSwap, Send, Parse, Record,
                RecordFails, NoEvent, ParserAborts, Sleep, Kill
  <2> QED
    BY <2>1, <2>2, <2>3, <2>4
<1> QED
  BY <1>1, <1>2, PTL DEF ClientSpec
=============================================================================
