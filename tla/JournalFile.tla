---------------------------- MODULE JournalFile ----------------------------
(***************************************************************************)
(* The journal of a live or scheduled process as a file: lines wait in the *)
(* process's stream until they are flushed (src/journal.cpp), processes    *)
(* end, die and are started again with other configurations               *)
(* (src/live.cpp, src/main.cpp), and the report reads what is on disk.     *)
(*                                                                         *)
(* A line is an event of Report.  Its symbol is the pair of strategy and   *)
(* symbol by which walk() keys its lots; prices are left out.  One bar of  *)
(* an engine is its mark and what comes of it; an order executed without a *)
(* line being due for it, and trading outside of the program, are          *)
(* Unjournalled.                                                           *)
(***************************************************************************)
EXTENDS Types, SequencesExt

CONSTANTS Registered,   \* the strategies in the registry
          Configs,      \* configurations: sequences of [name, symbols]
          MaxShares,    \* bound: shares held of a symbol
          MaxLines      \* bound: lines in the file and the stream

ASSUME JournalAssumption ==
    /\ IsFiniteSet(Registered)
    /\ MaxShares \in Nat
    /\ MaxLines \in Nat

Books == Registered \X Symbols
R == INSTANCE Report WITH Symbols <- Books

VARIABLES
    \* the file, as a reader sees it
    disk,       \* its whole lines
    stump,      \* whether it ends in part of a line of a process that died
    \* the process
    pc, owner, held,
    order,      \* the order being booked; a quantity of 0 for one refused
    buffer,     \* the stream: lines that are not on disk as a whole
    torn,       \* whether the first of them is there in part
    \* the broker
    shares,
    \* history
    mine,       \* the lines this process wrote
    loose       \* symbols with executions or owners the journal cannot know

file == <<disk, stump, buffer, torn>>
vars == <<file, pc, owner, held, order, shares, mine, loose>>

None == "none"
NoOrder == [symbol |-> None, side |-> "Buy", quantity |-> 0]
Flat == [s \in Symbols |-> 0]
Nobody == [s \in Symbols |-> None]

Init ==
    /\ disk = <<>>
    /\ stump = FALSE
    /\ pc = "down"
    /\ owner = Nobody
    /\ held = Flat
    /\ order = NoOrder
    /\ buffer = <<>>
    /\ torn = FALSE
    /\ shares = Flat
    /\ mine = <<>>
    /\ loose = {}

-----------------------------------------------------------------------------
(* The file and the stream *)

Garbage == [event |-> "discarded"]

\* The file is opened to append: the first line to arrive whole is glued to
\* what a dead process left, and walk() discards the two.
Arrived(n) ==
    disk \o (IF stump /\ n > 0 THEN <<Garbage>> \o SubSeq(buffer, 2, n)
                               ELSE SubSeq(buffer, 1, n))

\* n lines of the stream reach the file, and part of another one may.
Drain(n, part) ==
    /\ disk' = Arrived(n)
    /\ stump' = (stump /\ n = 0)
    /\ buffer' = SubSeq(buffer, n + 1, Len(buffer))
    /\ torn' = part

Flush == Drain(Len(buffer), FALSE)

\* The stream is full.
Spill ==
    /\ \E n \in 0 .. Len(buffer), part \in BOOLEAN :
          /\ n > 0 \/ part
          /\ part => n < Len(buffer)
          /\ Drain(n, part)
    /\ UNCHANGED <<pc, owner, held, order, shares, mine, loose>>

WriteAll(lines) ==
    /\ buffer' = buffer \o lines
    /\ mine' = mine \o lines
    /\ UNCHANGED <<disk, stump, torn>>

Write(line) == WriteAll(<<line>>)

Room(n) == Len(disk) + Len(buffer) + n <= MaxLines

-----------------------------------------------------------------------------
(* Starting and ending *)

Claims(config) == FlattenSeq([i \in DOMAIN config |-> config[i].symbols])

\* LiveConfig::from_file, and the registry, which is asked for the strategies that
\* have symbols.
Valid(config) ==
    /\ config # <<>>
    /\ IsInjective(Claims(config))
    /\ \A i \in DOMAIN config : config[i].symbols # <<>> => config[i].name \in Registered

Owner(config) ==
    [s \in Symbols |->
        IF \E i \in DOMAIN config : s \in Range(config[i].symbols)
        THEN config[CHOOSE i \in DOMAIN config : s \in Range(config[i].symbols)].name
        ELSE None]

Session == [event |-> "session"]

Walked == R!Walk(disk)

\* The shares of s in the open lots of the strategies in S.
LotsOf(s, S) == R!Total([st \in Registered |-> R!LotShares(Walked, <<st, s>>)], S)

\* The constructor, and reconcile: an "adopted" line for each position owned.
Start ==
    /\ pc = "down"
    /\ \E config \in Configs :
          /\ Valid(config)
          /\ owner' = Owner(config)
    /\ held' = [s \in Symbols |-> IF owner'[s] = None THEN 0 ELSE shares[s]]
    /\ LET adopted == {s \in Symbols : held'[s] > 0}
       IN  /\ Room(Cardinality(adopted))
           /\ WriteAll([i \in 1 .. Cardinality(adopted) |-> Session])
    /\ loose' = loose \cup {s \in Symbols :
          owner'[s] # None /\ LotsOf(s, Registered \ {owner'[s]}) > 0}
    /\ pc' = "idle"
    /\ UNCHANGED <<order, shares>>

Gone ==
    /\ pc' = "down"
    /\ owner' = Nobody
    /\ held' = Flat
    /\ order' = NoOrder
    /\ mine' = <<>>
    /\ UNCHANGED shares

\* run returns or an Error unwinds to main: the stream's destructor flushes.
End ==
    /\ pc = "idle"
    /\ Flush
    /\ Gone
    /\ UNCHANGED loose

\* Fault: the dashboard is written without a flush.
DontFlush == UNCHANGED file

FlushForReader == Flush

\* once: the line of run_once is written; flush, then write_dashboard reads.
Finish ==
    /\ pc = "idle"
    /\ mine # <<>> /\ Last(mine) = Session
    /\ FlushForReader
    /\ pc' = "reading"
    /\ UNCHANGED <<owner, held, order, shares, mine, loose>>

Exit ==
    /\ pc = "reading"
    /\ Gone
    /\ UNCHANGED <<file, loose>>

\* The process dies, or an exception nobody catches terminates it.  Its order
\* is executed and has no line if it dies before the line is on disk.
Crash ==
    /\ pc # "down"
    /\ Gone
    /\ buffer' = <<>>
    /\ torn' = FALSE
    /\ stump' = (stump \/ torn)
    /\ loose' = IF order.quantity > 0 /\ (pc = "booking" \/ buffer # <<>>)
                THEN loose \cup {order.symbol} ELSE loose
    /\ UNCHANGED disk

-----------------------------------------------------------------------------
(* Engine::on_bar *)

Book(s) == <<owner[s], s>>

MarkLine(s) == R!MarkEvent(Book(s), 0, 0, 0)

LineOf(o) ==
    IF o.quantity = 0 THEN [event |-> "rejected", symbol |-> Book(o.symbol)]
    ELSE R!FillEvent([symbol |-> Book(o.symbol), side |-> o.side,
                      quantity |-> o.quantity, price |-> 0])

OnBar(s) ==
    /\ pc = "idle"
    /\ owner[s] # None
    /\ Room(2)
    /\ Write(MarkLine(s))

\* Nothing to trade, a halt, or an Error, after which the process writes a
\* session line or ends.
OnBarIdle(s) ==
    /\ OnBar(s)
    /\ UNCHANGED <<pc, owner, held, order, shares, loose>>

\* Refused by Risk::allow, or accepted and not filled.
OnBarRejected(s) ==
    /\ OnBar(s)
    /\ order' = [NoOrder EXCEPT !.symbol = s]
    /\ pc' = "booking"
    /\ UNCHANGED <<owner, held, shares, loose>>

\* The engine sells from its position, the broker from the account's.
CanExecute(o) ==
    IF o.side = "Buy" THEN shares[o.symbol] + o.quantity <= MaxShares
    ELSE o.quantity <= held[o.symbol] /\ o.quantity <= shares[o.symbol]

After(count, o) ==
    [count EXCEPT ![o.symbol] = IF o.side = "Buy" THEN @ + o.quantity ELSE @ - o.quantity]

OnBarFilled(s, side, quantity) ==
    /\ OnBar(s)
    /\ order' = [symbol |-> s, side |-> side, quantity |-> quantity]
    /\ CanExecute(order')
    /\ shares' = After(shares, order')
    /\ pc' = "booking"
    /\ UNCHANGED <<owner, held, loose>>

\* Portfolio::apply, then the line of the fill or rejection.
BookOrder ==
    /\ pc = "booking"
    /\ held' = After(held, order)
    /\ Write(LineOf(order))
    /\ pc' = "flushing"
    /\ UNCHANGED <<owner, order, shares, loose>>

\* Fault: only fills that open a position are flushed.
FlushPurchases == IF order.side = "Buy" THEN Flush ELSE UNCHANGED file

FlushLine == Flush

\* write_line flushes fills and rejections before it returns.
Booked ==
    /\ pc = "flushing"
    /\ FlushLine
    /\ order' = NoOrder
    /\ pc' = "idle"
    /\ UNCHANGED <<owner, held, shares, mine, loose>>

\* session_open and session_close, feed_error, error, run_once.
SessionLine ==
    /\ pc = "idle"
    /\ Room(1)
    /\ Write(Session)
    /\ UNCHANGED <<pc, owner, held, order, shares, loose>>

\* An order that was given up on or whose answer was lost is executed after
\* all, or somebody trades on the account (trader --test-order).  Bound: once a
\* symbol, which is from then on out of the account's property.
Unjournalled(s, count) ==
    /\ s \notin loose
    /\ count # shares[s]
    /\ shares' = [shares EXCEPT ![s] = count]
    /\ loose' = loose \cup {s}
    /\ UNCHANGED <<file, pc, owner, held, order, mine>>

Next ==
    \/ Start \/ End \/ Finish \/ Exit \/ Crash
    \/ Spill
    \/ \E s \in Symbols : OnBarIdle(s) \/ OnBarRejected(s)
    \/ \E s \in Symbols, side \in {"Buy", "Sell"}, quantity \in 1 .. MaxShares :
          OnBarFilled(s, side, quantity)
    \/ BookOrder \/ Booked \/ SessionLine
    \/ \E s \in Symbols, count \in 0 .. MaxShares : Unjournalled(s, count)

Spec == Init /\ [][Next]_vars

-----------------------------------------------------------------------------
(* Properties *)

InFlight == IF pc \in {"booking", "flushing"} THEN {order.symbol} ELSE {}

\* The open lots of the report are the shares in the account, at every moment,
\* on disk, and whatever processes wrote the file, died, tore their last line or
\* were started with another configuration: "a crash must not lose a trade that
\* really happened" (Journal::write_line).  Excepted are the executions no line
\* was due for or whose process died over the line, and positions that changed
\* hands, since lots are keyed by strategy.
ReportMatchesAccount ==
    \A s \in Symbols \ (loose \cup InFlight) : LotsOf(s, Registered) = shares[s]

\* When the dashboard of a scheduled run is made, the file ends in what the run
\* wrote, but for a first line that a predecessor's crash may have spoilt
\* ("they must flush first or the tail of the run is simply missing", journal.hpp).
ReaderSeesRun == pc = "reading" => IsSuffix(Tail(mine), disk)

\* journal.hpp:12: "a crash loses at most the current bar": of the marks written
\* at most one is lost.
CrashLosesOneBar ==
    [][pc # "down" /\ pc' = "down" /\ disk' = disk =>
          Cardinality({i \in DOMAIN buffer : buffer[i].event = "mark"}) <= 1]_vars
=============================================================================
