------------------------------ MODULE BarFile -------------------------------
(***************************************************************************)
(* The bar file between two programs: fetch-bars prints it row by row as   *)
(* it goes through Yahoo's answer (src/fetch_bars.cpp), and a replay reads *)
(* whatever is there, the download finished or not, failed or killed       *)
(* (MockVenue::bars_from_csv in src/mock_venue.cpp).                       *)
(*                                                                         *)
(* A row is its close as printed, in ticks, or Short if it ends before the *)
(* close.  The header line holds no bar and is left out, and so is an      *)
(* answer without a chart, which fails before the file is touched.         *)
(***************************************************************************)
EXTENDS Integers, SequencesExt

CONSTANTS Closes,   \* the closes Yahoo may give, in ticks
          Digits,   \* significant digits a stream prints of a double
          MaxRows   \* bound: rows of a download

ASSUME BarFileAssumption ==
    /\ Closes \subseteq Nat \ {0}
    /\ Digits \in Nat \ {0}
    /\ MaxRows \in Nat

VARIABLES
    pc,         \* fetch-bars: "idle" or "writing"
    exists,     \* whether there is a file
    rows,       \* the whole rows on disk
    stump,      \* the part of a row behind them: its close so far, Short or Absent
    buffer,     \* the stream: rows that are not on disk as a whole
    quoted,     \* history: the closes the last download has come to
    complete    \* history: whether it came to the end of the answer

vars == <<pc, exists, rows, stump, buffer, quoted, complete>>

Absent == -2
Short == -1

Init ==
    /\ pc = "idle"
    /\ exists = FALSE
    /\ rows = <<>>
    /\ stump = Absent
    /\ buffer = <<>>
    /\ quoted = <<>>
    /\ complete = FALSE

-----------------------------------------------------------------------------
(* fetch-bars *)

\* The worth of the last digit that is printed.
Unit(close) == Max({1} \cup {u \in {10^k : k \in 0 .. 6} : u * 10^(Digits - 1) <= close})

\* operator<< of a double, and Price::from_double(stod(...)) when it is read.
Printed(close) == ((2 * close + Unit(close)) \div (2 * Unit(close))) * Unit(close)

Flushed(text) ==
    /\ rows' = rows \o text
    /\ stump' = Absent
    /\ buffer' = <<>>

\* The file is opened anew, and what was in it is gone.
Fetch ==
    /\ pc = "idle"
    /\ pc' = "writing"
    /\ exists' = TRUE
    /\ rows' = <<>>
    /\ stump' = Absent
    /\ buffer' = <<>>
    /\ quoted' = <<>>
    /\ complete' = FALSE

\* A day without a close is passed over, so only days with one are rows.
NextRow(close) ==
    /\ pc = "writing"
    /\ Len(quoted) < MaxRows
    /\ quoted' = Append(quoted, close)
    /\ UNCHANGED exists

WriteRow(close) ==
    /\ NextRow(close)
    /\ buffer' = Append(buffer, Printed(close))
    /\ UNCHANGED <<pc, rows, stump, complete>>

\* The day's open, high or low is null, or its volume is: get throws in the
\* middle of the row, and the stream's destructor writes what there is of it.
RowFails(close) ==
    /\ NextRow(close)
    /\ \E part \in {Short, Printed(close)} : Flushed(Append(buffer, part))
    /\ pc' = "idle"
    /\ UNCHANGED complete

\* The list of closes is shorter than that of the days.
AnswerEndsEarly ==
    /\ pc = "writing"
    /\ Flushed(buffer)
    /\ pc' = "idle"
    /\ UNCHANGED <<exists, quoted, complete>>

Finish ==
    /\ pc = "writing"
    /\ Flushed(buffer)
    /\ complete' = TRUE
    /\ pc' = "idle"
    /\ UNCHANGED <<exists, quoted>>

\* The stream is full: text arrives up to anywhere in a row.
Spill ==
    /\ \E n \in 0 .. Len(buffer) :
          /\ rows' = rows \o SubSeq(buffer, 1, n)
          /\ buffer' = SubSeq(buffer, n + 1, Len(buffer))
          /\ \/ n > 0 /\ stump' = Absent
             \/ /\ n < Len(buffer)
                /\ stump' \in Short .. buffer[n + 1]
                /\ n = 0 => stump' > stump
    /\ UNCHANGED <<pc, exists, quoted, complete>>

Killed ==
    /\ pc = "writing"
    /\ pc' = "idle"
    /\ buffer' = <<>>
    /\ UNCHANGED <<exists, rows, stump, quoted, complete>>

Next ==
    \/ Fetch \/ AnswerEndsEarly \/ Finish \/ Spill \/ Killed
    \/ \E close \in Closes : WriteRow(close) \/ RowFails(close)

Spec == Init /\ [][Next]_vars

-----------------------------------------------------------------------------
(* bars_from_csv: the closes of the file, unless it is refused *)

Lines == rows \o (IF stump = Absent THEN <<>> ELSE <<stump>>)

\* Fault: a row without a close is taken for a close of nothing.
AcceptsShort == exists /\ Lines # <<>>

\* Neither unreadable, nor empty, nor with a short row.
Accepts == exists /\ Lines # <<>> /\ Short \notin Range(Lines)

-----------------------------------------------------------------------------
(* Properties *)

Apart(a, b) == IF a > b THEN a - b ELSE b - a

\* No other number of as many digits is nearer to the quote.
Nearest(price, close) ==
    \A m \in 1 .. 10^Digits, k \in 0 .. 2 : Apart(price, close) <= Apart(m * 10^k, close)

\* Whatever the download came to, and while it goes on, a replay that accepts
\* the file trades on quoted closes, each day's once and in order, from the
\* first day on; only the last may be cut.  What was downloaded to its end is
\* replayed to its end (fetch-bars prints as it reads the answer, bars_from_csv
\* asks each row for a close and nothing else).
ReplayTakesQuotes ==
    /\ Accepts =>
          /\ Len(Lines) <= Len(quoted)
          /\ \A i \in DOMAIN rows : Nearest(rows[i], quoted[i])
          /\ Last(Lines) \in 0 .. Printed(quoted[Len(Lines)])
    /\ complete /\ quoted # <<>> => Accepts /\ Len(rows) = Len(quoted)

\* errors.hpp:20, on what a replay refuses: "Bad or missing market data: an
\* unreadable CSV, a malformed bar": no close is half a number.
MalformedBarsAreRefused ==
    pc = "idle" /\ Accepts => \A i \in DOMAIN Lines : Nearest(Lines[i], quoted[i])
=============================================================================
