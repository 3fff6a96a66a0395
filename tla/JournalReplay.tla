---------------------------- MODULE JournalReplay ----------------------------
(***************************************************************************)
(* EventJournal.replay() and the query() it calls for each page: what a    *)
(* replay of a time window reads while the journal goes on being written.  *)
(*                                                                         *)
(* replay() is a generator; its reader asks for page after page.  Each     *)
(* query first flushes the buffer and then reads at most Limit rows from   *)
(* the cursor on: ClickHouse in the order of (event_time_ms, event_id),    *)
(* the files day by day in the order of their lines.  A file is named by   *)
(* the UTC day of its events, and query() takes that name for a day of the *)
(* host's own time when it leaves out the files outside its window.  A     *)
(* read may go wrong altogether, which is answered with no rows, or lose   *)
(* some rows; no rows are the end of the replay.                           *)
(*                                                                         *)
(* The filters by type, symbol and trace are left out, and the host's time *)
(* is as far from UTC on every day.  A plain query() is a replay whose     *)
(* reader does not ask for a second page.                                  *)
(***************************************************************************)
EXTENDS EventJournal, Integers

CONSTANTS
  Stamp,  \* event_time_ms of each event
  Place,  \* its place in the order of (event_time_ms, event_id)
  Limit,  \* batch_size of replay(), the limit of each query
  Start,  \* start_time_ms
  End,    \* end_time_ms
  DayLength,  \* the milliseconds of a day
  Offset      \* how far the host's local time is ahead of UTC

ASSUME ReplayAssumption ==
  /\ Stamp \in [Event -> Nat] /\ Place \in [Event -> Nat]
  /\ \A d, e \in Event : Stamp[d] < Stamp[e] => Place[d] < Place[e]
  /\ Limit \in Nat \ {0}
  /\ Start \in Nat \ {0} /\ End \in Nat /\ Start < End
  /\ DayLength \in Nat \ {0} /\ Offset \in Int

VARIABLES
  asks,    \* replay(): no, flushing, reading, over
  cursor,  \* current
  wanted,  \* history: stored when the replay began and not read yet
  cut      \* history: a read failed or lost rows, or the journal was stopped

replayVars == <<asks, cursor, wanted, cut>>

InWindow(e) == Start <= Stamp[e] /\ Stamp[e] < End

ReplayInit ==
  /\ Init
  /\ asks = [q \in Query |-> "no"]
  /\ cursor = [q \in Query |-> Start]
  /\ wanted = [q \in Query |-> {}]
  /\ cut = [q \in Query |-> FALSE]

ReplayBegins(q) ==
  /\ asks[q] = "no"
  /\ asks' = [asks EXCEPT ![q] = "flushing"]
  /\ wanted' = [wanted EXCEPT ![q] = {e \in Range(stored) : InWindow(e)}]
  /\ UNCHANGED <<vars, cursor, cut>>

-----------------------------------------------------------------------------
(* query(): _flush_pending, then the read.                                 *)

\* The flush has returned, whatever came of it.
FlushReturns(q) ==
  asks' = [asks EXCEPT ![q] = IF flush'[q] = "idle" THEN "reading" ELSE "flushing"]

\* Without a backend the batch is put back at once.
QueryFlushesNothing(q) ==
  /\ asks[q] = "flushing" /\ MayFlush(q)
  /\ pending = <<>> \/ ~initialized
  /\ asks' = [asks EXCEPT ![q] = "reading"]
  /\ UNCHANGED <<vars, cursor, wanted, cut>>

QueryFlushes(q) ==
  /\ asks[q] = "flushing"
  /\ Flushing(q) /\ FlushReturns(q)
  /\ UNCHANGED <<cursor, wanted, cut>>

\* The name of an event's file: its day in UTC,
Midnight(e) == Stamp[e] - (Stamp[e] % DayLength)

\* which strptime().timestamp() takes for the same day of local time.
FileStart(e) == Midnight(e) - Offset
FileEnd(e) == FileStart(e) + DayLength

\* query() from this cursor on does not leave out the event's file.
Opened(e, from) == backend = "file" => from <= FileEnd(e) /\ FileStart(e) <= End

\* A row is known by its place in the journal; the read comes upon i before j.
Precedes(i, j) ==
  LET d == stored[i]
      e == stored[j]
  IN IF backend = "clickhouse"
     THEN Place[d] < Place[e] \/ (Place[d] = Place[e] /\ i < j)
     ELSE Midnight(d) < Midnight(e) \/ (Midnight(d) = Midnight(e) /\ i < j)

Rows(from) ==
  {i \in DOMAIN stored : /\ from <= Stamp[stored[i]] /\ Stamp[stored[i]] < End
                         /\ Opened(stored[i], from)}

\* The first Limit of some rows.
FirstOf(rows) == {i \in rows : Cardinality({j \in rows : Precedes(j, i)}) < Limit}

Page(from) == FirstOf(Rows(from))

\* What is left of a page when rows of the table cannot be parsed, or lines of
\* the files cannot or a file cannot be read to its end: the table has counted
\* them against the limit, the files have not.
PartOfPage(from, parsed) ==
  IF backend = "clickhouse" THEN Page(from) \cap parsed ELSE FirstOf(parsed)

Last(page) == CHOOSE i \in page : \A j \in page : ~Precedes(i, j)

\* Mutants of NextCursor: the millisecond of the last row is left behind; it
\* is read again.
NextCursorAfter(current, last) == last + 1
NextCursorAgain(current, last) == last

NextCursor(current, last) == IF last <= current THEN last + 1 ELSE last

\* replay() goes on behind a page that has rows.
Yields(q, page) ==
  /\ page # {}
  /\ cursor' = [cursor EXCEPT ![q] = NextCursor(@, Stamp[stored[Last(page)]])]
  /\ wanted' = [wanted EXCEPT ![q] = @ \ {stored[i] : i \in page}]
  /\ asks' = [asks EXCEPT ![q] = IF cursor'[q] < End THEN "flushing" ELSE "over"]

PageRead(q) ==
  /\ asks[q] = "reading" /\ initialized
  /\ \/ Yields(q, Page(cursor[q]))
     \/ /\ Page(cursor[q]) = {}
        /\ asks' = [asks EXCEPT ![q] = "over"] /\ UNCHANGED <<cursor, wanted>>
  /\ UNCHANGED <<vars, cut>>

ReadInPart(q) ==
  /\ asks[q] = "reading" /\ initialized
  /\ \E parsed \in SUBSET Rows(cursor[q]) : Yields(q, PartOfPage(cursor[q], parsed))
  /\ cut' = [cut EXCEPT ![q] = TRUE]
  /\ UNCHANGED vars

\* A read that fails, finds no backend or loses every row returns no rows.
ReadFails(q) ==
  /\ asks[q] = "reading"
  /\ asks' = [asks EXCEPT ![q] = "over"]
  /\ cut' = [cut EXCEPT ![q] = TRUE]
  /\ UNCHANGED <<vars, cursor, wanted>>

-----------------------------------------------------------------------------
Replays(q) ==
  \/ QueryFlushesNothing(q) \/ QueryFlushes(q)
  \/ PageRead(q) \/ ReadInPart(q) \/ ReadFails(q)

ReplayNext ==
  \/ Journals /\ UNCHANGED replayVars
  \/ \E q \in Query : ReplayBegins(q) \/ Replays(q)

\* The reader of a replay goes on asking.
ReplaySpec ==
  /\ ReplayInit /\ [][ReplayNext]_<<vars, replayVars>>
  /\ Fairness
  /\ \A q \in Query : WF_<<vars, replayVars>>(Replays(q))

-----------------------------------------------------------------------------
(* Properties.                                                             *)

\* A page holds the rows of one millisecond, and the rows come in time order.
FitsPage ==
  \A e \in Event : Cardinality({i \in DOMAIN stored : Stamp[stored[i]] = Stamp[e]}) <= Limit
InTimeOrder ==
  \A i, j \in DOMAIN stored : Precedes(i, j) => Stamp[stored[i]] <= Stamp[stored[j]]

\* The day of local time that bears the name of the event's file ends before
\* the event, or begins after the window.
Hidden(e) == ~Opened(e, Stamp[e])

\* A replay that was not cut short has read every event of its window that was
\* in the journal when it began, whatever is written between its pages, if no
\* millisecond has more rows than a page and the rows come in time order;
\* except that, on a host whose time is not UTC, the files may hide events.
ReplayMissesNothing ==
  \A q \in Query :
    asks[q] = "over" /\ ~cut[q] /\ FitsPage /\ InTimeOrder =>
      \A e \in wanted[q] : Hidden(e)

\* A replay comes to its end, although every page may begin where the page
\* before it ended, unless an append blocks the buffer.
ReplayEnds == \A q \in Query : asks[q] # "no" ~> asks[q] = "over" \/ held
=============================================================================
