------------------------------ MODULE SagaLog ------------------------------
(***************************************************************************)
(* internal/coordinator/sagalog: the saga log in SQLite.  NewEntry stamps  *)
(* an entry with the time, Save inserts it as text, and GetLatest asks for *)
(* the row of a saga with the largest text.                                *)
(*                                                                         *)
(* Times are instants of one minute: seconds and, in place of nine decimal *)
(* digits, two digits of base Base.                                        *)
(***************************************************************************)
EXTENDS Integers, Sequences, FiniteSets

CONSTANTS
    Writers,    \* goroutines that call saveLog, one saga execution each
    Sagas,      \* saga ids
    SagaOf,     \* writer -> saga id; a retried POST shares the first one's
    Base,       \* of the fraction digits
    MaxTime,    \* bound: the last instant
    MaxRows,    \* bound: rows in the table
    Nil

ASSUME SagaLogAssumption ==
    /\ Base \in 2..10 /\ MaxTime \in Nat /\ MaxRows \in Nat
    /\ SagaOf \in [Writers -> Sagas]
    /\ Nil \notin 0..MaxTime

VARIABLES
    now,        \* the wall clock
    entry,      \* the stamp of the entry a writer is about to insert, or Nil
    rows        \* the table, in the order of its ids

vars == <<now, entry, rows>>

-----------------------------------------------------------------------------
(* The text of a time                                                      *)

second(t)   == t \div (Base * Base)
fraction(t) == t % (Base * Base)

\* ASCII
Dot == 46
Z   == 90
Digit(d) == 48 + d

\* Mutant: zeros in front of the fraction are dropped as well.
FormatDropsLeadingZero(t) ==
    LET s  == Digit(second(t))
        d1 == fraction(t) \div Base
        d2 == fraction(t) % Base
    IN  CASE d1 = 0 /\ d2 = 0 -> <<s, Z>>
          [] d1 # 0 /\ d2 = 0 -> <<s, Dot, Digit(d1), Z>>
          [] d1 = 0 /\ d2 # 0 -> <<s, Dot, Digit(d2), Z>>
          [] OTHER            -> <<s, Dot, Digit(d1), Digit(d2), Z>>

\* Format("2006-01-02T15:04:05.999999999Z"): trailing zeros of the fraction are
\* left out, and the dot with them.  Everything up to the seconds is of fixed
\* width; one character stands for it.
Format(t) ==
    LET s  == Digit(second(t))
        d1 == fraction(t) \div Base
        d2 == fraction(t) % Base
    IN  CASE d1 = 0 /\ d2 = 0 -> <<s, Z>>
          [] d1 # 0 /\ d2 = 0 -> <<s, Dot, Digit(d1), Z>>
          [] OTHER            -> <<s, Dot, Digit(d1), Digit(d2), Z>>

\* parseRFC3339
parseRFC3339(s) ==
    LET digit(i) == IF i < Len(s) THEN s[i] - 48 ELSE 0
    IN  (s[1] - 48) * Base * Base + digit(3) * Base + digit(4)

\* SQLite's BINARY collation: a < b, byte by byte.
Before(a, b) ==
    \E k \in 1..Len(b) :
        /\ \A i \in 1..(k - 1) : i <= Len(a) /\ a[i] = b[i]
        /\ k > Len(a) \/ a[k] < b[k]

-----------------------------------------------------------------------------

Init == now = 0 /\ entry = [w \in Writers |-> Nil] /\ rows = <<>>

\* time.Now().UTC(): the wall clock goes on, or is set back.
Tick == now' \in 0..MaxTime /\ now' # now /\ UNCHANGED <<entry, rows>>

\* Mutant: the stamp is rounded up to whole seconds.
NewEntryRounded(w) ==
    /\ entry[w] = Nil
    /\ entry' = [entry EXCEPT ![w] = (second(now) + 1) * Base * Base]
    /\ UNCHANGED <<now, rows>>

\* saveLog, first part: the entry and its UpdatedAt.
NewEntry(w) ==
    /\ entry[w] = Nil
    /\ entry' = [entry EXCEPT ![w] = now]
    /\ UNCHANGED <<now, rows>>

\* saveLog, second part: the row is inserted, or the error is dropped.
Save(w) ==
    /\ entry[w] # Nil
    /\ entry' = [entry EXCEPT ![w] = Nil]
    /\ \/ /\ Len(rows) < MaxRows
          /\ rows' = Append(rows, [saga |-> SagaOf[w], updated_at |-> Format(entry[w])])
       \/ UNCHANGED rows
    /\ UNCHANGED now

Next == Tick \/ \E w \in Writers : NewEntry(w) \/ Save(w)

Spec == Init /\ [][Next]_vars

RowsOf(s) == {i \in 1..Len(rows) : rows[i].saga = s}

\* Mutant: ORDER BY id DESC.
GetLatestById(s) == CHOOSE i \in RowsOf(s) : \A j \in RowsOf(s) : j <= i

\* GetLatest: WHERE saga_id = s ORDER BY updated_at DESC, id DESC LIMIT 1.
GetLatest(s) ==
    CHOOSE i \in RowsOf(s) : \A j \in RowsOf(s) \ {i} :
        \/ Before(rows[j].updated_at, rows[i].updated_at)
        \/ rows[j].updated_at = rows[i].updated_at /\ j < i

-----------------------------------------------------------------------------

TypeOK ==
    /\ now \in 0..MaxTime
    /\ entry \in [Writers -> (0..MaxTime) \cup {Nil}]
    /\ rows \in Seq([saga : Sagas, updated_at : {Format(t) : t \in 0..MaxTime}])

Time(i) == parseRFC3339(rows[i].updated_at)

\* When rows i and j carry different times, the order of the texts is the order
\* of the times as soon as the seconds differ: GetLatest is never more than a
\* fraction of a second behind the most recent row.  (Within a second they may
\* differ: "0Z" sorts after "0.01Z".)
LatestWithinASecond ==
    \A s \in Sagas : \A i \in RowsOf(s) :
        second(Time(GetLatest(s))) >= second(Time(i))

\* Reading a time back gives the time that was stamped, of the rows there are and
\* of the entries about to be written (repository.go:117 and :157).
TimesSurvive ==
    /\ \A i \in 1..Len(rows) : Time(i) \in 0..MaxTime /\ Format(Time(i)) = rows[i].updated_at
    /\ \A w \in Writers : entry[w] # Nil => parseRFC3339(Format(entry[w])) = entry[w]

=============================================================================
