----------------------------- MODULE Conversions -----------------------------
(***************************************************************************)
(* One value at a time there and back: a timedelta given as an argument,   *)
(* stored in a TIME column and selected again; a row of a result, as the   *)
(* server sends it.                                                        *)
(***************************************************************************)
EXTENDS Wire, Literals

CONSTANTS
    Seconds,        \* durations, in whole seconds; some are negative
    Micros,         \* and microseconds
    Lengths         \* lengths of column values, or NULL

VARIABLES
    value,      \* what was put in
    text,       \* what the server has of it, and sends
    back        \* what comes out

conversionVars == <<value, text, back>>

ASSUME ConversionAssumption ==
    /\ \A s \in Seconds : s \in Int
    /\ \A us \in Micros : us \in Nat /\ us < 1000000
    /\ \A l \in Lengths : l = NULL \/ l \in Nat

\* Bound: lengths TLC can count, of which _lenenc_int writes the lower half.
ASSUME LengthsInReach == \A l \in Lengths : l <= 2147483647

Nothing == [kind |-> "nothing"]
Refused == [kind |-> "refused"]

\* A TIME column with that many digits keeps these microseconds.
Keeps(digits, us) == us % 10^(6 - digits) = 0

Durations ==
    {[kind |-> "duration", d |-> Duration(s, us), digits |-> n] :
        s \in Seconds, us \in Micros, n \in 0..6}

Rows == {[kind |-> "row", lengths |-> <<l, k>>] : l \in Lengths, k \in Lengths}

ConversionInit ==
    /\ value \in {v \in Durations : Keeps(v.digits, v.d.us)} \union Rows
    /\ text = Nothing /\ back = Nothing

----------------------------------------------------------------------------

\* What a TIME column cannot hold is refused or cut short, as sql_mode has it.
EscapeDuration ==
    /\ value.kind = "duration" /\ text = Nothing
    /\ LET t == EscapeTimedelta(value.d) IN
       IF TimeFits(t) THEN text' = [kind |-> "time", t |-> t]
       ELSE text' \in {Refused, [kind |-> "time", t |-> Longest(t.neg)]}
    /\ UNCHANGED <<value, back>>

ConvertTime ==
    /\ text.kind = "time" /\ back = Nothing
    /\ back' = [kind |-> "duration", d |-> ConvertTimedelta(text.t, value.digits),
                digits |-> value.digits]
    /\ UNCHANGED <<value, text>>

SendRow ==
    /\ value.kind = "row" /\ text = Nothing
    /\ text' = [kind |-> "packet", row |-> Row(value.lengths)]
    /\ UNCHANGED <<value, back>>

\* _read_rowdata_packet: the end, an error (raised by _read_packet) or a row.
ReadRowData ==
    /\ text.kind = "packet" /\ back = Nothing
    /\ back' = IF IsError(text.row) THEN [kind |-> "error"]
               ELSE IF IsEof(text.row) THEN [kind |-> "end"]
               ELSE [kind |-> "row",
                     lengths |-> [i \in DOMAIN text.row |-> ReadLength(text.row[i].head)]]
    /\ UNCHANGED <<value, text>>

ConversionNext == EscapeDuration \/ ConvertTime \/ SendRow \/ ReadRowData

ConversionSpec == ConversionInit /\ [][ConversionNext]_conversionVars

----------------------------------------------------------------------------
(* Properties.                                                             *)

\* A duration that a TIME column can hold is stored, and comes back as it was given,
\* with as many digits of the second as the column keeps.  (Nothing is said of those
\* below zero that are not of whole hours: escape_timedelta writes them with the sign
\* of the hours alone, which is another time.)
Holds(d) ==
    \/ /\ Total(d) >= 0
       /\ Total(d) < MaxTime \/ (Total(d) = MaxTime /\ d.us = 0)
    \/ d.us = 0 /\ Total(d) % 3600 = 0 /\ Total(d) >= -MaxTime /\ Total(d) <= 0

DurationsReturn ==
    value.kind = "duration" /\ Holds(value.d) =>
        /\ text # Refused
        /\ back # Nothing => back = value

\* The columns of a row come back with the lengths they were sent with, NULL as
\* NULL and the empty string as itself, and whatever its first column is, a row is
\* never taken for the end of the result or for an error.
RowsReturn ==
    value.kind = "row" /\ back # Nothing => back = value
=============================================================================
