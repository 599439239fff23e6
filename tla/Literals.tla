------------------------------- MODULE Literals -------------------------------
(***************************************************************************)
(* Values in the text of a statement and of a result (converters.py): how  *)
(* strings are quoted, how durations are written and read.                 *)
(***************************************************************************)
EXTENDS Integers, Sequences, SequencesExt

----------------------------------------------------------------------------
(* Strings.  The characters that matter: the quote, the backslash, NUL     *)
(* (with it newline, return, ^Z and the double quote, which are escaped    *)
(* alike) and a comma for all others.                                      *)

Quote == "'"
Backslash == "\\"
Nul == "nul"
Zero == "0"
Comma == ","

Characters == {Quote, Backslash, Nul, Comma}

\* _escape_table.
Escaped(c) ==
    CASE c = Nul -> <<Backslash, Zero>>
      [] c \in {Quote, Backslash} -> <<Backslash, c>>
      [] OTHER -> <<c>>

\* escape_string of the connection: with NO_BACKSLASH_ESCAPES only the quote is
\* doubled.
EscapeString(s, backslashes) ==
    FlattenSeq([i \in DOMAIN s |->
        IF backslashes THEN Escaped(s[i])
        ELSE IF s[i] = Quote THEN <<Quote, Quote>> ELSE <<s[i]>>])

Literal(s, backslashes) == <<Quote>> \o EscapeString(s, backslashes) \o <<Quote>>

----------------------------------------------------------------------------
(* Durations: days, seconds below a day and microseconds, the last two     *)
(* never negative, as in datetime.timedelta.                               *)

Day == 86400

Duration(total, us) == [days |-> total \div Day, seconds |-> total % Day, us |-> us]

Total(d) == d.days * Day + d.seconds

\* escape_timedelta; the sign is that of the hours.
EscapeTimedelta(d) ==
    LET hours == ((d.seconds \div 3600) % 24) + d.days * 24
    IN  [neg |-> hours < 0, h |-> IF hours < 0 THEN -hours ELSE hours,
         m |-> (d.seconds \div 60) % 60, s |-> d.seconds % 60, us |-> d.us]

\* A TIME column reaches to 838:59:59, so that TIMEDELTA_RE finds its hours in three
\* digits.
MaxTime == (838 * 60 + 59) * 60 + 59

TimeFits(t) ==
    LET seconds == (t.h * 60 + t.m) * 60 + t.s
    IN  seconds < MaxTime \/ (seconds = MaxTime /\ t.us = 0)

Longest(neg) == [neg |-> neg, h |-> 838, m |-> 59, s |-> 59, us |-> 0]

\* What a TIME column that keeps that many digits of the second returns.
Digits(us, digits) == us \div 10^(6 - digits)

\* A slip: the digits are taken for microseconds as they are.
SecondFractionUnpadded(n, digits) == n

\* _convert_second_fraction: padded on the right to six digits.
SecondFraction(n, digits) == n * 10^(6 - digits)

\* convert_timedelta: the sign is that of the whole.
ConvertTimedelta(t, digits) ==
    LET us == SecondFraction(Digits(t.us, digits), digits)
        seconds == (t.h * 60 + t.m) * 60 + t.s
    IN  IF ~t.neg THEN Duration(seconds, us)
        ELSE IF us = 0 THEN Duration(-seconds, 0)
        ELSE Duration(-seconds - 1, 1000000 - us)
===============================================================================
