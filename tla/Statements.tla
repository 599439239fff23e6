----------------------------- MODULE Statements -----------------------------
(***************************************************************************)
(* executemany and the way back (cursors.py): the rows of an application   *)
(* are quoted, batched into INSERT statements and framed; the server       *)
(* stores them; a SELECT returns them, and a buffered cursor hands them    *)
(* out.  The server is external, but takes packets off the wire by the     *)
(* rule of _read_packet.                                                   *)
(***************************************************************************)
EXTENDS Wire, Literals

CONSTANTS
    max_stmt_length,    \* Cursor.max_stmt_length
    MaxRows,            \* bound: rows given to executemany
    MaxLength,          \* bound: characters of a value
    MaxFetches          \* bound: rows handed out, some of them again

VARIABLES
    backslashes,    \* is NO_BACKSLASH_ESCAPES off in the session?
    given,          \* the rows the application gave
    args,           \* those not in a statement yet
    sql,            \* the statement being put together
    stream,         \* frames on their way to the server
    stored,         \* the rows the server has
    rows,           \* Cursor._rows, or None
    rownumber,      \* Cursor.rownumber
    got             \* the numbers of the rows handed out since the last scroll

ASSUME StatementAssumption == MaxRows \in Nat /\ MaxLength \in Nat

statementVars ==
    <<backslashes, given, args, sql, stream, stored, rows, rownumber, got>>

None == <<"none">>
Values == UNION {[1..n -> Characters] : n \in 0..MaxLength}

----------------------------------------------------------------------------
(* executemany: _do_execute_many.                                          *)

Prefix == <<"INSERT">>
Postfix == <<"ON DUPLICATE">>
Command == <<"COM_QUERY">>

RowText(value) == <<"(">> \o Literal(value, backslashes) \o <<")">>

\* Does the row go into the statement in hand?
Fits(v) == Len(sql) + Len(v) + Len(Postfix) + 1 <= max_stmt_length

Begun == sql # <<>>

AddRow ==
    /\ args # <<>>
    /\ LET v == RowText(Head(args)) IN
         \/ ~Begun /\ sql' = Prefix \o v
         \/ Begun /\ Fits(v) /\ sql' = sql \o <<Comma>> \o v
    /\ args' = Tail(args)
    /\ UNCHANGED <<backslashes, given, stream, stored, rows, rownumber, got>>

\* execute returns when the server has answered.
Execute(text) ==
    /\ stream = <<>>
    /\ stream' = Frames(Command \o text \o Postfix)

FlushRow ==
    /\ args # <<>> /\ Begun
    /\ ~Fits(RowText(Head(args)))
    /\ Execute(sql)
    /\ sql' = Prefix \o RowText(Head(args))
    /\ args' = Tail(args)
    /\ UNCHANGED <<backslashes, given, stored, rows, rownumber, got>>

FlushLast ==
    /\ args = <<>> /\ Begun
    /\ Execute(sql)
    /\ sql' = <<>>
    /\ UNCHANGED <<backslashes, given, args, stored, rows, rownumber, got>>

\* The server reads the strings of a statement character by character.
Reader(at, string, done) == [at |-> at, string |-> string, rows |-> done]

Scan(state, c) ==
    LET To(at) == Reader(at, state.string, state.rows)
        Take(d) == Reader("string", Append(state.string, d), state.rows)
    IN  CASE state.at = "text" -> IF c = Quote THEN To("string") ELSE state
          [] state.at = "string" ->
                 IF c = Quote THEN To("quote")
                 ELSE IF c = Backslash /\ backslashes THEN To("escape")
                 ELSE Take(c)
          [] state.at = "escape" -> Take(IF c = Zero THEN Nul ELSE c)
          [] state.at = "quote" ->
                 IF c = Quote THEN Take(c)
                 ELSE Reader("text", <<>>, Append(state.rows, state.string))

RowsOf(text) == FoldLeft(Scan, Reader("text", <<>>, <<>>), text).rows

Insert ==
    /\ stream # <<>>
    /\ LET packet == ReadPacket(stream, 0) IN
         /\ packet.ok
         /\ stored' = stored \o RowsOf(packet.payload)
         /\ stream' = packet.rest
    /\ UNCHANGED <<backslashes, given, args, sql, rows, rownumber, got>>

----------------------------------------------------------------------------
(* The buffered cursor.                                                    *)

Idle == args = <<>> /\ ~Begun /\ stream = <<>>

\* execute of a SELECT.
Select ==
    /\ Idle /\ rows = None
    /\ rows' = stored
    /\ rownumber' = 0 /\ got' = <<>>
    /\ UNCHANGED <<backslashes, given, args, sql, stream, stored>>

HandOut(n) ==
    /\ rows # None /\ Len(got) < MaxFetches
    /\ got' = got \o [i \in 1..n |-> rows[rownumber + i]]
    /\ UNCHANGED <<backslashes, given, args, sql, stream, stored, rows>>

Left == Len(rows) - rownumber

FetchOne ==
    /\ HandOut(IF Left > 0 THEN 1 ELSE 0)
    /\ rownumber' = IF Left > 0 THEN rownumber + 1 ELSE rownumber

\* A slip: the cursor moves on by what was asked for.
FetchManyAsked(size) ==
    /\ HandOut(IF size < Left THEN size ELSE IF Left > 0 THEN Left ELSE 0)
    /\ rownumber' = rownumber + size

FetchMany(size) ==
    /\ HandOut(IF size < Left THEN size ELSE Left)
    /\ rownumber' = IF rownumber + size < Len(rows) THEN rownumber + size ELSE Len(rows)

FetchAll ==
    /\ HandOut(Left)
    /\ rownumber' = Len(rows)

\* To a row of the result, or IndexError.
Scroll(r) ==
    /\ rows # None /\ r < Len(rows)
    /\ rownumber' = r
    /\ got' = SubSeq(rows, 1, r)
    /\ UNCHANGED <<backslashes, given, args, sql, stream, stored, rows>>

StatementInit ==
    /\ backslashes \in BOOLEAN
    /\ given \in UNION {[1..n -> Values] : n \in 1..MaxRows} /\ args = given
    /\ sql = <<>> /\ stream = <<>> /\ stored = <<>>
    /\ rows = None /\ rownumber = 0 /\ got = <<>>

StatementNext ==
    \/ AddRow \/ FlushRow \/ FlushLast \/ Insert
    \/ Select \/ FetchOne \/ FetchAll
    \/ \E size \in 1..MaxRows : FetchMany(size)
    \/ \E r \in 0..MaxRows - 1 : Scroll(r)

StatementSpec == StatementInit /\ [][StatementNext]_statementVars

----------------------------------------------------------------------------
(* Properties.                                                             *)

\* Every row given to executemany arrives, once, unchanged and in order, whatever
\* characters are in it, wherever the batches end and however many frames a
\* statement takes; the server never waits for a frame that does not come.
RowsArrive ==
    /\ stream # <<>> => ReadPacket(stream, 0).ok
    /\ stored = SubSeq(given, 1, Len(stored))
    /\ Idle => stored = given

\* The rows are handed out in order, none twice and none left out, by any mixture
\* of fetchone, fetchmany and fetchall.
RowsHandedOut ==
    rows # None => rownumber <= Len(rows) /\ got = SubSeq(rows, 1, rownumber)
=============================================================================
