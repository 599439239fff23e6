------------------------------- MODULE Session -------------------------------
(***************************************************************************)
(* One PyMySQL connection after the login (layers/pymysql): the commands   *)
(* of Connection and of the cursors on it, the packets that answer them,   *)
(* and what an error, an unreadable row, a lost connection or a reconnect  *)
(* leaves behind for the calls that come after.                            *)
(*                                                                         *)
(* The application makes one call at a time; a call is followed packet by  *)
(* packet.  The server is external: it answers a command with a series of  *)
(* result sets or an error, numbering the packets.  Column definitions are *)
(* one packet here.  What a packet holds is left out but for its kind, its *)
(* number, whether it answers the latest command, and the autocommit flag  *)
(* of an OK (that of an EOF, connections.py:1321-1323, is not looked at).  *)
(***************************************************************************)
EXTENDS Integers, Sequences

CONSTANTS
    Cursors,        \* the cursors of the application
    Unbuffered,     \* those of them that are SSCursors
    Nobody,         \* no cursor
    SeqMod,         \* packet numbers are taken modulo this (256)
    LocalInfile,    \* was the connection made with local_infile?
    MaxRows,        \* bound: rows of a result set
    MaxBatch        \* bound: statements of one executemany, packets of a file

ASSUME SessionAssumption ==
    /\ Unbuffered \subseteq Cursors /\ Nobody \notin Cursors
    /\ SeqMod \in Nat \ {0, 1} /\ LocalInfile \in BOOLEAN
    /\ MaxRows \in Nat /\ MaxBatch \in Nat \ {0}

VARIABLES
    link,       \* is the server still at the other end?
    wire,       \* the packets sent by the server and not read yet
    request,    \* the command the server has to answer, or "none"
    auto,       \* the server's autocommit mode for this session
    sock,       \* is self._sock there?
    nextSeq,    \* self._next_seq_id
    status,     \* SERVER_STATUS_AUTOCOMMIT in self.server_status
    mode,       \* self.autocommit_mode
    result,     \* self._result: unbuffered_active and has_next, or None
    holder,     \* the cursor whose _result is the connection's
    told,       \* told[c]: what the application knows of SSCursor c's result
    call,       \* the call the application is in
    asked,      \* history: the autocommit mode agreed on, and those that the
                \*          application's own statements set since (both: none)
    hidden,     \* history: a statement changed the mode and ended in an error
    muddled,    \* history: an unread packet could pass for the next reply
    stale       \* history: self._result is one of an earlier connection

channel == <<link, wire, request, sock>>
client == <<status, mode, result, holder, told>>
history == <<asked, hidden, muddled, stale>>
sessionVars == <<channel, auto, nextSeq, client, call, history>>

None == [active |-> FALSE, next |-> FALSE, none |-> TRUE]
Result(active, next) == [active |-> active, next |-> next, none |-> FALSE]

----------------------------------------------------------------------------
(* What the server sends.                                                  *)

\* A slip: the flag is only taken from OK packets.
MoreOfOk(kind) == kind = "ok+"

\* SERVER_MORE_RESULTS_EXISTS is the + of "ok+" and "eof+".
More(kind) == kind \in {"ok+", "eof+"}

\* Column definitions, n rows, and how they end.
ResultSet(n, end) ==
    [i \in 1..n + 2 |-> IF i = 1 THEN "cols" ELSE IF i = n + 2 THEN end ELSE "row"]

Last == {<<"ok">>, <<"err">>} \cup
        {ResultSet(n, end) : n \in 0..MaxRows, end \in {"eof", "err"}}

Replies == Last \cup
    {first \o last : first \in {<<"ok+">>, ResultSet(MaxRows, "eof+")}, last \in Last} \cup
    (IF LocalInfile THEN {<<"local">>} ELSE {})

ReplyTo(command) ==
    CASE command = "query" -> Replies
      [] command = "ping" -> {<<"ok">>}
      [] OTHER -> {<<"ok">>, <<"err">>}

Kinds == {"ok", "ok+", "err", "local", "cols", "row", "eof", "eof+"}

\* The modes a statement that is answered like this may leave behind: a SET, a
\* procedure that sets it, which may still fail.  A result set or a file cannot
\* change it (constants/ER.py:447).
ModesAfter(kind, before) ==
    CASE request = "auto" /\ kind = "ok" -> {mode}
      [] request = "query" /\ kind \in {"ok", "ok+", "err"} -> BOOLEAN
      [] OTHER -> {before}

\* An OK has the mode at its statement in its flags.  The packets of a file count,
\* so that the answer to it has the next number.
Packets(reply, before, after) ==
    [i \in DOMAIN reply |->
        [kind |-> reply[i], mine |-> TRUE,
         pos |-> IF request = "file" THEN nextSeq ELSE i % SeqMod,
         auto |-> IF reply[i] \in {"ok", "ok+"}
                    THEN IF i = Len(reply) THEN after ELSE before
                    ELSE FALSE]]

\* The server executes the command it was sent.
Serve ==
    /\ link /\ request # "none"
    /\ \E reply \in ReplyTo(request) :
       LET end == reply[Len(reply)] IN
       \E before \in IF Len(reply) = 1 THEN {auto} ELSE ModesAfter(reply[1], auto) :
       \E after \in ModesAfter(end, before) :
           /\ wire' = wire \o Packets(reply, before, after)
           /\ auto' = after
           /\ asked' = asked \cup {after}
           /\ hidden' = (hidden \/ (end = "err" /\ after # before))
    /\ request' = "none"
    /\ UNCHANGED <<link, sock, nextSeq, client, call, muddled, stale>>

\* The server or the network goes away, and with it some of what was sent; a read
\* timeout of the client is no different.  The session is over, and what mode it was in
\* of no further interest.
LinkLost ==
    /\ link
    /\ link' = FALSE
    /\ request' = "none"
    /\ \E n \in 0..Len(wire) : wire' = SubSeq(wire, 1, n)
    /\ auto' = FALSE /\ asked' = BOOLEAN /\ hidden' = FALSE
    /\ UNCHANGED <<sock, nextSeq, client, call, muddled, stale>>

----------------------------------------------------------------------------
(* Calls.  after is where a call goes on when a result has been read; todo *)
(* holds the commands it has still to send; retry says that ping may still *)
(* reconnect.                                                              *)

Call(op, c, pc, todo) ==
    [op |-> op, c |-> c, pc |-> pc, after |-> "done", todo |-> todo, retry |-> FALSE]

Idle == Call("none", Nobody, "idle", <<>>)

Reconnect == Call("ping", Nobody, "dial", <<"names", "auto", "ping">>)

At(pc) == call.pc = pc

GoTo(pc) == call' = [call EXCEPT !.pc = pc]

Tell(c, what) == told' = [d \in Unbuffered |-> IF d = c THEN what ELSE told[d]]

\* Inside connect() whatever is raised closes the socket.
Connecting ==
    /\ call.op \in {"connect", "ping"}
    /\ call.todo # <<>> /\ Head(call.todo) \in {"names", "auto"}

\* _force_close.
ForceClose == link' = FALSE /\ wire' = <<>> /\ request' = "none" /\ sock' = FALSE

\* An exception leaves the call, unless ping catches it and reconnects.  The cursor
\* is left without a result, but for one that was fetching.
Leave ==
    /\ call' = IF call.retry THEN Reconnect ELSE Idle
    /\ Tell(call.c, IF call.op = "fetch" THEN "error" ELSE "none")
    /\ holder' = IF call.op # "fetch" /\ holder = call.c THEN Nobody ELSE holder
    /\ UNCHANGED <<auto, status, mode, history>>

----------------------------------------------------------------------------
(* _read_packet.                                                           *)

Reading ==
    \/ call.pc \in {"first", "rows", "ok", "loaded", "skipped"}
    \/ At("finish") /\ result.active
    \/ At("fetch") /\ holder = call.c /\ result.active

\* The connection is gone, or the packet does not have the next number.
Broken ==
    /\ Reading
    /\ \/ ~sock
       \/ wire = <<>> /\ ~link
       \/ wire # <<>> /\ Head(wire).pos # nextSeq
    /\ ForceClose
    /\ Leave
    /\ UNCHANGED <<nextSeq, result>>

\* A slip: the numbers go on past the last.
NumberedOnly(n) == nextSeq + n

\* The number of the n-th packet from here.
Numbered(n) == (nextSeq + n) % SeqMod

\* A slip: the numbers are not looked at.
ReadableUnnumbered == sock /\ wire # <<>>

Readable == sock /\ wire # <<>> /\ Head(wire).pos = nextSeq

Receive(kinds) ==
    /\ Readable
    /\ Head(wire).kind \in kinds
    /\ nextSeq' = Numbered(1)

Consume == wire' = Tail(wire) /\ UNCHANGED <<link, request, sock>>

Raise ==
    /\ IF Connecting THEN ForceClose ELSE Consume
    /\ Leave

\* A slip: an error does not end the result.
EndedByEof == result

Ended == [result EXCEPT !.active = FALSE]

\* An error packet is raised wherever it is read, and ends the result.
ErrorPacket ==
    /\ Reading
    /\ Receive({"err"})
    /\ result' = Ended
    /\ Raise

\* What the reader in turn has no use for: an assertion, a failed decoding, or
\* "Command Out of Sync".  After a file that could not be sent nothing is.
Expected ==
    CASE At("first") -> {"ok", "ok+", "cols", "local"}
      [] At("loaded") \/ (At("ok") /\ Head(call.todo) # "names") -> {"ok", "ok+"}
      [] call.pc \in {"rows", "fetch"} -> {"row", "eof", "eof+"}
      [] At("skipped") -> {}
      [] OTHER -> Kinds \ {"err"}

Garbled ==
    /\ Reading
    /\ Receive((Kinds \ {"err"}) \ Expected)
    /\ UNCHANGED result
    /\ Raise

----------------------------------------------------------------------------
(* MySQLResult.                                                            *)

\* A result is there: for the cursor that asked for it, or to be skipped.
Deliver(r) ==
    /\ result' = r
    /\ holder' = IF call.after = "skip" THEN Nobody ELSE call.c
    /\ IF call.after = "skip" THEN UNCHANGED told ELSE Tell(call.c, "rows")
    /\ call' = CASE call.after = "done" /\ Len(call.todo) < 2 -> Idle
                 [] call.after = "done" /\ Len(call.todo) > 1 ->
                        [call EXCEPT !.pc = "nextset", !.todo = Tail(@)]
                 [] OTHER -> [call EXCEPT !.pc = call.after]

\* A slip: the flags count when no result follows.
FlagsAtEnd(packet) == IF More(packet.kind) THEN status ELSE packet.auto

\* The flags of an OK packet tell the mode at its statement.
Flags(packet) == packet.auto

\* The last OK of a reply brings to light what an error hid before.
Learn(packet) ==
    /\ status' = Flags(packet)
    /\ hidden' = (hidden /\ More(packet.kind))

\* An OK is all the result there is.
ReadOk ==
    /\ call.pc \in {"first", "loaded"}
    /\ Receive({"ok", "ok+"})
    /\ Learn(Head(wire))
    /\ Deliver(Result(FALSE, More(Head(wire).kind)))
    /\ Consume
    /\ UNCHANGED <<auto, mode, asked, muddled, stale>>

\* Columns: init_unbuffered_query leaves the rows on the wire, read() goes on.
ReadColumns ==
    /\ At("first")
    /\ Receive({"cols"})
    /\ IF call.after # "skip" /\ call.c \in Unbuffered
         THEN Deliver(Result(TRUE, FALSE))
         ELSE GoTo("rows") /\ UNCHANGED <<result, holder, told>>
    /\ Consume
    /\ UNCHANGED <<auto, status, mode, history>>

ReadRow ==
    /\ At("rows")
    /\ Receive({"row"})
    /\ Consume
    /\ UNCHANGED <<auto, client, call, history>>

ReadEnd ==
    /\ At("rows")
    /\ Receive({"eof", "eof+"})
    /\ Deliver(Result(FALSE, More(Head(wire).kind)))
    /\ Consume
    /\ UNCHANGED <<auto, status, mode, history>>

\* A column cannot be decoded or converted.
BadRow ==
    /\ call.pc \in {"rows", "fetch"} /\ Reading
    /\ Receive({"row"})
    /\ UNCHANGED result
    /\ Raise

\* A slip: nothing tells the server that the file is at its end.
FileUnfinished == "none"

FileSent == IF link THEN "file" ELSE "none"

\* LOAD DATA LOCAL: the file goes out packet by packet with an empty one at the
\* end, which also follows when it cannot be read to its end: then the answer is
\* skipped.  A write that fails ends like the read after it.
SendFile ==
    /\ At("first") /\ Readable /\ Head(wire).kind = "local"
    /\ \E n \in 0..MaxBatch :
           /\ nextSeq' = Numbered(n + 2)
           /\ GoTo("loaded") \/ GoTo("skipped")
    /\ wire' = Tail(wire)
    /\ request' = FileSent
    /\ UNCHANGED <<link, sock, auto, client, history>>

----------------------------------------------------------------------------
(* _execute_command.                                                       *)

\* What is left of an unbuffered result is read and dropped first.
Finish ==
    /\ At("finish") /\ result.active
    /\ Receive(Expected)
    /\ result' = IF Head(wire).kind \in {"eof", "eof+"}
                    THEN Result(FALSE, More(Head(wire).kind))
                    ELSE result
    /\ Consume
    /\ UNCHANGED <<auto, status, mode, holder, told, call, history>>

\* That the query before this one ran into a timeout is of no interest now.
FinishTimedOut ==
    /\ At("finish") /\ result.active
    /\ Receive({"err"})
    /\ result' = Ended
    /\ Consume
    /\ UNCHANGED <<auto, status, mode, holder, told, call, history>>

Finished ==
    /\ At("finish") /\ ~result.active
    /\ GoTo(IF call.op = "close" THEN "nextset" ELSE "skip")
    /\ UNCHANGED <<channel, auto, nextSeq, client, history>>

\* Then further result sets, and self._result is forgotten.
Skip ==
    /\ At("skip")
    /\ call' = [call EXCEPT !.pc = IF result.next THEN "first" ELSE "write",
                            !.after = IF result.next THEN "skip" ELSE "done"]
    /\ result' = None
    /\ holder' = Nobody
    /\ UNCHANGED <<channel, auto, nextSeq, status, mode, told, history>>

\* The command is written as packet 0.  On a lost connection that fails, or the
\* next read will.
Send ==
    /\ At("write")
    /\ \/ /\ request' = IF link THEN Head(call.todo) ELSE "none"
          /\ GoTo(IF Head(call.todo) = "query" THEN "first" ELSE "ok")
          /\ nextSeq' = 1
          /\ wire' = [i \in DOMAIN wire |-> [wire[i] EXCEPT !.mine = FALSE]]
          /\ muddled' = (muddled \/ (wire # <<>> /\ Head(wire).pos = 1))
          /\ stale' = FALSE
          /\ UNCHANGED <<link, sock, auto, client, asked, hidden>>
       \/ /\ ~link
          /\ ForceClose
          /\ Leave
          /\ UNCHANGED <<nextSeq, result>>

\* The server is in the mode asked for, or there is no telling.
AgreeOn(sure) == asked' = IF sure THEN {mode} ELSE BOOLEAN

\* _read_ok_packet, but that SET NAMES takes any packet and no flags.
CommandOk ==
    /\ At("ok")
    /\ Receive(Expected)
    /\ IF Head(call.todo) = "names" THEN UNCHANGED <<status, hidden>> ELSE Learn(Head(wire))
    /\ IF Head(call.todo) = "auto" THEN AgreeOn(TRUE) ELSE UNCHANGED asked
    /\ call' = [call EXCEPT !.pc = "next", !.todo = Tail(@)]
    /\ Consume
    /\ UNCHANGED <<auto, mode, result, holder, told, muddled, stale>>

----------------------------------------------------------------------------
(* Between the commands of a call.                                         *)

Upcoming(command) == call.todo # <<>> /\ Head(call.todo) = command

\* autocommit(): SET AUTOCOMMIT is only sent if the flags of the last OK that was
\* read have the other mode, whatever is still unread.
Agreed == Upcoming("auto") /\ mode = status

SkipAgreed ==
    /\ At("next")
    /\ Agreed
    /\ call' = [call EXCEPT !.todo = Tail(@)]
    /\ AgreeOn(wire = <<>> /\ ~hidden)
    /\ UNCHANGED <<channel, auto, nextSeq, client, hidden, muddled, stale>>

StartCommand ==
    /\ At("next")
    /\ call.todo # <<>> /\ ~Agreed /\ sock
    /\ GoTo("finish")
    /\ UNCHANGED <<channel, auto, nextSeq, client, history>>

NotConnected ==
    /\ At("next")
    /\ call.todo # <<>> /\ ~Agreed /\ ~sock
    /\ Leave
    /\ UNCHANGED <<channel, nextSeq, result>>

Return ==
    /\ At("next")
    /\ call.todo = <<>>
    /\ call' = Idle
    /\ UNCHANGED <<channel, auto, nextSeq, client, history>>

\* Cursor._nextset: the cursor goes on if the latest result of the connection is
\* its own and not the last.
HasNext(c) == holder = c /\ result.next

Forget(c) ==
    /\ Tell(c, "none")
    /\ holder' = IF holder = c THEN Nobody ELSE holder

NextSet ==
    /\ At("nextset")
    /\ \/ /\ HasNext(call.c)
          /\ call' = [call EXCEPT !.pc = "first",
                          !.after = CASE call.op = "nextset" -> "done"
                                      [] call.op = "callproc" -> "next"
                                      [] OTHER -> "nextset"]
          /\ result' = None
          /\ Forget(call.c)
       \/ /\ ~HasNext(call.c)
          /\ \/ call.op = "nextset" /\ call' = Idle /\ UNCHANGED <<told, holder>>
             \/ call.op = "close" /\ call' = Idle /\ Forget(call.c)
             \/ call.op \in {"execute", "callproc"} /\ GoTo("next") /\ Forget(call.c)
          /\ UNCHANGED result
    /\ UNCHANGED <<channel, auto, nextSeq, status, mode, history>>

\* SSCursor.read_next: a row, the end, or nothing if the result is no longer active.
Fetched(c, what) == call' = Idle /\ Tell(c, what)

FetchRow ==
    /\ At("fetch") /\ Reading
    /\ \/ /\ Receive({"row"})
          /\ Fetched(call.c, "rows")
          /\ UNCHANGED result
       \/ /\ Receive({"eof", "eof+"})
          /\ result' = Result(FALSE, More(Head(wire).kind))
          /\ Fetched(call.c, "end")
    /\ Consume
    /\ UNCHANGED <<auto, status, mode, holder, history>>

FetchNothing ==
    /\ At("fetch") /\ ~Reading
    /\ Fetched(call.c, IF told[call.c] = "error" THEN "error" ELSE "end")
    /\ UNCHANGED <<channel, auto, nextSeq, status, mode, result, holder, history>>

----------------------------------------------------------------------------
(* The application's calls.                                                *)

\* Bound: a connection that took a foreign packet for a reply is only closed.
Begin(next) == At("idle") /\ ~(muddled /\ sock) /\ call' = next

Same == UNCHANGED <<channel, auto, nextSeq, status, result, history>>

Queries(n) == [i \in 1..n |-> "query"]

\* execute, and executemany statement by statement.
Execute(c) ==
    /\ \E n \in 1..MaxBatch : Begin(Call("execute", c, "nextset", Queries(n)))
    /\ Same /\ UNCHANGED <<mode, holder, told>>

\* callproc sets the arguments first, if any.
CallProc(c) ==
    /\ \E n \in 1..2 : Begin(Call("callproc", c, "next", Queries(n)))
    /\ Forget(c)
    /\ Same /\ UNCHANGED mode

AskNextSet(c) ==
    /\ Begin(Call("nextset", c, "nextset", <<>>))
    /\ Same /\ UNCHANGED <<mode, holder, told>>

\* A row of an SSCursor; fetchone, fetchmany, fetchall and scroll ask for one after
\* the other.  A cursor that has no result of its own left has nothing to fetch.
Fetch(c) ==
    /\ c \in Unbuffered /\ told[c] # "none"
    /\ Begin(Call("fetch", c, "fetch", <<>>))
    /\ Same /\ UNCHANGED <<mode, holder, told>>

\* close: an SSCursor reads what is left of its result first.
CloseCursor(c) ==
    /\ Begin(Call("close", c, IF c \in Unbuffered /\ holder = c THEN "finish" ELSE "nextset",
                  <<>>))
    /\ Same /\ UNCHANGED <<mode, holder, told>>

\* begin, commit, rollback, select_db; set_character_set; kill.
Command(command) ==
    /\ Begin(Call("command", Nobody, "next", <<command>>))
    /\ Same /\ UNCHANGED <<mode, holder, told>>

Autocommit(value) ==
    /\ Begin(Call("autocommit", Nobody, "next", <<"auto">>))
    /\ mode' = value
    /\ Same /\ UNCHANGED <<holder, told>>

\* ping on a closed connection connects at once, or raises.
Ping(reconnect) ==
    /\ sock \/ reconnect
    /\ Begin(IF sock THEN [Call("ping", Nobody, "next", <<"ping">>) EXCEPT !.retry = reconnect]
             ELSE Reconnect)
    /\ Same /\ UNCHANGED <<mode, holder, told>>

Connect ==
    /\ ~sock
    /\ Begin(Call("connect", Nobody, "dial", <<"names", "auto">>))
    /\ Same /\ UNCHANGED <<mode, holder, told>>

Close ==
    /\ At("idle") /\ sock
    /\ ForceClose
    /\ UNCHANGED <<auto, nextSeq, client, call, history>>

\* connect() after the login: SET NAMES and the autocommit mode follow.
NewSession ==
    /\ At("dial")
    /\ GoTo("next")
    /\ link' = TRUE /\ wire' = <<>> /\ request' = "none" /\ sock' = TRUE
    /\ auto' \in BOOLEAN
    /\ asked' = BOOLEAN /\ hidden' = FALSE /\ muddled' = FALSE
    /\ stale' = (result.active \/ result.next)
    /\ UNCHANGED <<nextSeq, mode, result, holder, told>>

\* A slip: the flags of the handshake are not taken over.
ConnectedUnaware == NewSession /\ UNCHANGED status

Connected == NewSession /\ status' = auto'

\* connect() raised.
Refused ==
    /\ At("dial")
    /\ ForceClose
    /\ call' = Idle
    /\ UNCHANGED <<auto, nextSeq, client, history>>

----------------------------------------------------------------------------
Read ==
    \/ Broken \/ ErrorPacket \/ Garbled
    \/ ReadOk \/ ReadColumns \/ ReadRow \/ ReadEnd \/ BadRow
    \/ SendFile
    \/ Finish \/ FinishTimedOut \/ CommandOk \/ FetchRow

Continue ==
    \/ Finished \/ Skip \/ Send
    \/ SkipAgreed \/ StartCommand \/ NotConnected \/ Return
    \/ NextSet \/ FetchNothing

Ask ==
    \/ \E c \in Cursors : Execute(c) \/ CallProc(c) \/ AskNextSet(c) \/ Fetch(c) \/ CloseCursor(c)
    \/ \E command \in {"commit", "names", "query"} : Command(command)
    \/ \E value \in BOOLEAN : Autocommit(value)
    \/ \E reconnect \in BOOLEAN : Ping(reconnect)
    \/ Connect \/ Close

\* Everything but the login.
SessionStep == Serve \/ LinkLost \/ Read \/ Continue \/ Ask

SessionInit ==
    /\ link = FALSE /\ wire = <<>> /\ request = "none" /\ sock = FALSE
    /\ auto = FALSE /\ nextSeq = 0
    /\ status = FALSE /\ mode \in BOOLEAN
    /\ result = None /\ holder = Nobody /\ told = [c \in Unbuffered |-> "none"]
    /\ call = Call("connect", Nobody, "dial", <<"names", "auto">>)
    /\ asked = BOOLEAN /\ hidden = FALSE
    /\ muddled = FALSE /\ stale = FALSE

----------------------------------------------------------------------------
(* Properties.                                                             *)

\* The types; only the cursor of a call or nobody holds the latest result.
SessionTypeOK ==
    /\ link \in BOOLEAN /\ sock \in BOOLEAN
    /\ \A i \in DOMAIN wire :
           wire[i] \in [kind : Kinds, mine : BOOLEAN, pos : 0..SeqMod - 1,
                       auto : BOOLEAN]
    /\ request \in {"none", "query", "ping", "names", "auto", "commit", "file"}
    /\ auto \in BOOLEAN /\ status \in BOOLEAN /\ mode \in BOOLEAN
    /\ nextSeq \in 0..SeqMod - 1
    /\ result = None \/ \E a, n \in BOOLEAN : result = Result(a, n)
    /\ result.active => ~result.next
    /\ holder \in Cursors \cup {Nobody}
    /\ told \in [Unbuffered -> {"none", "rows", "end", "error"}]
    /\ asked \in SUBSET BOOLEAN /\ hidden \in BOOLEAN

\* connections.py:776-786.  A packet is only taken for part of the reply to the
\* latest command if it is: the packets an unreadable row left behind have other
\* numbers, unless the numbers have come round to those of the new reply.
RepliesMatched ==
    Reading /\ Readable /\ ~muddled => Head(wire).mine

\* A call that waits for a packet will get one, or learn that the connection is
\* lost: the server is not waiting for a command at the same time.  (Except after
\* a reconnect that found a result unread.)
WaitsOnlyForAnswers ==
    Reading /\ sock /\ link /\ wire = <<>> /\ ~stale => request # "none"

\* ping, connections.py:603: "If the connection is closed, reconnect."
ReconnectGoesOn ==
    Reading /\ sock /\ link /\ wire = <<>> => request # "none"

\* Between calls, a connection whose latest result was read to its end has
\* nothing unread: the next command meets its own reply first.
UnreadIsKnown ==
    At("idle") /\ sock /\ ~result.none /\ ~result.active /\ ~result.next /\ ~muddled
        => wire = <<>>

\* What autocommit() compares with, the flags of the last OK that was read, is the
\* mode of the server once every result has been read, but for a change that an
\* error packet hides.
StatusFresh ==
    At("idle") /\ sock /\ link /\ wire = <<>> /\ request = "none" /\ ~muddled /\ ~hidden
        => status = auto

\* The server is in the mode last agreed on, or in one the application's own
\* statements set since, whatever errors, lost connections and reconnects came
\* between.  (Nothing is agreed on by an autocommit() that sends nothing because it
\* compares with flags out of date: a reply unread, or a change hidden by an error.)
AutocommitKept ==
    sock /\ link /\ ~muddled => auto \in asked

=============================================================================
