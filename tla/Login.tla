-------------------------------- MODULE Login --------------------------------
(***************************************************************************)
(* The login of a PyMySQL connection (connections.py, _auth.py): greeting, *)
(* handshake response, and the exchange of the account's authentication    *)
(* plugin, possibly after a switch to it.                                  *)
(*                                                                         *)
(* The server is external.  What differs from one attempt to the next, the *)
(* server's settings and what the client has at hand, is chosen when the   *)
(* attempt starts.  "native" stands for the clear password too, and for a  *)
(* server that names no plugin; dialog, handlers of the application and    *)
(* unix sockets, which the client takes for secure, are left out.          *)
(***************************************************************************)
EXTENDS Naturals, Sequences

CONSTANT Settings   \* bound: the settings of the attempts after the first

VARIABLES
    attempt,    \* the settings of the attempt
    phase,      \* where the client is
    server,     \* where the server is
    toServer,   \* messages on their way
    toClient

loginVars == <<attempt, phase, server, toServer, toClient>>

Attempts ==
    [tls       : {"used", "none", "refused"},   \* refused: required but not to be had
     announced : {"native", "caching", "sha256"},
     account   : {"native", "old", "ed25519", "caching", "sha256", "unknown"},
     password  : {"right", "wrong", "missing", "none"},     \* none: for this account
     crypto    : BOOLEAN,                       \* is cryptography installed?
     nacl      : BOOLEAN,                       \* is pynacl?
     key       : {"none", "current", "old"},    \* conn.server_public_key
     cached    : BOOLEAN,                       \* does the server remember the account?
     lost      : {FALSE}]                       \* history: was the connection lost?

ASSUME LoginAssumption == Settings \subseteq Attempts

Right == attempt.password \in {"right", "none"}
HasPassword == attempt.password \in {"right", "wrong"}
Secure == attempt.tls = "used"

----------------------------------------------------------------------------
(* The server.                                                             *)

\* The first answer is for the plugin announced, the others for the account's.
Greet ==
    /\ server = "greet"
    /\ server' = IF attempt.announced = attempt.account THEN "plugin" ELSE "response"
    /\ toClient' = <<"greeting">>
    /\ UNCHANGED <<attempt, phase, toServer>>

Switch ==
    /\ server = "response" /\ toServer # <<>>
    /\ server' = "plugin" /\ toServer' = <<>> /\ toClient' = <<"switch">>
    /\ UNCHANGED <<attempt, phase>>

Asked(messages) ==
    /\ server = "plugin" /\ toServer # <<>>
    /\ Head(toServer) \in messages
    /\ toServer' = <<>>

SendKey ==
    /\ Asked({"ask"})
    /\ toClient' = <<"key">>
    /\ UNCHANGED <<attempt, phase, server>>

FastPath == attempt.account = "caching" /\ toServer = <<"scramble">>

Fast ==
    /\ Asked({"scramble"}) /\ FastPath
    /\ IF attempt.cached /\ Right
         THEN server' = "in" /\ toClient' = <<"fast", "ok">>
         ELSE server' = server /\ toClient' = <<"full">>
    /\ UNCHANGED <<attempt, phase>>

\* An encrypted password can be read if it was encrypted with the server's key.
Judge ==
    /\ Asked({"scramble", "plain", "empty", "encrypted"}) /\ ~FastPath
    /\ IF /\ Right
          /\ Head(toServer) = "plain" => Secure
          /\ Head(toServer) = "encrypted" => attempt.key = "current"
         THEN server' = "in" /\ toClient' = <<"ok">>
         ELSE server' = "out" /\ toClient' = <<"err">>
    /\ UNCHANGED <<attempt, phase>>

----------------------------------------------------------------------------
(* The client: what it sends next and what it waits for then.              *)

Answer(message, then) == [send |-> <<message>>, phase |-> then, key |-> attempt.key]
Wait(then) == [send |-> <<>>, phase |-> then, key |-> attempt.key]
In == Wait("in")
Fail == Wait("failed")

Scramble == IF HasPassword THEN "scramble" ELSE "empty"

\* sha2_rsa_encrypt, with a key at hand or just received.
Encrypted(key) ==
    IF attempt.crypto THEN [Answer("encrypted", "last") EXCEPT !.key = key] ELSE Fail

\* _get_server_information: of the greeting, the plugin the server starts with.
Announced == attempt.announced

\* The response to the greeting; nothing but TLS can be required.
Respond ==
    IF attempt.tls = "refused" THEN Fail
    ELSE Answer(CASE Announced # "sha256" -> Scramble
                 [] Announced = "sha256" /\ Secure -> "plain"
                 [] Announced = "sha256" /\ ~Secure /\ HasPassword -> "ask"
                 [] OTHER -> "empty",
               "reply")

\* A slip: the key is waited for and not asked for.
AskKeySilently == Wait("key")

AskKey == Answer("ask", "key")

\* sha256_password_auth after a switch.
SwitchToSha256 ==
    CASE Secure -> Answer("plain", "last")
      [] ~Secure /\ ~HasPassword -> Answer("empty", "last")
      [] ~Secure /\ HasPassword /\ attempt.key = "none" -> AskKey
      [] OTHER -> Encrypted(attempt.key)

\* ed25519_password signs with pynacl.
Signed == IF attempt.nacl THEN Answer("scramble", "last") ELSE Fail

\* _process_auth.  For mysql_old_password there is a branch, but the function it
\* calls, _auth.scramble_old_password, does not exist.
Switched ==
    CASE attempt.account = "native" -> Answer(Scramble, "last")
      [] attempt.account = "ed25519" -> Signed
      [] attempt.account = "caching" ->
             Answer(Scramble, IF HasPassword THEN "fast" ELSE "last")
      [] attempt.account = "sha256" -> SwitchToSha256
      [] OTHER -> Fail

\* caching_sha2_password_auth: after the response to the greeting, or a switch.
InCaching == phase = "fast" \/ (phase = "reply" /\ Announced = "caching")

\* A slip: the key at hand is used, even if there is none.
FullUnasked == IF Secure THEN Answer("plain", "last") ELSE Encrypted(attempt.key)

\* caching_sha2_password_auth when the fast path is not enough.
Full ==
    CASE Secure -> Answer("plain", "last")
      [] ~Secure /\ attempt.key = "none" -> AskKey
      [] OTHER -> Encrypted(attempt.key)

\* A slip: the fast path is taken for the end of the login.
FastDoneHasty == In

\* An OK follows the success of the fast path.
FastDone == Wait("fastdone")

\* What a message means to the client.  Where it expects the OK any packet but an
\* error is one; elsewhere it raises for what it does not expect.
Reaction(message) ==
    CASE phase = "greeting" /\ message = "greeting" -> Respond
      [] phase = "reply" /\ message = "ok" -> In
      [] phase \in {"last", "fastdone"} /\ message # "err" -> In
      [] phase = "reply" /\ message = "switch" -> Switched
      [] phase = "reply" /\ message = "key" /\ Announced = "sha256" ->
             Encrypted("current")
      [] InCaching /\ message = "fast" -> FastDone
      [] InCaching /\ message = "full" -> Full
      [] phase = "key" /\ message = "key" -> Encrypted("current")
      [] OTHER -> Fail

React ==
    /\ toClient # <<>> /\ phase \notin {"in", "failed"}
    /\ LET reaction == Reaction(Head(toClient)) IN
         /\ toServer' = reaction.send
         /\ phase' = reaction.phase
         /\ attempt' = [attempt EXCEPT !.key = reaction.key]
    /\ toClient' = Tail(toClient)
    /\ UNCHANGED server

LoginLost ==
    /\ phase \notin {"off", "in", "failed"}
    /\ phase' = "failed" /\ server' = "out"
    /\ attempt' = [attempt EXCEPT !.lost = TRUE]
    /\ toServer' = <<>> /\ toClient' = <<>>

\* connect() once more.
Dial ==
    /\ phase = "off"
    /\ attempt' \in Settings
    /\ phase' = "greeting" /\ server' = "greet"
    /\ toServer' = <<>> /\ toClient' = <<>>

\* The attempt is over.
NoAttempt == [lost |-> FALSE]

HangUp ==
    /\ attempt' = NoAttempt /\ phase' = "off" /\ server' = "out"
    /\ toServer' = <<>> /\ toClient' = <<>>

LoginInit ==
    /\ attempt \in Attempts
    /\ phase = "greeting" /\ server = "greet"
    /\ toServer = <<>> /\ toClient = <<>>

LoginStep == Dial \/ Greet \/ Switch \/ SendKey \/ Fast \/ Judge \/ React \/ LoginLost

----------------------------------------------------------------------------
(* Properties.                                                             *)

\* The client takes itself to be logged in only together with the server, and
\* with no message of the login left unread: the commands that follow start in
\* step.
LoggedInTogether ==
    phase = "in" => server = "in" /\ toClient = <<>> /\ toServer = <<>>

\* Client and server never wait for each other.
SomebodyTalks ==
    phase \notin {"off", "in", "failed"} =>
        server = "greet" \/ toServer # <<>> \/ toClient # <<>>

\* The right password gets in, whatever the server announces and switches to.
\* What can stand against it: no TLS where it is required; a plugin the client does
\* not know, or only by name (old), or lacks a package for (ed25519); and, where a
\* password has to be encrypted, a missing cryptography package or a public key the
\* server has replaced since the client got it.
RightPasswordGetsIn ==
    phase = "failed" /\ Right /\ ~attempt.lost =>
        \/ attempt.tls = "refused"
        \/ attempt.account \in {"unknown", "old"}
        \/ attempt.account = "ed25519" /\ ~attempt.nacl
        \/ /\ attempt.account \in {"caching", "sha256"} /\ HasPassword /\ ~Secure
           /\ ~attempt.crypto \/ attempt.key = "old"
==============================================================================
