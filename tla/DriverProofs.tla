----------------------------- MODULE DriverProofs -----------------------------
(***************************************************************************)
(* Theorems about a PyMySQL connection.  First the login, the one of a     *)
(* connect or of a reconnect, for all settings of server, account and      *)
(* client.  Then the session: what a reply is taken for and what is left   *)
(* unread, for every application, every length of the results and every    *)
(* modulus of the packet numbers.                                          *)
(***************************************************************************)
EXTENDS Driver, SequenceTheorems, TLAPS

\* The settings of an attempt stay as they are, but for the key it may get.
AnyAttempt ==
    [tls       : {"used", "none", "refused"},
     announced : {"native", "caching", "sha256"},
     account   : {"native", "old", "ed25519", "caching", "sha256", "unknown"},
     password  : {"right", "wrong", "missing", "none"},
     crypto    : BOOLEAN,
     nacl      : BOOLEAN,
     key       : {"none", "current", "old"},
     cached    : BOOLEAN,
     lost      : BOOLEAN]

AttemptTypeOK == phase # "off" => attempt \in AnyAttempt

\* What the account's plugin answers with OK or an error.
Judged(m) ==
    \/ m \in {"empty", "plain", "encrypted"}
    \/ m = "scramble" /\ attempt.account # "caching"

\* A step of the whole driver is, for the login, one of these.
LEMMA DriverStep ==
    ASSUME [DriverNext]_driverVars
    PROVE  LoginStep \/ HangUp \/ UNCHANGED loginVars
BY DEF DriverNext, LoggingIn, LoggedIn, NotLoggedIn, InSession, driverVars, loginVars

\* What the client does on a message: it answers and waits, or is done with a
\* message that the last of the login follows, or is in, or has failed.
LEMMA Reactions ==
    ASSUME NEW message
    PROVE  LET r == Reaction(message) IN
           \/ /\ r.phase \in {"reply", "fast", "key", "last"}
              /\ \E m : r.send = <<m>> /\ (r.phase = "last" => Judged(m))
              /\ r.phase = "last" => message # "greeting"
              /\ message \in {"greeting", "switch", "key", "full"}
           \/ r.phase = "fastdone" /\ r.send = <<>> /\ message = "fast"
           \/ /\ r.phase = "in" /\ r.send = <<>> /\ message # "err"
              /\ message = "ok" \/ phase \in {"last", "fastdone"}
           \/ r.phase = "failed"
<1> DEFINE Answers(r) == /\ r.phase \in {"reply", "fast", "key", "last"}
                         /\ \E m : r.send = <<m>> /\ (r.phase = "last" => Judged(m))
<1>1. ASSUME NEW m, NEW then \in {"reply", "fast", "key", "last"},
             then = "last" => Judged(m)
      PROVE  Answers(Answer(m, then))
  <2>1. Answer(m, then).send = <<m>> /\ Answer(m, then).phase = then
    BY DEF Answer
  <2> QED
    BY <1>1, <2>1
<1>2. ASSUME NEW key
      PROVE  Answers(Encrypted(key)) \/ Encrypted(key).phase = "failed"
  BY DEF Encrypted, Answer, Fail, Wait, Judged
<1>3. (Answers(Respond) /\ Respond.phase = "reply") \/ Respond.phase = "failed"
  BY DEF Respond, Answer, Fail, Wait
<1>4. Answers(AskKey)
  BY <1>1 DEF AskKey
<1>5. Answers(SwitchToSha256) \/ SwitchToSha256.phase = "failed"
  BY <1>1, <1>2, <1>4 DEF SwitchToSha256, Judged
<1>6. Answers(Switched) \/ Switched.phase = "failed"
  BY <1>1, <1>5 DEF Switched, Signed, Scramble, Fail, Wait, Judged
<1>7. Answers(Full) \/ Full.phase = "failed"
  BY <1>1, <1>2, <1>4 DEF Full, Judged
<1>8. In.phase = "in" /\ In.send = <<>>
  BY DEF In, Wait
<1>9. FastDone.phase = "fastdone" /\ FastDone.send = <<>>
  BY DEF FastDone, Wait
<1>10. Fail.phase = "failed"
  BY DEF Fail, Wait
<1> HIDE DEF Answers
<1>11. LET r == Reaction(message) IN
       \/ /\ Answers(r) /\ (r.phase = "last" => message # "greeting")
          /\ message \in {"greeting", "switch", "key", "full"}
       \/ r.phase = "fastdone" /\ r.send = <<>> /\ message = "fast"
       \/ /\ r.phase = "in" /\ r.send = <<>> /\ message # "err"
          /\ message = "ok" \/ phase \in {"last", "fastdone"}
       \/ r.phase = "failed"
  BY <1>2, <1>3, <1>6, <1>7, <1>8, <1>9, <1>10 DEF Reaction
<1> QED
  BY <1>11 DEF Answers

----------------------------------------------------------------------------
\* Where client, server and the messages between them are; a client that has
\* failed, or is not connecting, expects nothing.
OnItsWay ==
    \/ /\ server \in {"response", "plugin"}
       /\ toClient = <<>> /\ \E m : toServer = <<m>>
    \/ /\ server = "plugin" /\ toServer = <<>>
       /\ toClient \in {<<"switch">>, <<"key">>, <<"full">>}
    \/ server = "out" /\ toServer = <<>> /\ toClient = <<"err">>
    \/ server = "in" /\ toServer = <<>> /\ toClient \in {<<"ok">>, <<"fast", "ok">>}

\* Nothing but the OK or an error can answer what the client sent last.
Settling ==
    /\ server # "response"
    /\ toServer # <<>> => Judged(Head(toServer))
    /\ toClient \in {<<>>, <<"ok">>, <<"err">>}

InStep ==
    \/ phase = "failed"
    \/ phase = "off" /\ server = "out" /\ toServer = <<>> /\ toClient = <<>>
    \/ phase = "in" /\ server = "in" /\ toServer = <<>> /\ toClient = <<>>
    \/ /\ phase = "greeting" /\ toServer = <<>>
       /\ \/ server = "greet" /\ toClient = <<>>
          \/ server \in {"response", "plugin"} /\ toClient = <<"greeting">>
    \/ phase \in {"reply", "fast", "key", "last"} /\ OnItsWay /\ (phase = "last" => Settling)
    \/ phase = "fastdone" /\ server = "in" /\ toServer = <<>> /\ toClient = <<"ok">>

LEMMA LastRead ==
    ASSUME NEW m, NEW n
    PROVE  Tail(<<m>>) = <<>> /\ Tail(<<m, n>>) = <<n>>
<1>1. Tail(<<m>>) = <<>>
  OBVIOUS
<1>2. Tail(<<m, n>>) = <<n>>
  OBVIOUS
<1> QED
  BY <1>1, <1>2

LEMMA InStepStays == InStep /\ AttemptTypeOK /\ [DriverNext]_driverVars => InStep'
<1> SUFFICES ASSUME InStep, AttemptTypeOK, [DriverNext]_driverVars, phase' # "failed"
             PROVE  InStep'
  BY DEF InStep
<1>1. CASE UNCHANGED loginVars
  BY <1>1 DEF loginVars, InStep, OnItsWay, Settling, Judged
<1>2. CASE Greet
  BY <1>2 DEF Greet, InStep, OnItsWay
<1>3. CASE Switch
  BY <1>3 DEF Switch, InStep, OnItsWay, Settling
<1>4. CASE SendKey
  BY <1>4 DEF SendKey, Asked, InStep, OnItsWay, Settling, Judged
<1>5. CASE Fast
  BY <1>5 DEF Fast, FastPath, Asked, InStep, OnItsWay, Settling, Judged
<1>6. CASE Judge
  BY <1>6 DEF Judge, Asked, InStep, OnItsWay, Settling
<1>7. CASE React
  <2>1. /\ toServer' = Reaction(Head(toClient)).send
        /\ phase' = Reaction(Head(toClient)).phase
        /\ toClient' = Tail(toClient) /\ server' = server
        /\ toClient # <<>> /\ phase \notin {"off", "in", "failed"}
    BY <1>7 DEF React, InStep
  <2>2. CASE /\ phase' \in {"reply", "fast", "key", "last"}
             /\ \E m : toServer' = <<m>> /\ (phase' = "last" => Judged(m))
             /\ phase' = "last" => Head(toClient) # "greeting"
             /\ Head(toClient) \in {"greeting", "switch", "key", "full"}
    <3>1. toClient \in {<<"greeting">>, <<"switch">>, <<"key">>, <<"full">>}
          /\ server \in {"response", "plugin"}
      BY <2>1, <2>2 DEF InStep, OnItsWay
    <3>2. toClient' = <<>>
      BY <2>1, <3>1, LastRead
    <3>3. OnItsWay'
      BY <2>1, <2>2, <3>1, <3>2 DEF OnItsWay
    <3>4. attempt'.account = attempt.account
      BY <1>7, <2>1 DEF React, AttemptTypeOK, AnyAttempt
    <3>5. phase' = "last" => server = "plugin"
      BY <2>1, <2>2, <3>1 DEF InStep, OnItsWay
    <3>6. PICK m : toServer' = <<m>> /\ (phase' = "last" => Judged(m))
      BY <2>2
    <3>7. Judged(m) => Judged(m)'
      BY <3>4 DEF Judged
    <3>8. phase' = "last" => Settling'
      BY <2>1, <3>2, <3>5, <3>6, <3>7 DEF Settling
    <3> QED
      BY <2>2, <3>3, <3>8 DEF InStep
  <2>3. CASE phase' = "fastdone" /\ toServer' = <<>> /\ Head(toClient) = "fast"
    <3>1. toClient = <<"fast", "ok">> /\ server = "in"
      BY <2>1, <2>3 DEF InStep, OnItsWay
    <3>2. toClient' = <<"ok">>
      BY <2>1, <3>1, LastRead
    <3> QED
      BY <2>1, <2>3, <3>1, <3>2 DEF InStep
  <2>4. CASE /\ phase' = "in" /\ toServer' = <<>> /\ Head(toClient) # "err"
             /\ Head(toClient) = "ok" \/ phase \in {"last", "fastdone"}
    <3>1. toClient = <<"ok">> /\ server = "in"
      BY <2>1, <2>4 DEF InStep, OnItsWay, Settling
    <3>2. toClient' = <<>>
      BY <2>1, <3>1, LastRead
    <3> QED
      BY <2>1, <2>4, <3>1, <3>2 DEF InStep
  <2> QED
    BY <2>1, <2>2, <2>3, <2>4, Reactions
<1>8. CASE Dial
  BY <1>8 DEF Dial, InStep
<1>9. CASE LoginLost
  BY <1>9 DEF LoginLost
<1>10. CASE HangUp
  BY <1>10 DEF HangUp, InStep
<1> QED
  BY <1>1, <1>2, <1>3, <1>4, <1>5, <1>6, <1>7, <1>8, <1>9, <1>10, DriverStep DEF LoginStep

LEMMA InStepInit == DriverInit => InStep
BY DEF DriverInit, LoginInit, InStep

----------------------------------------------------------------------------
\* The key is asked for in the response to the greeting, whichever is at hand.
KeyComes == attempt.announced = "sha256" /\ attempt.account = "sha256"

\* A password that goes out encrypted, if the server asks for more than a scramble.
Encrypts == attempt.account \in {"caching", "sha256"} /\ HasPassword /\ ~Secure

\* Nothing stands against this attempt.
Promising ==
    /\ Right /\ attempt.tls # "refused" /\ attempt.account \notin {"unknown", "old"}
    /\ attempt.account = "ed25519" => attempt.nacl
    /\ Encrypts => attempt.crypto /\ (attempt.key # "old" \/ KeyComes)

\* Whose turn it is and with what, in a promising attempt.  What the client sends
\* the account's plugin accepts, and what comes back the client is waiting for.
Served(then, message) == phase = then /\ server = "plugin" /\ toServer = <<message>>
Told(then, message) == phase = then /\ server = "plugin" /\ toClient = <<message>>
LetIn(then, messages) == phase = then /\ server = "in" /\ toClient = messages

Acceptable(message) ==
    \/ message = "empty"
    \/ message = "scramble" /\ attempt.account # "caching"
    \/ message = "plain" /\ Secure
    \/ message = "encrypted" /\ attempt.key = "current"

First == IF attempt.announced = attempt.account THEN "plugin" ELSE "response"

Greeted == phase = "greeting" /\ server \in {"greet", First}

ToSwitch ==
    /\ attempt.announced # attempt.account
    /\ (phase = "reply" /\ server = "response") \/ Told("reply", "switch")

ToJudge(then) ==
    \/ \E m \in {"empty", "scramble", "plain", "encrypted"} :
           Served(then, m) /\ Acceptable(m)
    \/ LetIn(then, <<"ok">>)

ToGetKey(then) ==
    /\ Encrypts
    /\ Served(then, "ask") \/ Told(then, "key")

ToHurry(then) ==
    /\ attempt.account = "caching" /\ HasPassword
    /\ Served(then, "scramble") \/ Told(then, "full") \/ LetIn(then, <<"fast", "ok">>)

OnCourse ==
    \/ phase \in {"off", "in", "fastdone"}
    \/ Greeted
    \/ ToSwitch
    \/ ToJudge("reply")
    \/ ToJudge("last")
    \/ attempt.announced = "sha256" /\ ToGetKey("reply")
    \/ ToGetKey("key")
    \/ attempt.announced = "caching" /\ ToHurry("reply")
    \/ ToHurry("fast")

CourseInv == phase # "off" /\ Promising /\ ~attempt.lost => OnCourse

\* A reaction changes nothing of the attempt but the key, when it receives one.
KeyExpected(message) ==
    message = "key" /\ (phase = "key" \/ (phase = "reply" /\ attempt.announced = "sha256"))

LEMMA KeysOfReactions ==
    ASSUME NEW message
    PROVE  LET r == Reaction(message) IN
           /\ r.key = attempt.key \/ (r.key = "current" /\ KeyExpected(message))
           /\ r.phase = "reply" => phase = "greeting"
           /\ r.phase = "key" => attempt.key = "none" /\ r.key = "none"
<1> DEFINE Keeps(r, phases) == r.key = attempt.key /\ r.phase \in phases
           final == {"last", "failed", "in", "fast", "fastdone"}
           AsksFor(r) == Keeps(r, {"key"}) /\ attempt.key = "none"
<1>1. \A m : \A then \in final : Keeps(Answer(m, then), final)
  BY DEF Answer
<1>2. Keeps(Fail, final) /\ Keeps(In, final) /\ Keeps(FastDone, final)
  BY DEF Wait, Fail, In, FastDone
<1>3. \A key : Encrypted(key).key \in {attempt.key, key} /\ Encrypted(key).phase \in final
  BY DEF Encrypted, Fail, Wait, Answer
<1>4. Keeps(Respond, {"reply", "failed"})
  BY DEF Respond, Fail, Wait, Answer
<1>5. AskKey.key = attempt.key /\ AskKey.phase = "key"
  BY DEF AskKey, Answer
<1>6. Keeps(SwitchToSha256, final) \/ AsksFor(SwitchToSha256)
  BY <1>1, <1>3, <1>5 DEF SwitchToSha256
<1>7. Keeps(Full, final) \/ AsksFor(Full)
  BY <1>1, <1>3, <1>5 DEF Full
<1>8. Keeps(Switched, final) \/ AsksFor(Switched)
  BY <1>1, <1>2, <1>6 DEF Switched, Signed
<1>9. Encrypted("current").key \in {attempt.key, "current"} /\ Encrypted("current").phase \in final
  BY <1>3
<1> DEFINE Comes(r) == r.key \in {attempt.key, "current"} /\ r.phase \in final
<1> HIDE DEF Keeps, AsksFor, Comes
<1>10. LET r == Reaction(message) IN
       \/ phase = "greeting" /\ Keeps(r, {"reply", "failed"})
       \/ Keeps(r, final)
       \/ AsksFor(r)
       \/ KeyExpected(message) /\ Comes(r)
  <2>1. Comes(Encrypted("current"))
    BY <1>9 DEF Comes
  <2> QED
    BY <1>2, <1>4, <1>7, <1>8, <2>1 DEF Reaction, KeyExpected, Announced
<1> QED
  BY <1>10 DEF Keeps, AsksFor, Comes

LEMMA ReactionKeeps ==
    ASSUME attempt \in AnyAttempt, React
    PROVE  /\ attempt' \in AnyAttempt
           /\ attempt' = [attempt EXCEPT !.key = attempt'.key]
           /\ attempt'.key = Reaction(Head(toClient)).key
<1>1. Reaction(Head(toClient)).key \in {attempt.key, "current"}
  BY KeysOfReactions
<1>2. attempt' = [attempt EXCEPT !.key = Reaction(Head(toClient)).key]
  BY DEF React
<1> QED
  BY <1>1, <1>2 DEF AnyAttempt

\* Where a key can come from, in every attempt.
KeyInv ==
    /\ phase = "key" => attempt.key = "none"
    /\ phase = "greeting" => server \in {"greet", First}
    /\ phase = "reply" /\ attempt.announced # attempt.account
          => server = "response" \/ toClient = <<"switch">>

\* The type, and where keys come from, are kept by every step.
BaseInv == InStep /\ AttemptTypeOK /\ KeyInv

LEMMA BaseInvStays == BaseInv /\ [DriverNext]_driverVars => BaseInv'
<1> SUFFICES ASSUME BaseInv, [DriverNext]_driverVars
             PROVE  AttemptTypeOK' /\ KeyInv'
  BY InStepStays DEF BaseInv
<1>1. CASE UNCHANGED loginVars
  BY <1>1 DEF loginVars, BaseInv, AttemptTypeOK, KeyInv, First
<1>2. CASE Greet \/ Switch \/ SendKey \/ Fast \/ Judge
  <2>1. UNCHANGED <<attempt, phase>>
    BY <1>2 DEF Greet, Switch, SendKey, Fast, Judge
  <2>2. CASE Greet
    BY <2>1, <2>2 DEF Greet, BaseInv, InStep, OnItsWay, AttemptTypeOK, KeyInv, First
  <2>3. CASE Switch
    BY <2>1, <2>3 DEF Switch, BaseInv, InStep, OnItsWay, AttemptTypeOK, KeyInv, First
  <2>4. CASE SendKey \/ Fast \/ Judge
    <3>1. server = "plugin" /\ toServer # <<>>
      BY <2>4 DEF SendKey, Fast, Judge, Asked
    <3>2. phase # "greeting" /\ (phase # "failed" => toClient = <<>>)
      BY <3>1 DEF BaseInv, InStep, OnItsWay
    <3>3. phase = "reply" => attempt.announced = attempt.account
      BY <3>1, <3>2 DEF BaseInv, KeyInv
    <3> QED
      BY <2>1, <3>2, <3>3 DEF BaseInv, AttemptTypeOK, KeyInv
  <2> QED
    BY <1>2, <2>2, <2>3, <2>4
<1>3. CASE React
  <2>1. phase # "off" /\ attempt \in AnyAttempt
    BY <1>3 DEF React, BaseInv, InStep, AttemptTypeOK
  <2>2. /\ attempt' \in AnyAttempt
        /\ attempt' = [attempt EXCEPT !.key = attempt'.key]
        /\ attempt'.key = Reaction(Head(toClient)).key
    BY <1>3, <2>1, ReactionKeeps
  <2>3. phase' = Reaction(Head(toClient)).phase /\ server' = server
    BY <1>3 DEF React
  <2>4. phase' = "key" => attempt'.key = "none"
    BY <2>2, <2>3, KeysOfReactions
  <2>5. phase' = "reply" => phase = "greeting"
    BY <2>3, KeysOfReactions
  <2>6. phase' # "greeting"
    BY <2>3, Reactions
  <2>7. phase = "greeting" => server = First
    BY <1>3 DEF React, BaseInv, KeyInv, InStep
  <2>8. attempt'.announced = attempt.announced /\ attempt'.account = attempt.account
    BY <2>1, <2>2 DEF AnyAttempt
  <2> QED
    BY <2>2, <2>3, <2>4, <2>5, <2>6, <2>7, <2>8 DEF AttemptTypeOK, KeyInv, First
<1>4. CASE Dial
  <2>1. attempt' \in AnyAttempt
    BY <1>4, LoginAssumption DEF Dial, Attempts, AnyAttempt
  <2> QED
    BY <1>4, <2>1 DEF Dial, AttemptTypeOK, KeyInv
<1>5. CASE LoginLost
  BY <1>5 DEF LoginLost, BaseInv, AttemptTypeOK, AnyAttempt, KeyInv
<1>6. CASE HangUp
  BY <1>6 DEF HangUp, AttemptTypeOK, KeyInv
<1> QED
  BY <1>1, <1>2, <1>3, <1>4, <1>5, <1>6, DriverStep DEF LoginStep

LEMMA BaseInit == DriverInit => BaseInv
<1> SUFFICES ASSUME DriverInit PROVE BaseInv
  OBVIOUS
<1>1. attempt \in AnyAttempt
  BY DEF DriverInit, LoginInit, Attempts, AnyAttempt
<1> QED
  BY <1>1, InStepInit DEF DriverInit, LoginInit, BaseInv, AttemptTypeOK, KeyInv

\* The client takes itself to be logged in only together with the server, and with
\* no message of the login left unread.
THEOREM InTogether == DriverSpec => []LoggedInTogether
<1>1. BaseInv => LoggedInTogether
  BY DEF BaseInv, InStep, LoggedInTogether
<1> QED
  BY <1>1, BaseInit, BaseInvStays, PTL DEF DriverSpec

\* Client and server never wait for each other.
THEOREM NoSilence == DriverSpec => []SomebodyTalks
<1>1. BaseInv => SomebodyTalks
  BY DEF BaseInv, InStep, OnItsWay, SomebodyTalks
<1> QED
  BY <1>1, BaseInit, BaseInvStays, PTL DEF DriverSpec

\* A promising attempt stays on course: by what the server does,
LEMMA CourseOfServer ==
    ASSUME InStep, Promising, OnCourse,
           Greet \/ Switch \/ SendKey \/ Fast \/ Judge
    PROVE  OnCourse'
<1>1. UNCHANGED <<attempt, phase>>
  BY DEF Greet, Switch, SendKey, Fast, Judge
<1>2. phase # "failed"
  BY DEF OnCourse, Greeted, ToSwitch, ToJudge, ToGetKey, ToHurry, Served, Told, LetIn
<1>3. ASSUME toServer # <<>>
      PROVE  /\ toClient = <<>> /\ \E m : toServer = <<m>>
             /\ phase \notin {"off", "greeting", "in", "fastdone"}
             /\ server \in {"response", "plugin"}
  BY <1>2, <1>3 DEF InStep, OnItsWay
<1>4. CASE Greet
  <2>1. phase = "greeting" /\ server' = First
    BY <1>4 DEF Greet, First, InStep, OnItsWay, OnCourse, Greeted, ToSwitch, ToJudge,
                ToGetKey, ToHurry, Served, Told, LetIn
  <2> QED
    BY <1>1, <2>1 DEF OnCourse, Greeted, First
<1>5. CASE Switch
  <2>1. ToSwitch /\ phase = "reply"
    BY <1>5 DEF Switch, InStep, OnItsWay, OnCourse, Greeted, ToSwitch, ToJudge,
                ToGetKey, ToHurry, Served, Told, LetIn
  <2>2. ToSwitch'
    BY <1>1, <1>5, <2>1 DEF Switch, ToSwitch, Told
  <2> QED
    BY <2>2 DEF OnCourse
<1>6. ASSUME NEW m, toServer = <<m>>, server = "plugin", SendKey \/ Fast \/ Judge
      PROVE  OnCourse'
  <2>1. /\ SendKey => m = "ask"
        /\ Fast => m = "scramble" /\ attempt.account = "caching"
        /\ Judge => /\ m \in {"scramble", "plain", "empty", "encrypted"}
                    /\ ~(m = "scramble" /\ attempt.account = "caching")
    <3>1. Head(toServer) = m
      BY <1>6
    <3>2. FastPath <=> attempt.account = "caching" /\ m = "scramble"
      BY <1>6 DEF FastPath
    <3> QED
      BY <1>6, <3>1, <3>2 DEF SendKey, Fast, Judge, Asked
  <2>2. toClient = <<>> /\ phase \notin {"off", "greeting", "in", "fastdone"}
    BY <1>6, <1>3
  <2>3. ASSUME NEW then, ToJudge(then)
        PROVE  ToJudge(then)'
    <3>1. Served(then, m) /\ Acceptable(m) /\ m # "ask"
          /\ ~(m = "scramble" /\ attempt.account = "caching")
      BY <1>6, <2>3 DEF ToJudge, Served, LetIn, Acceptable
    <3>2. Judge
      BY <1>6, <2>1, <3>1
    <3>3. /\ m = "plain" => Secure
          /\ m = "encrypted" => attempt.key = "current"
      BY <3>1 DEF Acceptable
    <3>4. server' = "in" /\ toClient' = <<"ok">>
      BY <1>6, <3>2, <3>3 DEF Judge, Promising
    <3>5. phase' = then
      BY <1>1, <3>1 DEF Served
    <3> QED
      BY <3>4, <3>5 DEF ToJudge, LetIn
  <2>4. ASSUME NEW then, ToGetKey(then)
        PROVE  ToGetKey(then)'
    <3>1. m = "ask" /\ phase = then /\ Encrypts
      BY <1>6, <2>2, <2>4 DEF ToGetKey, Served, Told
    <3>2. SendKey
      BY <1>6, <2>1, <3>1
    <3> QED
      BY <1>1, <1>6, <3>1, <3>2 DEF SendKey, ToGetKey, Told, Encrypts, HasPassword, Secure
  <2>5. ASSUME NEW then, ToHurry(then)
        PROVE  ToHurry(then)'
    <3>1. /\ m = "scramble" /\ phase = then /\ attempt.account = "caching"
          /\ HasPassword
      BY <1>6, <2>2, <2>5 DEF ToHurry, Served, Told, LetIn
    <3>2. Fast
      BY <1>6, <2>1, <3>1
    <3> QED
      BY <1>1, <1>6, <3>1, <3>2 DEF Fast, ToHurry, Told, LetIn, HasPassword
  <2>6. /\ phase \notin {"off", "in", "fastdone"} /\ ~Greeted /\ ~ToSwitch
    BY <1>6, <2>2 DEF Greeted, ToSwitch, Told
  <2> QED
    BY <1>1, <2>3, <2>4, <2>5, <2>6 DEF OnCourse
<1>7. ASSUME SendKey \/ Fast \/ Judge
      PROVE  server = "plugin" /\ \E m : toServer = <<m>>
  BY <1>7, <1>3 DEF SendKey, Fast, Judge, Asked
<1> QED
  BY <1>4, <1>5, <1>6, <1>7

\* and by what the client does.
LEMMA CourseOfClient ==
    ASSUME BaseInv, CourseInv, React, Promising', ~attempt'.lost
    PROVE  OnCourse'
<1> DEFINE message == Head(toClient)
           r == Reaction(message)
<1>1. /\ toServer' = r.send /\ phase' = r.phase /\ server' = server
      /\ toClient # <<>> /\ toClient' = Tail(toClient)
      /\ phase \notin {"off", "in", "failed"}
  BY DEF React, BaseInv, InStep
<1>2. /\ attempt \in AnyAttempt /\ attempt' \in AnyAttempt
      /\ attempt' = [attempt EXCEPT !.key = attempt'.key]
      /\ attempt'.key = r.key
  BY <1>1, ReactionKeeps DEF BaseInv, AttemptTypeOK
<1>3. /\ attempt'.tls = attempt.tls /\ attempt'.announced = attempt.announced
      /\ attempt'.account = attempt.account /\ attempt'.password = attempt.password
      /\ attempt'.crypto = attempt.crypto /\ attempt'.nacl = attempt.nacl
      /\ attempt'.lost = attempt.lost
  BY <1>2 DEF AnyAttempt
<1>4. toServer = <<>> /\ \/ \E m : toClient = <<m>>
                         \/ toClient = <<"fast", "ok">>
  BY <1>1 DEF BaseInv, InStep, OnItsWay
<1>5. Promising
  <2>1. attempt.key = "old" => attempt'.key = "old" \/ KeyComes
    <3>1. ASSUME attempt'.key # attempt.key
          PROVE  attempt.key = "none" \/ KeyComes
      <4>1. KeyExpected(message)
        BY <1>2, <3>1, KeysOfReactions
      <4>2. CASE phase = "reply" /\ attempt.announced = "sha256" /\ message = "key"
        <5>1. server # "response"
          BY <1>1, <4>2 DEF BaseInv, InStep, OnItsWay
        <5>2. toClient # <<"switch">>
          BY <4>2
        <5> QED
          BY <4>2, <5>1, <5>2 DEF BaseInv, KeyInv, KeyComes
      <4>3. CASE phase = "key"
        BY <4>3 DEF BaseInv, KeyInv
      <4> QED
        BY <4>1, <4>2, <4>3 DEF KeyExpected
    <3> QED
      BY <3>1
  <2> QED
    BY <1>3, <2>1 DEF Promising, Encrypts, HasPassword, Right, Secure, KeyComes
<1>6. OnCourse
  BY <1>1, <1>3, <1>5 DEF CourseInv
<1> HIDE DEF message, r
<1>7. ASSUME r.phase = "in" \/ r.phase = "fastdone"
      PROVE  OnCourse'
  BY <1>1, <1>7 DEF OnCourse
<1>8. ASSUME NEW m, r.send = <<m>>, server = "plugin"
      PROVE  /\ \A then : r.phase = then => Served(then, m)'
             /\ r.phase = "last" /\ m \in {"empty", "scramble", "plain", "encrypted"}
                  /\ Acceptable(m)' => OnCourse'
             /\ r.phase = "key" /\ m = "ask" /\ Encrypts => OnCourse'
  <2>1. \A then : r.phase = then => Served(then, m)'
    BY <1>1, <1>8 DEF Served
  <2>2. ASSUME r.phase = "last", m \in {"empty", "scramble", "plain", "encrypted"},
               Acceptable(m)'
        PROVE  OnCourse'
    <3>1. Served("last", m)'
      BY <2>1, <2>2
    <3>2. ToJudge("last")'
      BY <2>2, <3>1 DEF ToJudge
    <3> QED
      BY <3>2 DEF OnCourse
  <2>3. ASSUME r.phase = "key", m = "ask", Encrypts
        PROVE  OnCourse'
    <3>1. Served("key", "ask")'
      BY <2>1, <2>3
    <3>2. ToGetKey("key")'
      BY <1>3, <2>3, <3>1 DEF ToGetKey, Encrypts, HasPassword, Secure
    <3> QED
      BY <3>2 DEF OnCourse
  <2> QED
    BY <2>1, <2>2, <2>3
\* Encrypted with the key that the server has now.
<1>9. ASSUME NEW key, r = Encrypted(key), key = "current", attempt.crypto,
             server = "plugin"
      PROVE  OnCourse'
  <2>1. r.send = <<"encrypted">> /\ r.phase = "last" /\ r.key = "current"
    BY <1>9 DEF Encrypted, Answer
  <2>2. Acceptable("encrypted")'
    BY <1>2, <2>1 DEF Acceptable
  <2> QED
    BY <1>8, <1>9, <2>1, <2>2
<1>10. CASE Greeted
  <2>1. message = "greeting" /\ server = First
    BY <1>1, <1>10 DEF Greeted, BaseInv, InStep, OnItsWay, First, message
  <2>2. r = Respond
    BY <1>10, <2>1 DEF r, Reaction, Greeted
  <2>3. PICK m : /\ r = Answer(m, "reply")
                 /\ m = CASE attempt.announced # "sha256" -> Scramble
                         [] attempt.announced = "sha256" /\ Secure -> "plain"
                         [] attempt.announced = "sha256" /\ ~Secure /\ HasPassword -> "ask"
                         [] OTHER -> "empty"
    BY <1>5, <2>2 DEF Respond, Promising, Announced
  <2>4. \/ attempt.announced # "sha256" /\ m \in {"scramble", "empty"}
        \/ attempt.announced = "sha256" /\ Secure /\ m = "plain"
        \/ attempt.announced = "sha256" /\ ~Secure /\ HasPassword /\ m = "ask"
        \/ attempt.announced = "sha256" /\ m = "empty"
    <3>1. CASE attempt.announced # "sha256"
      <4>1. m = Scramble
        BY <2>3, <3>1
      <4> QED
        BY <3>1, <4>1 DEF Scramble
    <3>2. CASE attempt.announced = "sha256"
      <4>1. CASE Secure
        BY <2>3, <3>2, <4>1
      <4>2. CASE ~Secure /\ HasPassword
        BY <2>3, <3>2, <4>2
      <4>3. CASE ~Secure /\ ~HasPassword
        BY <2>3, <3>2, <4>3
      <4> QED
        BY <4>1, <4>2, <4>3
    <3> QED
      BY <3>1, <3>2
  <2>5. phase' = "reply" /\ toServer' = <<m>>
    BY <1>1, <2>3 DEF Answer
  <2>6. CASE server = "response"
    <3>1. ToSwitch'
      BY <1>1, <1>3, <2>1, <2>5, <2>6 DEF ToSwitch, First
    <3> QED
      BY <3>1 DEF OnCourse
  <2>7. CASE server = "plugin"
    <3>1. attempt.announced = attempt.account
      BY <2>1, <2>7 DEF First
    <3>2. Served("reply", m)'
      BY <1>1, <2>5, <2>7 DEF Served
    <3>3. CASE attempt.account = "caching" /\ m = "scramble"
      <4>1. ToHurry("reply")'
        <5>1. HasPassword
          BY <1>2, <2>3, <3>1, <3>3 DEF Scramble, AnyAttempt
        <5> QED
          BY <1>3, <3>2, <3>3, <5>1 DEF ToHurry, HasPassword
      <4> QED
        BY <1>3, <3>1, <3>3, <4>1 DEF OnCourse
    <3>4. CASE attempt.account = "sha256" /\ m = "ask"
      <4>1. ToGetKey("reply")'
        BY <1>3, <2>4, <3>1, <3>2, <3>4 DEF ToGetKey, Encrypts, HasPassword, Secure
      <4> QED
        BY <1>3, <3>1, <3>4, <4>1 DEF OnCourse
    <3>5. CASE /\ ~(attempt.account = "caching" /\ m = "scramble")
               /\ ~(attempt.account = "sha256" /\ m = "ask")
      <4>1. m \in {"empty", "scramble", "plain"}
        BY <1>2, <2>4, <3>1, <3>5 DEF AnyAttempt
      <4>2. m = "plain" => Secure
        BY <1>2, <2>4 DEF AnyAttempt
      <4>3. Acceptable(m)'
        BY <1>3, <3>5, <4>1, <4>2 DEF Acceptable, Secure
      <4>4. ToJudge("reply")'
        BY <3>2, <4>1, <4>3 DEF ToJudge
      <4> QED
        BY <4>4 DEF OnCourse
    <3> QED
      BY <3>3, <3>4, <3>5
  <2> QED
    BY <2>1, <2>6, <2>7 DEF First
<1>11. CASE ToSwitch
  <2>1. /\ message = "switch" /\ phase = "reply" /\ server = "plugin"
        /\ attempt.announced # attempt.account
    BY <1>1, <1>11 DEF ToSwitch, Told, BaseInv, InStep, OnItsWay, message
  <2>2. r = Switched
    BY <2>1 DEF r, Reaction
  <2>3. CASE attempt.account = "native"
    <3>1. PICK m : m = Scramble /\ r = Answer(m, "last")
      BY <2>2, <2>3 DEF Switched
    <3>2. m \in {"scramble", "empty"}
      BY <3>1 DEF Scramble
    <3>3. Acceptable(m)'
      BY <1>3, <2>3, <3>2 DEF Acceptable
    <3> QED
      BY <1>8, <2>1, <3>1, <3>2, <3>3 DEF Answer
  <2>7. CASE attempt.account = "ed25519"
    <3>1. r = Answer("scramble", "last")
      BY <1>5, <2>2, <2>7 DEF Switched, Signed, Promising
    <3>2. Acceptable("scramble")'
      BY <1>3, <2>7 DEF Acceptable
    <3> QED
      BY <1>8, <2>1, <3>1, <3>2 DEF Answer
  <2>4. CASE attempt.account = "caching" /\ HasPassword
    <3>1. r = Answer("scramble", "fast")
      BY <2>2, <2>4 DEF Switched, Scramble
    <3>2. r.send = <<"scramble">> /\ r.phase = "fast"
      BY <3>1 DEF Answer
    <3>3. ToHurry("fast")'
      BY <1>3, <1>8, <2>1, <2>4, <3>2 DEF ToHurry, HasPassword
    <3> QED
      BY <3>3 DEF OnCourse
  <2>5. CASE attempt.account = "caching" /\ ~HasPassword
    <3>1. r = Answer("empty", "last")
      BY <2>2, <2>5 DEF Switched, Scramble
    <3>2. r.send = <<"empty">> /\ r.phase = "last"
      BY <3>1 DEF Answer
    <3> QED
      BY <1>8, <2>1, <3>2 DEF Acceptable
  <2>6. CASE attempt.account = "sha256"
    <3>1. r = SwitchToSha256
      BY <2>2, <2>6 DEF Switched
    <3>2. CASE Secure
      <4>1. r = Answer("plain", "last")
        BY <3>1, <3>2 DEF SwitchToSha256
      <4>2. Acceptable("plain")'
        BY <1>3, <3>2 DEF Acceptable, Secure
      <4> QED
        BY <1>8, <2>1, <4>1, <4>2 DEF Answer
    <3>3. CASE ~Secure /\ ~HasPassword
      <4>1. r = Answer("empty", "last")
        BY <3>1, <3>3 DEF SwitchToSha256
      <4>2. r.send = <<"empty">> /\ r.phase = "last"
        BY <4>1 DEF Answer
      <4> QED
        BY <1>8, <2>1, <4>2 DEF Acceptable
    <3>4. CASE ~Secure /\ HasPassword /\ attempt.key = "none"
      <4>1. r = Answer("ask", "key")
        BY <3>1, <3>4 DEF SwitchToSha256, AskKey
      <4> QED
        BY <1>8, <2>1, <2>6, <3>4, <4>1 DEF Answer, Encrypts
    <3>5. CASE ~Secure /\ HasPassword /\ attempt.key # "none"
      <4>1. r = Encrypted(attempt.key)
        BY <3>1, <3>5 DEF SwitchToSha256
      <4>2. attempt.crypto /\ attempt.key = "current"
        BY <1>2, <1>5, <2>1, <2>6, <3>5 DEF Promising, Encrypts, KeyComes, AnyAttempt
      <4> QED
        BY <1>9, <2>1, <4>1, <4>2
    <3> QED
      BY <3>2, <3>3, <3>4, <3>5
  <2> QED
    BY <1>2, <1>5, <2>3, <2>4, <2>5, <2>6, <2>7 DEF AnyAttempt, Promising
<1>12. ASSUME NEW then \in {"reply", "last"}, ToJudge(then)
       PROVE  OnCourse'
  <2>1. phase = then /\ toClient = <<"ok">>
    BY <1>1, <1>4, <1>12 DEF ToJudge, Served, LetIn
  <2>2. r = In
    BY <2>1 DEF r, message, Reaction
  <2> QED
    BY <1>7, <2>2 DEF In, Wait
<1>13. ASSUME NEW then \in {"reply", "key"}, ToGetKey(then),
              then = "reply" => attempt.announced = "sha256"
       PROVE  OnCourse'
  <2>1. phase = then /\ toClient = <<"key">> /\ server = "plugin" /\ Encrypts
    BY <1>4, <1>13 DEF ToGetKey, Served, Told
  <2>2. r = Encrypted("current")
    BY <1>13, <2>1 DEF r, message, Reaction, Announced, InCaching
  <2>3. attempt.crypto
    BY <1>5, <2>1 DEF Promising
  <2> QED
    BY <1>9, <2>1, <2>2, <2>3
<1>14. ASSUME NEW then \in {"reply", "fast"}, ToHurry(then),
              then = "reply" => attempt.announced = "caching"
       PROVE  OnCourse'
  <2>1. phase = then /\ InCaching /\ attempt.account = "caching" /\ HasPassword
    BY <1>4, <1>14 DEF ToHurry, Served, Told, LetIn, InCaching, Announced
  <2>2. CASE toClient = <<"fast", "ok">>
    <3>1. message = "fast"
      BY <2>2 DEF message
    <3>2. r = FastDone
      BY <2>1, <3>1 DEF r, Reaction
    <3> QED
      BY <1>7, <3>2 DEF FastDone, Wait
  <2>3. CASE toClient = <<"full">> /\ server = "plugin"
    <3>1. r = Full
      BY <2>1, <2>3 DEF r, message, Reaction
    <3>2. CASE Secure
      <4>1. r = Answer("plain", "last")
        BY <3>1, <3>2 DEF Full
      <4>2. Acceptable("plain")'
        BY <1>3, <3>2 DEF Acceptable, Secure
      <4> QED
        BY <1>8, <2>3, <4>1, <4>2 DEF Answer
    <3>3. CASE ~Secure /\ attempt.key = "none"
      <4>1. r = Answer("ask", "key")
        BY <3>1, <3>3 DEF Full, AskKey
      <4> QED
        BY <1>8, <2>1, <2>3, <3>3, <4>1 DEF Answer, Encrypts
    <3>4. CASE ~Secure /\ attempt.key # "none"
      <4>1. r = Encrypted(attempt.key)
        BY <3>1, <3>4 DEF Full
      <4>2. attempt.crypto /\ attempt.key = "current"
        BY <1>2, <1>5, <2>1, <3>4 DEF Promising, Encrypts, KeyComes, AnyAttempt
      <4> QED
        BY <1>9, <2>3, <4>1, <4>2
    <3> QED
      BY <3>2, <3>3, <3>4
  <2> QED
    BY <1>4, <1>14, <2>2, <2>3 DEF ToHurry, Served, Told, LetIn
<1>15. CASE phase = "fastdone"
  <2>1. toClient = <<"ok">>
    BY <1>15 DEF BaseInv, InStep
  <2>2. r = In
    BY <1>15, <2>1 DEF r, message, Reaction
  <2> QED
    BY <1>7, <2>2 DEF In, Wait
<1> QED
  BY <1>1, <1>6, <1>10, <1>11, <1>12, <1>13, <1>14, <1>15 DEF OnCourse

LEMMA CourseInvStays == BaseInv /\ CourseInv /\ [DriverNext]_driverVars => CourseInv'
<1> SUFFICES ASSUME BaseInv, CourseInv, [DriverNext]_driverVars,
                    phase' # "off", Promising', ~attempt'.lost
             PROVE  OnCourse'
  BY DEF CourseInv
<1>1. CASE UNCHANGED loginVars
  BY <1>1 DEF loginVars, CourseInv, Promising, Encrypts, HasPassword, Right, Secure, KeyComes, OnCourse, Greeted, First,
              ToSwitch, ToJudge, ToGetKey, ToHurry, Served, Told, LetIn, Acceptable
<1>2. CASE Greet \/ Switch \/ SendKey \/ Fast \/ Judge
  <2>1. UNCHANGED <<attempt, phase>>
    BY <1>2 DEF Greet, Switch, SendKey, Fast, Judge
  <2>2. Promising /\ OnCourse
    BY <2>1 DEF CourseInv, Promising, Encrypts, HasPassword, Right, Secure, KeyComes
  <2> QED
    BY <1>2, <2>2, CourseOfServer DEF BaseInv
<1>3. CASE React
  BY <1>3, CourseOfClient
<1>4. CASE Dial
  BY <1>4 DEF Dial, OnCourse, Greeted
<1>5. CASE LoginLost
  <2>1. attempt \in AnyAttempt
    BY <1>5 DEF LoginLost, BaseInv, AttemptTypeOK
  <2>2. attempt'.lost
    BY <1>5, <2>1 DEF LoginLost, AnyAttempt
  <2> QED
    BY <2>2
<1>6. CASE HangUp
  BY <1>6 DEF HangUp
<1> QED
  BY <1>1, <1>2, <1>3, <1>4, <1>5, <1>6, DriverStep DEF LoginStep

\* The right password gets in, on every connection and reconnect, but for what the
\* property names.
THEOREM RightGetsIn == DriverSpec => []RightPasswordGetsIn
<1>1. DriverInit => BaseInv /\ CourseInv
  <2> SUFFICES ASSUME DriverInit PROVE BaseInv /\ CourseInv
    OBVIOUS
  <2> QED
    BY BaseInit DEF DriverInit, LoginInit, CourseInv, OnCourse, Greeted
<1>2. BaseInv /\ [DriverNext]_driverVars => BaseInv'
  BY BaseInvStays
<1>3. BaseInv /\ CourseInv => RightPasswordGetsIn
  <2> SUFFICES ASSUME BaseInv, CourseInv, phase = "failed", Right, ~attempt.lost,
                      attempt.tls # "refused", attempt.account \notin {"unknown", "old"},
                      attempt.account = "ed25519" => attempt.nacl
               PROVE  Encrypts /\ (~attempt.crypto \/ attempt.key = "old")
    BY DEF RightPasswordGetsIn, Encrypts
  <2>1. ~OnCourse
    BY DEF OnCourse, Greeted, ToSwitch, ToJudge, ToGetKey, ToHurry, Served, Told, LetIn
  <2> QED
    BY <2>1 DEF CourseInv, Promising
<1> QED
  BY <1>1, <1>2, <1>3, CourseInvStays, PTL DEF DriverSpec


----------------------------------------------------------------------------
(* The session: the packets on the wire.                                   *)

Packet == [kind : Kinds, mine : BOOLEAN, pos : 0..SeqMod - 1, auto : BOOLEAN]

\* How a reply ends, and what may follow columns or a row in it.
Final == {"ok", "err", "eof", "local"}
InRows == {"row", "eof", "eof+", "err"}

\* Rows follow columns, and the end of them follows rows.
Shaped(w) ==
    \A i \in 1..Len(w) - 1 : w[i].kind \in {"cols", "row"} => w[i + 1].kind \in InRows

\* Replies are not cut short.
Whole(w) == w # <<>> => w[Len(w)].kind \in Final

\* What answers the latest command comes last, and is one reply at the most.
Ordered(w) == \A i \in 1..Len(w) - 1 : w[i].mine => w[i + 1].mine
Single(w) == \A i \in 1..Len(w) - 1 : w[i].mine => w[i].kind \notin Final

Foreign(w) == \A i \in 1..Len(w) : ~w[i].mine

LEMMA TailOfWire ==
    ASSUME NEW w \in Seq(Packet), w # <<>>
    PROVE  /\ Tail(w) \in Seq(Packet) /\ Head(w) \in Packet
           /\ Shaped(w) => Shaped(Tail(w))
           /\ Shaped(w) /\ Head(w).kind \in {"cols", "row"} /\ Tail(w) # <<>>
                => Head(Tail(w)).kind \in InRows
           /\ Whole(w) => Whole(Tail(w))
           /\ Whole(w) /\ Head(w).kind \notin Final => Tail(w) # <<>>
           /\ Ordered(w) => Ordered(Tail(w))
           /\ Ordered(w) /\ Head(w).mine /\ Tail(w) # <<>> => Head(Tail(w)).mine
           /\ Single(w) => Single(Tail(w))
           /\ Single(w) /\ Head(w).mine /\ Head(w).kind \in Final => Tail(w) = <<>>
           /\ Foreign(w) => ~Head(w).mine /\ Foreign(Tail(w))
<1> DEFINE v == Tail(w)
<1>1. /\ v \in Seq(Packet) /\ Head(w) \in Packet /\ Len(w) \in Nat /\ Len(w) > 0
      /\ Len(v) = Len(w) - 1 /\ \A i \in 1..Len(v) : v[i] = w[i + 1]
      /\ Head(w) = w[1]
  BY HeadTailProperties, EmptySeq
<1>2. v # <<>> => Len(v) > 0 /\ Head(v) = w[2] /\ v[Len(v)] = w[Len(w)]
  <2>1. v # <<>> => Len(v) \in Nat \ {0} /\ Head(v) = v[1]
    BY <1>1, EmptySeq
  <2> QED
    BY <1>1, <2>1
<1>3. v = <<>> \/ Len(w) > 1
  BY <1>1, <1>2
<1>4. Len(w) > 1 => v # <<>>
  <2>1. v = <<>> => Len(v) = 0
    BY EmptySeq
  <2> QED
    BY <1>1, <2>1
<1> HIDE DEF v
<1>5. Shaped(w) => Shaped(v)
  BY <1>1 DEF Shaped
<1>6. Shaped(w) /\ Head(w).kind \in {"cols", "row"} /\ v # <<>> => Head(v).kind \in InRows
  BY <1>1, <1>2, <1>3 DEF Shaped
<1>7. Whole(w) => Whole(v)
  BY <1>1, <1>2 DEF Whole
<1>8. Whole(w) /\ Head(w).kind \notin Final => v # <<>>
  BY <1>1, <1>2, <1>4 DEF Whole
<1>9. Ordered(w) => Ordered(v)
  BY <1>1 DEF Ordered
<1>10. Ordered(w) /\ Head(w).mine /\ v # <<>> => Head(v).mine
  BY <1>1, <1>2, <1>3 DEF Ordered
<1>11. Single(w) => Single(v)
  BY <1>1 DEF Single
<1>12. Single(w) /\ Head(w).mine /\ Head(w).kind \in Final => v = <<>>
  BY <1>1, <1>3 DEF Single
<1>13. Foreign(w) => ~Head(w).mine /\ Foreign(v)
  BY <1>1 DEF Foreign
<1> QED
  BY <1>1, <1>5, <1>6, <1>7, <1>8, <1>9, <1>10, <1>11, <1>12, <1>13 DEF v

LEMMA CutWire ==
    ASSUME NEW w \in Seq(Packet), NEW n \in 0..Len(w)
    PROVE  LET v == SubSeq(w, 1, n) IN
           /\ v \in Seq(Packet)
           /\ v # <<>> => w # <<>> /\ Head(v) = Head(w)
           /\ Shaped(w) => Shaped(v)
           /\ Ordered(w) => Ordered(v)
           /\ Single(w) => Single(v)
           /\ Foreign(w) => Foreign(v)
<1> DEFINE v == SubSeq(w, 1, n)
<1>1. Len(w) \in Nat /\ \A i \in 1..n : w[i] \in Packet
  BY ElementOfSeq
<1>2. v \in Seq(Packet) /\ Len(v) = n /\ \A i \in 1..n : v[i] = w[i]
  BY <1>1, SubSeqProperties
<1>3. v # <<>> => w # <<>> /\ Head(v) = Head(w)
  <2>1. v # <<>> => Len(v) \in Nat \ {0} /\ Head(v) = v[1]
    BY <1>2, EmptySeq
  <2>2. w # <<>> => Head(w) = w[1]
    OBVIOUS
  <2>3. w = <<>> => Len(w) = 0
    OBVIOUS
  <2> QED
    BY <1>1, <1>2, <2>1, <2>2, <2>3
<1> HIDE DEF v
<1>4. Shaped(w) => Shaped(v)
  BY <1>1, <1>2 DEF Shaped
<1>5. Ordered(w) => Ordered(v)
  BY <1>1, <1>2 DEF Ordered
<1>6. Single(w) => Single(v)
  BY <1>1, <1>2 DEF Single
<1>7. Foreign(w) => Foreign(v)
  BY <1>1, <1>2 DEF Foreign
<1> QED
  BY <1>2, <1>3, <1>4, <1>5, <1>6, <1>7 DEF v

\* Behind whole replies comes another one.
LEMMA JoinedWires ==
    ASSUME NEW w \in Seq(Packet), NEW v \in Seq(Packet), v # <<>>
    PROVE  LET u == w \o v IN
           /\ u \in Seq(Packet) /\ u # <<>>
           /\ Head(u) = IF w = <<>> THEN Head(v) ELSE Head(w)
           /\ Whole(v) => Whole(u)
           /\ Shaped(w) /\ Whole(w) /\ Shaped(v) => Shaped(u)
           /\ Ordered(w) /\ (\A i \in 1..Len(v) : v[i].mine) => Ordered(u)
           /\ Foreign(w) /\ Single(v) => Single(u)
<1> DEFINE u == w \o v
<1>1. Len(w) \in Nat /\ Len(v) \in Nat /\ Len(v) > 0 /\ Head(v) = v[1]
  BY EmptySeq
<1>2. /\ u \in Seq(Packet) /\ Len(u) = Len(w) + Len(v)
      /\ \A i \in 1..Len(w) + Len(v) : u[i] = IF i <= Len(w) THEN w[i] ELSE v[i - Len(w)]
  BY ConcatProperties
<1>3. u # <<>>
  BY <1>1, <1>2, EmptySeq
<1>4. Head(u) = IF w = <<>> THEN Head(v) ELSE Head(w)
  <2>1. Head(u) = u[1]
    BY <1>2, <1>3
  <2>2. CASE w = <<>>
    BY <1>1, <1>2, <2>1, <2>2
  <2>3. CASE w # <<>>
    <3>1. Len(w) > 0 /\ Head(w) = w[1]
      BY <2>3, EmptySeq
    <3> QED
      BY <1>1, <1>2, <2>1, <2>3, <3>1
  <2> QED
    BY <2>2, <2>3
<1>5. w # <<>> => Len(w) > 0
  BY EmptySeq
<1>6. ASSUME NEW i \in 1..Len(u) - 1
      PROVE  \/ i \in 1..Len(w) - 1 /\ u[i] = w[i] /\ u[i + 1] = w[i + 1]
             \/ w # <<>> /\ i = Len(w) /\ u[i] = w[Len(w)] /\ u[i + 1] = v[1]
             \/ /\ i - Len(w) \in 1..Len(v) - 1
                /\ u[i] = v[i - Len(w)] /\ u[i + 1] = v[(i - Len(w)) + 1]
  <2>1. i \in 1..Len(w) + Len(v) /\ i + 1 \in 1..Len(w) + Len(v)
    BY <1>1, <1>2
  <2>2. CASE i < Len(w)
    BY <1>1, <1>2, <2>1, <2>2
  <2>3. CASE i = Len(w)
    <3>1. w # <<>> /\ (i + 1) - Len(w) = 1 /\ ~(i + 1 <= Len(w))
      BY <1>1, <2>3
    <3> QED
      BY <1>1, <1>2, <2>1, <2>3, <3>1
  <2>4. CASE i > Len(w)
    <3>1. (i + 1) - Len(w) = (i - Len(w)) + 1 /\ ~(i + 1 <= Len(w)) /\ ~(i <= Len(w))
      BY <1>1, <2>4
    <3> QED
      BY <1>1, <1>2, <2>1, <2>4, <3>1
  <2> QED
    BY <1>1, <2>2, <2>3, <2>4
<1>7. u[Len(u)] = v[Len(v)]
  <2>1. Len(u) - Len(w) = Len(v) /\ ~(Len(u) <= Len(w)) /\ Len(u) \in 1..Len(w) + Len(v)
    BY <1>1, <1>2
  <2> QED
    BY <1>2, <2>1
<1> HIDE DEF u
<1>8. Whole(v) => Whole(u)
  BY <1>7 DEF Whole
<1>9. Shaped(w) /\ Whole(w) /\ Shaped(v) => Shaped(u)
  BY <1>6 DEF Shaped, Whole, Final
<1>10. Ordered(w) /\ (\A i \in 1..Len(v) : v[i].mine) => Ordered(u)
  <2>1. ASSUME Ordered(w), \A i \in 1..Len(v) : v[i].mine, NEW i \in 1..Len(u) - 1
        PROVE  u[i].mine => u[i + 1].mine
    <3>1. \A j \in 1..Len(v) - 1 : j \in 1..Len(v) /\ j + 1 \in 1..Len(v)
      BY <1>1
    <3>2. 1 \in 1..Len(v)
      BY <1>1
    <3> QED
      BY <1>6, <2>1, <3>1, <3>2 DEF Ordered
  <2> QED
    BY <2>1 DEF Ordered
<1>11. Foreign(w) /\ Single(v) => Single(u)
  <2>1. ASSUME Foreign(w), Single(v), NEW i \in 1..Len(u) - 1
        PROVE  u[i].mine => u[i].kind \notin Final
    <3>1. i \in 1..Len(w) => ~u[i].mine
      BY <1>1, <1>2, <2>1 DEF Foreign
    <3>2. Len(w) > 0 => Len(w) \in 1..Len(w)
      BY <1>1
    <3>3. \A j \in 1..Len(w) - 1 : j \in 1..Len(w)
      BY <1>1
    <3> QED
      BY <1>5, <1>6, <2>1, <3>1, <3>2, <3>3 DEF Single
  <2> QED
    BY <2>1 DEF Single
<1> QED
  BY <1>2, <1>3, <1>4, <1>8, <1>9, <1>10, <1>11 DEF u

\* A new command makes all that is unread an earlier one's.
LEMMA MarkedWire ==
    ASSUME NEW w \in Seq(Packet)
    PROVE  LET v == [i \in DOMAIN w |-> [w[i] EXCEPT !.mine = FALSE]] IN
           /\ v \in Seq(Packet) /\ Foreign(v)
           /\ v = <<>> <=> w = <<>>
           /\ w # <<>> => Head(v).kind = Head(w).kind /\ Head(v).pos = Head(w).pos
           /\ Shaped(w) => Shaped(v)
           /\ Whole(w) => Whole(v)
           /\ Ordered(v) /\ Single(v)
<1> DEFINE v == [i \in DOMAIN w |-> [w[i] EXCEPT !.mine = FALSE]]
<1>1. Len(w) \in Nat /\ DOMAIN w = 1..Len(w) /\ \A i \in 1..Len(w) : w[i] \in Packet
  BY ElementOfSeq
<1>2. \A i \in 1..Len(w) : /\ v[i] \in Packet /\ v[i].mine = FALSE
                           /\ v[i].kind = w[i].kind /\ v[i].pos = w[i].pos
  BY <1>1 DEF Packet
<1>3. v \in Seq(Packet) /\ Len(v) = Len(w)
  <2>1. v \in [1..Len(w) -> Packet]
    BY <1>1, <1>2
  <2> QED
    BY <1>1, <2>1
<1>4. v = <<>> <=> w = <<>>
  BY <1>1, <1>3, EmptySeq
<1>5. w # <<>> => Head(v).kind = Head(w).kind /\ Head(v).pos = Head(w).pos
  <2>1. w # <<>> => v # <<>> /\ Len(w) > 0 /\ Head(w) = w[1]
    BY <1>4, EmptySeq
  <2>2. v # <<>> => Head(v) = v[1]
    BY <1>3
  <2> QED
    BY <1>1, <1>2, <2>1, <2>2
<1>6. w # <<>> => Len(w) \in 1..Len(w)
  BY <1>1, EmptySeq
<1> HIDE DEF v
<1>7. Shaped(w) => Shaped(v)
  <2>1. \A i \in 1..Len(w) - 1 : i \in 1..Len(w) /\ i + 1 \in 1..Len(w)
    BY <1>1
  <2> QED
    BY <1>2, <1>3, <2>1 DEF Shaped
<1>8. Whole(w) => Whole(v)
  BY <1>2, <1>3, <1>4, <1>6 DEF Whole
<1>9. Foreign(v)
  BY <1>2, <1>3 DEF Foreign
<1>10. Ordered(v) /\ Single(v)
  <2>1. \A i \in 1..Len(v) - 1 : i \in 1..Len(v)
    BY <1>1, <1>3
  <2> QED
    BY <1>9, <2>1 DEF Foreign, Ordered, Single
<1> QED
  BY <1>3, <1>4, <1>5, <1>7, <1>8, <1>9, <1>10 DEF v

----------------------------------------------------------------------------
(* Replies.                                                                *)

\* A reply goes on after what is not its end, rows after columns.
Reply(r) ==
    /\ r \in Seq(Kinds) /\ r # <<>>
    /\ r[Len(r)] \in Final
    /\ \A i \in 1..Len(r) - 1 :
           /\ r[i] \notin Final
           /\ r[i] \in {"cols", "row"} => r[i + 1] \in InRows

LEMMA OnePacket ==
    ASSUME NEW k \in Kinds
    PROVE  <<k>> \in Seq(Kinds) /\ Len(<<k>>) = 1 /\ <<k>>[1] = k /\ <<k>> # <<>>
OBVIOUS

LEMMA OneFinal == \A k \in Final : Reply(<<k>>)
<1>1. Final \subseteq Kinds
  BY DEF Final, Kinds
<1> QED
  BY <1>1, OnePacket DEF Reply

LEMMA RowsShape ==
    ASSUME NEW n \in Nat, NEW end \in {"eof", "eof+", "err"}
    PROVE  LET r == ResultSet(n, end) IN
           /\ r \in Seq(Kinds) /\ Len(r) = n + 2 /\ r # <<>>
           /\ r[1] = "cols" /\ r[n + 2] = end
           /\ \A i \in 1..n + 1 : r[i] \notin Final /\ r[i + 1] \in InRows
<1> DEFINE r == ResultSet(n, end)
<1>1. r \in [1..n + 2 -> Kinds]
  BY DEF ResultSet, Kinds
<1>2. r \in Seq(Kinds) /\ Len(r) = n + 2
  BY <1>1
<1>3. \A i \in 1..n + 2 : r[i] = IF i = 1 THEN "cols" ELSE IF i = n + 2 THEN end ELSE "row"
  BY DEF ResultSet
<1>4. r # <<>>
  BY <1>2, EmptySeq
<1>5. r[1] = "cols" /\ r[n + 2] = end
  BY <1>3
<1>6. ASSUME NEW i \in 1..n + 1
      PROVE  r[i] \notin Final /\ r[i + 1] \in InRows
  <2>1. i \in 1..n + 2 /\ i + 1 \in 1..n + 2 /\ i # n + 2 /\ i + 1 # 1
    OBVIOUS
  <2> QED
    BY <1>3, <2>1 DEF Final, InRows
<1> QED
  BY <1>2, <1>4, <1>5, <1>6

LEMMA LastReply == \A r \in Last : Reply(r)
<1>1. ASSUME NEW n \in 0..MaxRows, NEW end \in {"eof", "err"}
      PROVE  Reply(ResultSet(n, end))
  <2>1. n \in Nat
    BY SessionAssumption
  <2>2. (n + 2) - 1 = n + 1
    BY <2>1
  <2> HIDE DEF ResultSet
  <2>3. \A i \in 1..Len(ResultSet(n, end)) - 1 :
            /\ ResultSet(n, end)[i] \notin Final
            /\ ResultSet(n, end)[i + 1] \in InRows
    BY <2>1, <2>2, RowsShape
  <2> QED
    BY <2>1, <2>3, RowsShape DEF Reply, Final
<1>2. Reply(<<"ok">>) /\ Reply(<<"err">>)
  BY OneFinal DEF Final
<1> QED
  BY <1>1, <1>2 DEF Last

\* A result set that more results follow, and they.
LEMMA ReplyGoesOn ==
    ASSUME NEW f \in Seq(Kinds), f # <<>>, NEW r, Reply(r),
           \A i \in 1..Len(f) : f[i] \notin Final,
           \A i \in 1..Len(f) - 1 : f[i] \in {"cols", "row"} => f[i + 1] \in InRows,
           f[Len(f)] \notin {"cols", "row"}
    PROVE  Reply(f \o r) /\ (f \o r)[1] = f[1]
<1> DEFINE u == f \o r
<1>1. /\ r \in Seq(Kinds) /\ r # <<>> /\ r[Len(r)] \in Final
      /\ \A i \in 1..Len(r) - 1 : /\ r[i] \notin Final
                                  /\ r[i] \in {"cols", "row"} => r[i + 1] \in InRows
  BY DEF Reply
<1>2. Len(f) \in Nat \ {0} /\ Len(r) \in Nat \ {0}
  BY <1>1, EmptySeq
<1>3. /\ u \in Seq(Kinds) /\ Len(u) = Len(f) + Len(r)
      /\ \A i \in 1..Len(f) + Len(r) : u[i] = IF i <= Len(f) THEN f[i] ELSE r[i - Len(f)]
  BY <1>1, ConcatProperties
<1>4. u # <<>> /\ u[1] = f[1]
  BY <1>2, <1>3, EmptySeq
<1>5. u[Len(u)] = r[Len(r)]
  <2>1. Len(u) - Len(f) = Len(r) /\ ~(Len(u) <= Len(f)) /\ Len(u) \in 1..Len(f) + Len(r)
    BY <1>2, <1>3
  <2> QED
    BY <1>3, <2>1
<1>6. ASSUME NEW i \in 1..Len(u) - 1
      PROVE  u[i] \notin Final /\ (u[i] \in {"cols", "row"} => u[i + 1] \in InRows)
  <2>1. i \in 1..Len(f) + Len(r) /\ i + 1 \in 1..Len(f) + Len(r)
    BY <1>2, <1>3
  <2>2. CASE i < Len(f)
    <3>1. i \in 1..Len(f) - 1 /\ i \in 1..Len(f) /\ i <= Len(f) /\ i + 1 <= Len(f)
      BY <1>2, <2>2
    <3> QED
      BY <1>3, <2>1, <3>1
  <2>3. CASE i = Len(f)
    BY <1>2, <1>3, <2>1, <2>3
  <2>4. CASE i > Len(f)
    <3>1. /\ (i + 1) - Len(f) = (i - Len(f)) + 1 /\ ~(i + 1 <= Len(f)) /\ ~(i <= Len(f))
          /\ i - Len(f) \in 1..Len(r) - 1
      BY <1>2, <1>3, <2>4
    <3> QED
      BY <1>1, <1>3, <2>1, <3>1
  <2> QED
    BY <1>2, <2>2, <2>3, <2>4
<1> HIDE DEF u
<1>7. Reply(u)
  BY <1>1, <1>3, <1>4, <1>5, <1>6 DEF Reply
<1> QED
  BY <1>4, <1>7 DEF u

LEMMA RepliesAreReplies == \A r \in Replies : Reply(r)
<1>1. ASSUME NEW r \in Last
      PROVE  Reply(<<"ok+">> \o r)
  <2>1. Reply(r)
    BY LastReply
  <2>2. "ok+" \in Kinds /\ "ok+" \notin Final /\ "ok+" \notin {"cols", "row"}
    BY DEF Kinds, Final
  <2> DEFINE f == <<"ok+">>
  <2>3. /\ f \in Seq(Kinds) /\ Len(f) = 1 /\ f[1] = "ok+" /\ f # <<>>
    BY <2>2, OnePacket
  <2> HIDE DEF f
  <2>4. Reply(f \o r)
    BY <2>1, <2>2, <2>3, ReplyGoesOn
  <2> QED
    BY <2>4 DEF f
<1>2. ASSUME NEW r \in Last
      PROVE  Reply(ResultSet(MaxRows, "eof+") \o r)
  <2>1. Reply(r) /\ MaxRows \in Nat
    BY LastReply, SessionAssumption
  <2> DEFINE f == ResultSet(MaxRows, "eof+")
  <2>2. /\ f \in Seq(Kinds) /\ Len(f) = MaxRows + 2 /\ f # <<>>
        /\ f[1] = "cols" /\ f[MaxRows + 2] = "eof+"
        /\ \A i \in 1..MaxRows + 1 : f[i] \notin Final /\ f[i + 1] \in InRows
    BY <2>1, RowsShape
  <2> HIDE DEF f
  <2>3. \A i \in 1..Len(f) - 1 : f[i] \in {"cols", "row"} => f[i + 1] \in InRows
    BY <2>1, <2>2
  <2>4. \A i \in 1..Len(f) : f[i] \notin Final
    BY <2>1, <2>2 DEF Final
  <2>5. f[Len(f)] \notin {"cols", "row"}
    BY <2>2
  <2>6. Reply(f \o r)
    BY <2>1, <2>2, <2>3, <2>4, <2>5, ReplyGoesOn
  <2> QED
    BY <2>6 DEF f
<1>3. Reply(<<"local">>)
  BY OneFinal DEF Final
<1>4. ASSUME NEW r \in Replies
      PROVE  \/ r \in Last \/ r = <<"local">>
             \/ \E last \in Last : \/ r = <<"ok+">> \o last
                                  \/ r = ResultSet(MaxRows, "eof+") \o last
  <2>1. CASE r \in {first \o last : first \in {<<"ok+">>, ResultSet(MaxRows, "eof+")},
                                  last \in Last}
    <3>1. PICK first \in {<<"ok+">>, ResultSet(MaxRows, "eof+")}, last \in Last : r = first \o last
      BY <2>1
    <3> QED
      BY <3>1
  <2> QED
    BY <2>1 DEF Replies
<1> QED
  BY <1>1, <1>2, <1>3, <1>4, LastReply

LEMMA ServersReply ==
    ASSUME NEW command, NEW r \in ReplyTo(command)
    PROVE  Reply(r)
<1>1. Reply(<<"ok">>) /\ Reply(<<"err">>)
  BY OneFinal DEF Final
<1> QED
  BY <1>1, RepliesAreReplies DEF ReplyTo

\* A reply on the wire.
LEMMA ReplyOnWire ==
    ASSUME NEW r, Reply(r), NEW v, DOMAIN v = DOMAIN r,
           \A i \in 1..Len(r) : v[i] \in Packet /\ v[i].kind = r[i] /\ v[i].mine,
           v = [i \in DOMAIN r |-> v[i]]
    PROVE  /\ v \in Seq(Packet) /\ v # <<>> /\ Head(v).kind = r[1] /\ Len(v) = Len(r)
           /\ Shaped(v) /\ Whole(v) /\ Single(v) /\ \A i \in 1..Len(v) : v[i].mine
<1>1. /\ r \in Seq(Kinds) /\ r # <<>> /\ r[Len(r)] \in Final
      /\ \A i \in 1..Len(r) - 1 : /\ r[i] \notin Final
                                  /\ r[i] \in {"cols", "row"} => r[i + 1] \in InRows
  BY DEF Reply
<1>2. Len(r) \in Nat \ {0} /\ DOMAIN r = 1..Len(r)
  BY <1>1, EmptySeq
<1>3. v \in Seq(Packet) /\ Len(v) = Len(r)
  <2>1. v \in [1..Len(r) -> Packet]
    BY <1>2
  <2> QED
    BY <1>2, <2>1
<1>4. v # <<>> /\ Head(v) = v[1]
  BY <1>2, <1>3, EmptySeq
<1>5. \A i \in 1..Len(r) - 1 : i \in 1..Len(r) /\ i + 1 \in 1..Len(r)
  BY <1>2
<1>6. 1 \in 1..Len(r) /\ Len(r) \in 1..Len(r)
  BY <1>2
<1> QED
  BY <1>1, <1>3, <1>4, <1>5, <1>6 DEF Shaped, Whole, Single

----------------------------------------------------------------------------
(* Types.                                                                  *)

\* A step of the whole driver is, for the session, one of these.
LEMMA SessionSteps ==
    ASSUME [DriverNext]_driverVars
    PROVE  \/ UNCHANGED sessionVars \/ Connected \/ Refused
           \/ ~At("dial") /\ SessionStep
BY DEF DriverNext, LoggingIn, LoggedIn, NotLoggedIn, InSession, driverVars

ChannelTypeOK ==
    /\ link \in BOOLEAN /\ sock \in BOOLEAN
    /\ wire \in Seq(Packet)
    /\ request \in {"none", "query", "ping", "names", "auto", "commit", "file"}
    /\ nextSeq \in 0..SeqMod - 1

ResultOK(r) ==
    /\ r \in [active : BOOLEAN, next : BOOLEAN, none : BOOLEAN]
    /\ r.active => ~r.next
    /\ r.none => ~r.active /\ ~r.next

ClientTypeOK ==
    /\ auto \in BOOLEAN /\ status \in BOOLEAN /\ mode \in BOOLEAN
    /\ ResultOK(result)
    /\ holder \in Cursors \cup {Nobody}
    /\ told \in [Unbuffered -> {"none", "rows", "end", "error"}]
    /\ asked \in SUBSET BOOLEAN /\ hidden \in BOOLEAN
    /\ muddled \in BOOLEAN /\ stale \in BOOLEAN

Commands == {"query", "ping", "names", "auto", "commit"}

\* Where a reply to a command is awaited, and where any packet may be.
Reads == {"first", "ok", "loaded", "skipped"}

CallType ==
    [op : {"none", "execute", "callproc", "nextset", "fetch", "close", "command",
           "autocommit", "ping", "connect"},
     c : Cursors \cup {Nobody},
     pc : {"idle", "next", "dial", "finish", "skip", "write", "rows", "nextset", "fetch"}
              \cup Reads,
     after : {"done", "skip", "next", "nextset"},
     todo : Seq(Commands),
     retry : BOOLEAN]

\* A call on its way to a command, or in the middle of one, has it.
HasCommand ==
    \/ call.pc \in {"write", "ok", "skip"}
    \/ call.pc = "finish" /\ call.op # "close"
    \/ call.pc \in Reads \cup {"rows"} /\ call.after = "skip"

CallTypeOK == call \in CallType /\ (HasCommand => call.todo # <<>>)

TypeInv == ChannelTypeOK /\ ClientTypeOK /\ CallTypeOK

\* The results there are.
LEMMA ResultTypes ==
    /\ ResultOK(None) /\ None.none /\ ~None.active /\ ~None.next
    /\ \A n \in BOOLEAN :
           /\ ResultOK(Result(FALSE, n)) /\ ResultOK(Result(TRUE, FALSE))
           /\ Result(FALSE, n).next = n /\ Result(FALSE, n).active = FALSE
           /\ Result(FALSE, n).none = FALSE
           /\ Result(TRUE, FALSE).next = FALSE /\ Result(TRUE, FALSE).active = TRUE
    /\ ResultOK(result) =>
           /\ ResultOK(Ended) /\ Ended.active = FALSE
           /\ Ended.next = result.next /\ Ended.none = result.none
<1>1. ResultOK(None) /\ None.none /\ ~None.active /\ ~None.next
  BY DEF ResultOK, None
<1>2. ASSUME NEW n \in BOOLEAN
      PROVE  /\ ResultOK(Result(FALSE, n)) /\ ResultOK(Result(TRUE, FALSE))
             /\ Result(FALSE, n).next = n /\ Result(FALSE, n).active = FALSE
             /\ Result(FALSE, n).none = FALSE
             /\ Result(TRUE, FALSE).next = FALSE /\ Result(TRUE, FALSE).active = TRUE
  BY DEF ResultOK, Result
<1>3. ASSUME ResultOK(result)
      PROVE  /\ ResultOK(Ended) /\ Ended.active = FALSE
             /\ Ended.next = result.next /\ Ended.none = result.none
  BY <1>3 DEF ResultOK, Ended
<1> QED
  BY <1>1, <1>2, <1>3

LEMMA TypesAreOK == TypeInv => SessionTypeOK
<1>1. ASSUME TypeInv
      PROVE  \A i \in DOMAIN wire : wire[i] \in Packet
  BY <1>1, ElementOfSeq DEF TypeInv, ChannelTypeOK
<1>2. ASSUME TypeInv
      PROVE  result = None \/ \E a, n \in BOOLEAN : result = Result(a, n)
  <2>1. result = [active |-> result.active, next |-> result.next, none |-> result.none]
        /\ result.active \in BOOLEAN /\ result.next \in BOOLEAN /\ result.none \in BOOLEAN
    BY <1>2 DEF TypeInv, ClientTypeOK, ResultOK
  <2>2. CASE result.none = TRUE
    <3>1. result.active = FALSE /\ result.next = FALSE
      BY <1>2, <2>1, <2>2 DEF TypeInv, ClientTypeOK, ResultOK
    <3> QED
      BY <2>1, <2>2, <3>1 DEF None
  <2>3. CASE result.none = FALSE
    <3>1. result = Result(result.active, result.next)
      BY <2>1, <2>3 DEF Result
    <3> QED
      BY <2>1, <3>1
  <2> QED
    BY <2>1, <2>2, <2>3
<1>3. ASSUME TypeInv
      PROVE  result.active => ~result.next
  BY <1>3 DEF TypeInv, ClientTypeOK, ResultOK
<1> QED
  BY <1>1, <1>2, <1>3 DEF TypeInv, ChannelTypeOK, ClientTypeOK, SessionTypeOK, Packet

LEMMA TypeInit == DriverInit => TypeInv
<1> SUFFICES ASSUME SessionInit
             PROVE  TypeInv
  BY DEF DriverInit
<1>1. ChannelTypeOK
  <2>1. <<>> \in Seq(Packet)
    BY EmptySeq
  <2>2. 0 \in 0..SeqMod - 1
    BY SessionAssumption
  <2> QED
    BY <2>1, <2>2, Zenon DEF SessionInit, ChannelTypeOK
<1>2. ClientTypeOK
  BY ResultTypes DEF SessionInit, ClientTypeOK
<1>3. <<"names", "auto">> \in Seq(Commands)
  BY DEF Commands
<1>4. CallTypeOK
  <2>1. call.pc = "dial"
    BY DEF SessionInit, Call
  <2>2. call \in CallType
    BY <1>3 DEF SessionInit, CallType, Call
  <2> QED
    BY <2>1, <2>2 DEF CallTypeOK, HasCommand, Reads
<1> QED
  BY <1>1, <1>2, <1>4 DEF TypeInv

\* What is common to the steps.
LEMMA LongTail ==
    ASSUME NEW S, NEW s \in Seq(S), Len(s) > 1
    PROVE  s # <<>> /\ Tail(s) # <<>>
<1> DEFINE t == Tail(s)
<1>1. s # <<>>
  BY EmptySeq
<1>2. Len(s) \in Nat /\ Len(t) = Len(s) - 1
  BY <1>1, HeadTailProperties
<1> HIDE DEF t
<1>3. t # <<>>
  BY <1>2, EmptySeq
<1> QED
  BY <1>1, <1>3 DEF t

LEMMA TailOfTodo ==
    ASSUME CallTypeOK
    PROVE  /\ call.todo \in Seq(Commands)
           /\ call.todo # <<>> => Tail(call.todo) \in Seq(Commands) /\ Head(call.todo) \in Commands
           /\ Len(call.todo) > 1 => call.todo # <<>> /\ Tail(call.todo) # <<>>
<1>1. call.todo \in Seq(Commands)
  BY DEF CallTypeOK, CallType
<1>2. Len(call.todo) > 1 => call.todo # <<>> /\ Tail(call.todo) # <<>>
  BY <1>1, LongTail
<1> QED
  BY <1>1, <1>2, HeadTailProperties

LEMMA NumbersStay == \A n \in Nat : nextSeq \in 0..SeqMod - 1 => Numbered(n) \in 0..SeqMod - 1
BY SessionAssumption DEF Numbered

\* The two calls nobody but the driver itself makes.
LEMMA OwnCalls ==
    /\ Idle \in CallType /\ Reconnect \in CallType
    /\ Idle.pc = "idle" /\ Reconnect.pc = "dial"
<1>1. <<>> \in Seq(Commands) /\ <<"names", "auto", "ping">> \in Seq(Commands)
  BY DEF Commands
<1> QED
  BY <1>1 DEF Idle, Reconnect, Call, CallType, Reads

LEMMA LeavingTypes ==
    ASSUME TypeInv, Leave
    PROVE  /\ CallTypeOK' /\ call'.pc \in {"idle", "dial"}
           /\ told' \in [Unbuffered -> {"none", "rows", "end", "error"}]
           /\ holder' \in Cursors \cup {Nobody}
           /\ UNCHANGED <<auto, status, mode, history>>
<1>1. call' \in {Idle, Reconnect}
  BY DEF Leave
<1>2. CallTypeOK' /\ call'.pc \in {"idle", "dial"}
  BY <1>1, OwnCalls DEF CallTypeOK, HasCommand, Reads
<1>3. told' \in [Unbuffered -> {"none", "rows", "end", "error"}]
  BY DEF Leave, Tell, TypeInv, ClientTypeOK
<1>4. holder' \in Cursors \cup {Nobody}
  BY DEF Leave, TypeInv, ClientTypeOK
<1> QED
  BY <1>2, <1>3, <1>4 DEF Leave

LEMMA Closing ==
    ASSUME ForceClose
    PROVE  /\ link' = FALSE /\ sock' = FALSE /\ wire' = <<>> /\ request' = "none"
           /\ wire' \in Seq(Packet)
BY EmptySeq DEF ForceClose

LEMMA ReceivingTypes ==
    ASSUME TypeInv, NEW kinds, Receive(kinds)
    PROVE  /\ nextSeq' \in 0..SeqMod - 1
           /\ sock /\ wire # <<>> /\ Head(wire).pos = nextSeq /\ Head(wire).kind \in kinds
           /\ Head(wire) \in Packet /\ Tail(wire) \in Seq(Packet)
<1>1. nextSeq' \in 0..SeqMod - 1
  BY NumbersStay DEF TypeInv, ChannelTypeOK, Receive
<1>2. sock /\ wire # <<>> /\ Head(wire).pos = nextSeq /\ Head(wire).kind \in kinds
  BY DEF Receive, Readable
<1> QED
  BY <1>1, <1>2, HeadTailProperties DEF TypeInv, ChannelTypeOK

LEMMA RaisingTypes ==
    ASSUME TypeInv, NEW kinds, Receive(kinds), Raise, ResultOK(result')
    PROVE  TypeInv'
<1>1. ChannelTypeOK'
  <2>1. CASE ForceClose
    BY <2>1, Closing, ReceivingTypes DEF ChannelTypeOK
  <2>2. CASE Consume
    BY <2>2, ReceivingTypes DEF ChannelTypeOK, TypeInv, Consume
  <2> QED
    BY <2>1, <2>2 DEF Raise
<1>2. Leave
  BY DEF Raise
<1>3. ClientTypeOK'
  BY <1>2, LeavingTypes DEF TypeInv, ClientTypeOK, history
<1> QED
  BY <1>1, <1>2, <1>3, LeavingTypes DEF TypeInv

\* A call goes on somewhere where it needs no command.
LEMMA GoingOnTypes ==
    ASSUME CallTypeOK, NEW p, GoTo(p),
           p \in {"idle", "next", "finish", "nextset", "fetch", "rows"} \cup Reads
               \/ (p \in {"skip", "write"} /\ call.todo # <<>>),
           p \in Reads \cup {"rows"} => \/ call.todo # <<>>
                                        \/ call.pc \in Reads \cup {"rows"} /\ p # "ok",
           p = "finish" => call.todo # <<>>
    PROVE  CallTypeOK' /\ call'.pc = p
<1>1. call' = [call EXCEPT !.pc = p] /\ call \in CallType
  BY DEF GoTo, CallTypeOK
<1>2. call' \in CallType /\ call'.pc = p /\ call'.todo = call.todo
      /\ call'.op = call.op /\ call'.after = call.after
  BY <1>1 DEF CallType
<1>3. HasCommand' => call'.todo # <<>>
  BY <1>2 DEF HasCommand, Reads, CallTypeOK
<1> QED
  BY <1>2, <1>3 DEF CallTypeOK

LEMMA DeliveringTypes ==
    ASSUME TypeInv, NEW r, ResultOK(r), Deliver(r), call.pc \in Reads \cup {"rows"}
    PROVE  /\ ResultOK(result') /\ holder' \in Cursors \cup {Nobody}
           /\ told' \in [Unbuffered -> {"none", "rows", "end", "error"}]
           /\ CallTypeOK' /\ call'.pc \in {"idle", "nextset", "skip", "next"}
<1>1. result' = r /\ call \in CallType
  BY DEF Deliver, TypeInv, CallTypeOK
<1>2. holder' \in Cursors \cup {Nobody}
  BY <1>1 DEF Deliver, CallType
<1>3. told' \in [Unbuffered -> {"none", "rows", "end", "error"}]
  BY DEF Deliver, Tell, TypeInv, ClientTypeOK
<1>4. Len(call.todo) \in Nat
  BY <1>1 DEF CallType
<1>5. \/ call' = Idle
      \/ /\ Len(call.todo) > 1
         /\ call' = [call EXCEPT !.pc = "nextset", !.todo = Tail(call.todo)]
      \/ /\ call.after \in {"skip", "next", "nextset"}
         /\ call' = [call EXCEPT !.pc = call.after]
  BY <1>1, <1>4 DEF Deliver, CallType
<1>6. ASSUME call' = Idle
      PROVE  CallTypeOK' /\ call'.pc \in {"idle", "nextset", "skip", "next"}
  BY <1>6, OwnCalls DEF CallTypeOK, HasCommand, Reads
<1>7. ASSUME Len(call.todo) > 1,
             call' = [call EXCEPT !.pc = "nextset", !.todo = Tail(call.todo)]
      PROVE  CallTypeOK' /\ call'.pc \in {"idle", "nextset", "skip", "next"}
  <2>1. Tail(call.todo) \in Seq(Commands)
    BY <1>7, TailOfTodo DEF TypeInv
  <2>2. call' \in CallType /\ call'.pc = "nextset"
    BY <1>1, <1>7, <2>1 DEF CallType
  <2> QED
    BY <2>2 DEF CallTypeOK, HasCommand, Reads
<1>8. ASSUME call.after \in {"skip", "next", "nextset"},
             call' = [call EXCEPT !.pc = call.after]
      PROVE  CallTypeOK' /\ call'.pc \in {"idle", "nextset", "skip", "next"}
  <2>1. call' \in CallType /\ call'.pc = call.after /\ call'.todo = call.todo
    BY <1>1, <1>8 DEF CallType
  <2>2. call.after = "skip" => call.todo # <<>>
    BY DEF TypeInv, CallTypeOK, HasCommand
  <2> QED
    BY <1>8, <2>1, <2>2 DEF CallTypeOK, HasCommand, Reads
<1> QED
  BY <1>1, <1>2, <1>3, <1>5, <1>6, <1>7, <1>8

\* Forgetting a result, or telling of it, keeps the types.
LEMMA TellingTypes ==
    ASSUME ClientTypeOK, NEW c, NEW what \in {"none", "rows", "end", "error"}
    PROVE  /\ Tell(c, what) => told' \in [Unbuffered -> {"none", "rows", "end", "error"}]
           /\ Forget(c) => /\ told' \in [Unbuffered -> {"none", "rows", "end", "error"}]
                           /\ holder' \in Cursors \cup {Nobody}
BY DEF Tell, Forget, ClientTypeOK

LEMMA ReadTypes == TypeInv /\ Read => TypeInv'
<1> SUFFICES ASSUME TypeInv, Read
             PROVE  TypeInv'
  OBVIOUS
<1> USE DEF TypeInv
<1>1. CASE Broken
  <2>1. ForceClose /\ Leave /\ UNCHANGED <<nextSeq, result>>
    BY <1>1 DEF Broken
  <2>2. ChannelTypeOK'
    BY <2>1, Closing DEF ChannelTypeOK
  <2>3. ClientTypeOK'
    BY <2>1, LeavingTypes DEF ClientTypeOK, history
  <2> QED
    BY <2>1, <2>2, <2>3, LeavingTypes
<1>2. CASE ErrorPacket
  <2>1. ResultOK(result')
    BY <1>2, ResultTypes DEF ErrorPacket, ClientTypeOK
  <2> QED
    BY <1>2, <2>1, RaisingTypes DEF ErrorPacket
<1>3. CASE Garbled
  <2>1. ResultOK(result')
    BY <1>3 DEF Garbled, ClientTypeOK
  <2> QED
    BY <1>3, <2>1, RaisingTypes DEF Garbled
<1>4. CASE BadRow
  <2>1. ResultOK(result')
    BY <1>4 DEF BadRow, ClientTypeOK
  <2> QED
    BY <1>4, <2>1, RaisingTypes DEF BadRow
<1>5. CASE ReadOk
  <2>1. ResultOK(Result(FALSE, More(Head(wire).kind)))
    <3>1. More(Head(wire).kind) \in BOOLEAN
      BY DEF More
    <3> QED
      BY <3>1, ResultTypes
  <2>2. /\ ResultOK(result') /\ holder' \in Cursors \cup {Nobody}
        /\ told' \in [Unbuffered -> {"none", "rows", "end", "error"}]
        /\ CallTypeOK'
    BY <1>5, <2>1, DeliveringTypes DEF ReadOk, Reads
  <2>3. ChannelTypeOK'
    BY <1>5, ReceivingTypes DEF ReadOk, ChannelTypeOK, Consume
  <2>4. status' \in BOOLEAN /\ hidden' \in BOOLEAN
    BY <1>5, ReceivingTypes DEF ReadOk, Learn, Flags, ClientTypeOK, Packet
  <2>5. ClientTypeOK'
    BY <1>5, <2>2, <2>4 DEF ReadOk, ClientTypeOK
  <2> QED
    BY <2>2, <2>3, <2>5
<1>6. CASE ReadColumns
  <2>1. ChannelTypeOK'
    BY <1>6, ReceivingTypes DEF ReadColumns, ChannelTypeOK, Consume
  <2>2. CASE Deliver(Result(TRUE, FALSE))
    <3>1. /\ ResultOK(result') /\ holder' \in Cursors \cup {Nobody}
          /\ told' \in [Unbuffered -> {"none", "rows", "end", "error"}]
          /\ CallTypeOK'
      BY <1>6, <2>2, DeliveringTypes, ResultTypes DEF ReadColumns, Reads, At
    <3> QED
      BY <1>6, <2>1, <3>1 DEF ReadColumns, ClientTypeOK, history
  <2>3. CASE GoTo("rows") /\ UNCHANGED <<result, holder, told>>
    <3>1. CallTypeOK'
      BY <1>6, <2>3, GoingOnTypes DEF ReadColumns, Reads, At
    <3> QED
      BY <1>6, <2>1, <2>3, <3>1 DEF ReadColumns, ClientTypeOK, history
  <2> QED
    BY <1>6, <2>2, <2>3 DEF ReadColumns
<1>7. CASE ReadRow
  <2>1. ChannelTypeOK'
    BY <1>7, ReceivingTypes DEF ReadRow, ChannelTypeOK, Consume
  <2> QED
    BY <1>7, <2>1 DEF ReadRow, ClientTypeOK, CallTypeOK, HasCommand, client, history
<1>8. CASE ReadEnd
  <2>1. ResultOK(Result(FALSE, More(Head(wire).kind)))
    <3>1. More(Head(wire).kind) \in BOOLEAN
      BY DEF More
    <3> QED
      BY <3>1, ResultTypes
  <2>2. /\ ResultOK(result') /\ holder' \in Cursors \cup {Nobody}
        /\ told' \in [Unbuffered -> {"none", "rows", "end", "error"}]
        /\ CallTypeOK'
    BY <1>8, <2>1, DeliveringTypes DEF ReadEnd, Reads, At
  <2>3. ChannelTypeOK'
    BY <1>8, ReceivingTypes DEF ReadEnd, ChannelTypeOK, Consume
  <2> QED
    BY <1>8, <2>2, <2>3 DEF ReadEnd, ClientTypeOK, history
<1>9. CASE SendFile
  <2>1. /\ wire # <<>> /\ wire' = Tail(wire)
        /\ request' \in {"none", "file"}
        /\ GoTo("loaded") \/ GoTo("skipped")
        /\ \E n \in 0..MaxBatch : nextSeq' = Numbered(n + 2)
    BY <1>9 DEF SendFile, Readable, FileSent
  <2>2. nextSeq' \in 0..SeqMod - 1
    <3>1. PICK n \in 0..MaxBatch : nextSeq' = Numbered(n + 2)
      BY <2>1
    <3>2. n + 2 \in Nat
      BY SessionAssumption
    <3> QED
      BY <3>1, <3>2, NumbersStay DEF ChannelTypeOK
  <2>3. Tail(wire) \in Seq(Packet)
    BY <2>1, HeadTailProperties DEF ChannelTypeOK
  <2>4. ChannelTypeOK'
    BY <1>9, <2>1, <2>2, <2>3 DEF SendFile, ChannelTypeOK
  <2>5. CallTypeOK'
    BY <1>9, <2>1, GoingOnTypes DEF SendFile, Reads, At
  <2> QED
    BY <1>9, <2>4, <2>5 DEF SendFile, ClientTypeOK, client, history
<1>10. CASE Finish
  <2>1. ResultOK(result')
    <3>1. More(Head(wire).kind) \in BOOLEAN
      BY DEF More
    <3> QED
      BY <1>10, <3>1, ResultTypes DEF Finish, ClientTypeOK
  <2>2. ChannelTypeOK'
    BY <1>10, ReceivingTypes DEF Finish, ChannelTypeOK, Consume
  <2> QED
    BY <1>10, <2>1, <2>2 DEF Finish, ClientTypeOK, CallTypeOK, HasCommand, history
<1>11. CASE FinishTimedOut
  <2>1. ResultOK(result')
    BY <1>11, ResultTypes DEF FinishTimedOut, ClientTypeOK
  <2>2. ChannelTypeOK'
    BY <1>11, ReceivingTypes DEF FinishTimedOut, ChannelTypeOK, Consume
  <2> QED
    BY <1>11, <2>1, <2>2 DEF FinishTimedOut, ClientTypeOK, CallTypeOK, HasCommand, history
<1>12. CASE CommandOk
  <2>1. ChannelTypeOK'
    BY <1>12, ReceivingTypes DEF CommandOk, ChannelTypeOK, Consume
  <2>2. call \in CallType /\ call.todo # <<>>
    BY <1>12 DEF CommandOk, CallTypeOK, HasCommand, At
  <2>3. Tail(call.todo) \in Seq(Commands)
    BY <2>2, TailOfTodo
  <2>4. call' \in CallType /\ call'.pc = "next"
    BY <1>12, <2>2, <2>3 DEF CommandOk, CallType
  <2>5. CallTypeOK'
    BY <2>4 DEF CallTypeOK, HasCommand, Reads
  <2>6. status' \in BOOLEAN /\ hidden' \in BOOLEAN
    BY <1>12, ReceivingTypes DEF CommandOk, Learn, Flags, ClientTypeOK, Packet
  <2>7. asked' \in SUBSET BOOLEAN
    BY <1>12 DEF CommandOk, AgreeOn, ClientTypeOK
  <2> QED
    BY <1>12, <2>1, <2>5, <2>6, <2>7 DEF CommandOk, ClientTypeOK
<1>13. CASE FetchRow
  <2>1. ChannelTypeOK'
    BY <1>13, ReceivingTypes DEF FetchRow, ChannelTypeOK, Consume
  <2>2. More(Head(wire).kind) \in BOOLEAN
    BY DEF More
  <2>3. /\ \E what \in {"rows", "end"} : Fetched(call.c, what)
        /\ result' = result \/ result' = Result(FALSE, More(Head(wire).kind))
    BY <1>13 DEF FetchRow
  <2>4. ResultOK(result')
    BY <2>2, <2>3, ResultTypes DEF ClientTypeOK
  <2>5. call' = Idle /\ told' \in [Unbuffered -> {"none", "rows", "end", "error"}]
    BY <2>3, TellingTypes DEF Fetched
  <2>6. CallTypeOK'
    BY <2>5, OwnCalls DEF CallTypeOK, HasCommand, Reads
  <2> QED
    BY <1>13, <2>1, <2>4, <2>5, <2>6 DEF FetchRow, ClientTypeOK, history
<1> QED
  BY <1>1, <1>2, <1>3, <1>4, <1>5, <1>6, <1>7, <1>8, <1>9, <1>10, <1>11, <1>12, <1>13 DEF Read

LEMMA ContinueTypes == TypeInv /\ Continue => TypeInv'
<1> SUFFICES ASSUME TypeInv, Continue
             PROVE  TypeInv'
  OBVIOUS
<1> USE DEF TypeInv
<1>1. CASE Finished
  <2>1. CallTypeOK'
    <3>1. CASE call.op = "close"
      BY <1>1, <3>1, GoingOnTypes DEF Finished, Reads
    <3>2. CASE call.op # "close"
      <4>1. call.todo # <<>>
        BY <1>1, <3>2 DEF Finished, At, CallTypeOK, HasCommand
      <4> QED
        BY <1>1, <3>2, <4>1, GoingOnTypes DEF Finished, Reads
    <3> QED
      BY <3>1, <3>2
  <2> QED
    BY <1>1, <2>1 DEF Finished, ChannelTypeOK, ClientTypeOK, channel, client, history
<1>2. CASE Skip
  <2>1. call \in CallType /\ call.todo # <<>>
    BY <1>2 DEF Skip, At, CallTypeOK, HasCommand
  <2>2. call' \in CallType /\ call'.todo = call.todo
    BY <1>2, <2>1 DEF Skip, CallType, Reads
  <2>3. CallTypeOK'
    BY <2>1, <2>2 DEF CallTypeOK
  <2>4. ResultOK(result') /\ holder' \in Cursors \cup {Nobody}
    BY <1>2, ResultTypes DEF Skip
  <2> QED
    BY <1>2, <2>3, <2>4 DEF Skip, ChannelTypeOK, ClientTypeOK, channel, history
<1>3. CASE Send
  <2>1. call.todo # <<>> /\ Head(call.todo) \in Commands
    BY <1>3, TailOfTodo DEF Send, At, CallTypeOK, HasCommand
  <2>2. CASE ~link /\ ForceClose /\ Leave /\ UNCHANGED <<nextSeq, result>>
    <3>1. ChannelTypeOK'
      BY <2>2, Closing DEF ChannelTypeOK
    <3> QED
      BY <2>2, <3>1, LeavingTypes DEF ClientTypeOK, history
  <2>3. CASE /\ request' = IF link THEN Head(call.todo) ELSE "none"
             /\ GoTo(IF Head(call.todo) = "query" THEN "first" ELSE "ok")
             /\ nextSeq' = 1
             /\ wire' = [i \in DOMAIN wire |-> [wire[i] EXCEPT !.mine = FALSE]]
             /\ muddled' = (muddled \/ (wire # <<>> /\ Head(wire).pos = 1))
             /\ stale' = FALSE
             /\ UNCHANGED <<link, sock, auto, client, asked, hidden>>
    <3>1. wire' \in Seq(Packet)
      BY <2>3, MarkedWire DEF ChannelTypeOK
    <3>2. nextSeq' \in 0..SeqMod - 1
      BY <2>3, SessionAssumption
    <3>3. request' \in {"none", "query", "ping", "names", "auto", "commit", "file"}
      BY <2>1, <2>3 DEF Commands
    <3>4. CallTypeOK'
      BY <2>1, <2>3, GoingOnTypes DEF Reads
    <3>5. muddled' \in BOOLEAN /\ stale' \in BOOLEAN
      BY <2>3 DEF ClientTypeOK
    <3> QED
      BY <2>3, <3>1, <3>2, <3>3, <3>4, <3>5 DEF ChannelTypeOK, ClientTypeOK, client
  <2> QED
    BY <1>3, <2>2, <2>3 DEF Send
<1>4. CASE SkipAgreed
  <2>1. call \in CallType /\ call.todo # <<>>
    BY <1>4 DEF SkipAgreed, Agreed, Upcoming, CallTypeOK
  <2>2. Tail(call.todo) \in Seq(Commands)
    BY <2>1, TailOfTodo
  <2>3. call' \in CallType /\ call'.pc = "next"
    BY <1>4, <2>1, <2>2 DEF SkipAgreed, At, CallType
  <2>4. CallTypeOK'
    BY <2>3 DEF CallTypeOK, HasCommand, Reads
  <2>5. asked' \in SUBSET BOOLEAN
    BY <1>4 DEF SkipAgreed, AgreeOn, ClientTypeOK
  <2> QED
    BY <1>4, <2>4, <2>5 DEF SkipAgreed, ChannelTypeOK, ClientTypeOK, channel, client
<1>5. CASE StartCommand
  <2>1. CallTypeOK'
    BY <1>5, GoingOnTypes DEF StartCommand, Reads
  <2> QED
    BY <1>5, <2>1 DEF StartCommand, ChannelTypeOK, ClientTypeOK, channel, client, history
<1>6. CASE NotConnected
  BY <1>6, LeavingTypes DEF NotConnected, ChannelTypeOK, ClientTypeOK, channel, history
<1>7. CASE Return
  <2>1. CallTypeOK'
    BY <1>7, OwnCalls DEF Return, CallTypeOK, HasCommand, Reads
  <2> QED
    BY <1>7, <2>1 DEF Return, ChannelTypeOK, ClientTypeOK, channel, client, history
<1>8. CASE NextSet
  <2>1. ResultOK(result')
    BY <1>8, ResultTypes DEF NextSet, ClientTypeOK
  <2>2. /\ told' \in [Unbuffered -> {"none", "rows", "end", "error"}]
        /\ holder' \in Cursors \cup {Nobody}
    <3>1. Forget(call.c) \/ UNCHANGED <<told, holder>>
      BY <1>8 DEF NextSet
    <3> QED
      BY <3>1, TellingTypes DEF ClientTypeOK
  <2>3. ASSUME call' = [call EXCEPT !.pc = "first",
                            !.after = CASE call.op = "nextset" -> "done"
                                        [] call.op = "callproc" -> "next"
                                        [] OTHER -> "nextset"]
        PROVE  CallTypeOK'
    <3>1. call \in CallType
      BY DEF CallTypeOK
    <3>2. PICK after \in {"done", "next", "nextset"} :
              call' = [call EXCEPT !.pc = "first", !.after = after]
      BY <2>3
    <3>3. call' \in CallType /\ call'.pc = "first" /\ call'.after # "skip"
      BY <3>1, <3>2 DEF CallType, Reads
    <3> QED
      BY <3>3 DEF CallTypeOK, HasCommand, Reads
  <2>4. ASSUME call' = Idle
        PROVE  CallTypeOK'
    BY <2>4, OwnCalls DEF CallTypeOK, HasCommand, Reads
  <2>5. ASSUME GoTo("next")
        PROVE  CallTypeOK'
    BY <2>5, GoingOnTypes DEF Reads
  <2>6. CallTypeOK'
    BY <1>8, <2>3, <2>4, <2>5 DEF NextSet
  <2> QED
    BY <1>8, <2>1, <2>2, <2>6 DEF NextSet, ChannelTypeOK, ClientTypeOK, channel, history
<1>9. CASE FetchNothing
  <2>1. call' = Idle /\ \E what \in {"end", "error"} : Tell(call.c, what)
    BY <1>9 DEF FetchNothing, Fetched
  <2>2. CallTypeOK'
    BY <2>1, OwnCalls DEF CallTypeOK, HasCommand, Reads
  <2>3. told' \in [Unbuffered -> {"none", "rows", "end", "error"}]
    BY <2>1, TellingTypes
  <2> QED
    BY <1>9, <2>2, <2>3 DEF FetchNothing, ChannelTypeOK, ClientTypeOK, channel, history
<1> QED
  BY <1>1, <1>2, <1>3, <1>4, <1>5, <1>6, <1>7, <1>8, <1>9 DEF Continue

\* Every call the application can make has its type, and needs no command yet.
LEMMA CallsAreCalls ==
    ASSUME NEW op \in {"execute", "callproc", "nextset", "fetch", "close", "command",
                       "autocommit", "ping", "connect"},
           NEW c \in Cursors \cup {Nobody},
           NEW pc \in {"next", "dial", "nextset", "fetch", "finish"},
           pc = "finish" => op = "close",
           NEW todo \in Seq(Commands), Begin(Call(op, c, pc, todo))
    PROVE  CallTypeOK' /\ call'.pc = pc
<1>1. call' = [op |-> op, c |-> c, pc |-> pc, after |-> "done", todo |-> todo, retry |-> FALSE]
  BY DEF Begin, Call
<1>2. call' \in CallType
  BY <1>1 DEF CallType
<1>3. ~HasCommand'
  BY <1>1 DEF HasCommand, Reads
<1> QED
  BY <1>1, <1>2, <1>3 DEF CallTypeOK

LEMMA ToSend ==
    /\ <<>> \in Seq(Commands)
    /\ \A command \in Commands : <<command>> \in Seq(Commands)
    /\ <<"names", "auto">> \in Seq(Commands)
    /\ \A n \in Nat : Queries(n) \in Seq(Commands)
<1>1. ASSUME NEW n \in Nat
      PROVE  Queries(n) \in Seq(Commands)
  <2>1. Queries(n) \in [1..n -> Commands]
    BY DEF Queries, Commands
  <2> QED
    BY <2>1
<1> QED
  BY <1>1 DEF Commands

\* A new call begins; all it changes else is the mode, or the cursor's result.
LEMMA AskKeeps ==
    ASSUME TypeInv, Ask
    PROVE  \/ Close
           \/ /\ Begin(call') /\ CallTypeOK'
              /\ call'.pc \in {"next", "dial", "nextset", "fetch", "finish"}
              /\ Same /\ mode' \in BOOLEAN
              /\ \/ UNCHANGED <<holder, told>>
                 \/ \E c \in Cursors : Forget(c)
<1> DEFINE Pcs == {"next", "dial", "nextset", "fetch", "finish"}
           Goal == /\ Begin(call') /\ CallTypeOK' /\ call'.pc \in Pcs
                   /\ Same /\ mode' \in BOOLEAN
                   /\ \/ UNCHANGED <<holder, told>>
                      \/ \E c \in Cursors : Forget(c)
<1>1. mode \in BOOLEAN
  BY DEF TypeInv, ClientTypeOK
<1>2. ASSUME NEW c \in Cursors, Execute(c)
      PROVE  Goal
  <2>1. PICK n \in 1..MaxBatch : Begin(Call("execute", c, "nextset", Queries(n)))
    BY <1>2 DEF Execute
  <2>2. Queries(n) \in Seq(Commands)
    BY ToSend, SessionAssumption
  <2>3. CallTypeOK' /\ call'.pc = "nextset"
    BY <2>1, <2>2, CallsAreCalls
  <2> QED
    BY <1>1, <1>2, <2>1, <2>3 DEF Execute, Begin
<1>3. ASSUME NEW c \in Cursors, CallProc(c)
      PROVE  Goal
  <2>1. PICK n \in 1..2 : Begin(Call("callproc", c, "next", Queries(n)))
    BY <1>3 DEF CallProc
  <2>2. Queries(n) \in Seq(Commands)
    BY ToSend
  <2>3. CallTypeOK' /\ call'.pc = "next"
    BY <2>1, <2>2, CallsAreCalls
  <2> QED
    BY <1>1, <1>3, <2>1, <2>3 DEF CallProc, Begin
<1>4. ASSUME NEW c \in Cursors, AskNextSet(c)
      PROVE  Goal
  <2>1. CallTypeOK' /\ call'.pc = "nextset"
    BY <1>4, ToSend, CallsAreCalls DEF AskNextSet
  <2> QED
    BY <1>1, <1>4, <2>1 DEF AskNextSet, Begin
<1>5. ASSUME NEW c \in Cursors, Fetch(c)
      PROVE  Goal
  <2>1. CallTypeOK' /\ call'.pc = "fetch"
    BY <1>5, ToSend, CallsAreCalls DEF Fetch
  <2> QED
    BY <1>1, <1>5, <2>1 DEF Fetch, Begin
<1>6. ASSUME NEW c \in Cursors, CloseCursor(c)
      PROVE  Goal
  <2>1. PICK pc \in {"finish", "nextset"} : Begin(Call("close", c, pc, <<>>))
    BY <1>6 DEF CloseCursor
  <2>2. CallTypeOK' /\ call'.pc = pc
    BY <2>1, ToSend, CallsAreCalls
  <2> QED
    BY <1>1, <1>6, <2>1, <2>2 DEF CloseCursor, Begin
<1>7. ASSUME NEW command \in {"commit", "names", "query"}, Command(command)
      PROVE  Goal
  <2>1. <<command>> \in Seq(Commands)
    BY ToSend DEF Commands
  <2>2. CallTypeOK' /\ call'.pc = "next"
    BY <1>7, <2>1, CallsAreCalls DEF Command
  <2> QED
    BY <1>1, <1>7, <2>2 DEF Command, Begin
<1>8. ASSUME NEW value \in BOOLEAN, Autocommit(value)
      PROVE  Goal
  <2>1. <<"auto">> \in Seq(Commands)
    BY ToSend DEF Commands
  <2>2. CallTypeOK' /\ call'.pc = "next"
    BY <1>8, <2>1, CallsAreCalls DEF Autocommit
  <2> QED
    BY <1>8, <2>2 DEF Autocommit, Begin
<1>9. ASSUME NEW reconnect \in BOOLEAN, Ping(reconnect)
      PROVE  Goal
  <2>1. CASE sock
    <3>1. call' = [Call("ping", Nobody, "next", <<"ping">>) EXCEPT !.retry = reconnect]
      BY <1>9, <2>1 DEF Ping, Begin
    <3>2. call' = [op |-> "ping", c |-> Nobody, pc |-> "next", after |-> "done",
                   todo |-> <<"ping">>, retry |-> reconnect]
      BY <3>1 DEF Call
    <3>3. <<"ping">> \in Seq(Commands)
      BY ToSend DEF Commands
    <3>4. call' \in CallType /\ call'.pc = "next"
      BY <3>2, <3>3 DEF CallType
    <3>5. CallTypeOK'
      BY <3>4 DEF CallTypeOK, HasCommand, Reads
    <3> QED
      BY <1>1, <1>9, <3>4, <3>5 DEF Ping, Begin
  <2>2. CASE ~sock
    <3>1. call' = Reconnect
      BY <1>9, <2>2 DEF Ping, Begin
    <3>2. CallTypeOK' /\ call'.pc = "dial"
      BY <3>1, OwnCalls DEF CallTypeOK, HasCommand, Reads
    <3> QED
      BY <1>1, <1>9, <3>2 DEF Ping, Begin
  <2> QED
    BY <2>1, <2>2
<1>10. ASSUME Connect
       PROVE  Goal
  <2>1. CallTypeOK' /\ call'.pc = "dial"
    BY <1>10, ToSend, CallsAreCalls DEF Connect
  <2> QED
    BY <1>1, <1>10, <2>1 DEF Connect, Begin
<1> HIDE DEF Goal
<1>11. Close \/ Goal
  BY <1>2, <1>3, <1>4, <1>5, <1>6, <1>7, <1>8, <1>9, <1>10 DEF Ask
<1> QED
  BY <1>11 DEF Goal

LEMMA AskTypes == TypeInv /\ Ask => TypeInv'
<1> SUFFICES ASSUME TypeInv, Ask
             PROVE  TypeInv'
  OBVIOUS
<1> USE DEF TypeInv
<1>1. CASE Close
  <2>1. ChannelTypeOK'
    BY <1>1, Closing DEF Close, ChannelTypeOK
  <2> QED
    BY <1>1, <2>1 DEF Close, ClientTypeOK, CallTypeOK, HasCommand, client, history
<1>2. CASE ~Close
  <2>1. /\ CallTypeOK' /\ Same /\ mode' \in BOOLEAN
        /\ UNCHANGED <<holder, told>> \/ \E c \in Cursors : Forget(c)
    BY <1>2, AskKeeps
  <2>2. /\ told' \in [Unbuffered -> {"none", "rows", "end", "error"}]
        /\ holder' \in Cursors \cup {Nobody}
    BY <2>1, TellingTypes DEF ClientTypeOK
  <2> QED
    BY <2>1, <2>2 DEF Same, ChannelTypeOK, ClientTypeOK, channel, history
<1> QED
  BY <1>1, <1>2

\* A reply as the server sends it, and the modes it shows and leaves behind.
Sent(reply, v, before, after) ==
    /\ Reply(reply) /\ v # <<>> /\ Len(v) = Len(reply) /\ Head(v).kind = reply[1]
    /\ Shaped(v) /\ Whole(v) /\ Single(v) /\ \A i \in 1..Len(v) : v[i].mine
    /\ \A i \in 1..Len(v) :
           /\ v[i].kind = reply[i]
           /\ reply[i] \in {"ok", "ok+"} =>
                  v[i].auto = IF i = Len(reply) THEN after ELSE before
    /\ wire' = wire \o v
    /\ before \in IF Len(reply) = 1 THEN {auto} ELSE ModesAfter(reply[1], auto)
    /\ after \in ModesAfter(reply[Len(reply)], before)
    /\ auto' = after
    /\ asked' = asked \cup {after}
    /\ hidden' = (hidden \/ (reply[Len(reply)] = "err" /\ after # before))

LEMMA ModesAreModes ==
    ASSUME mode \in BOOLEAN, NEW before \in BOOLEAN, NEW kind
    PROVE  ModesAfter(kind, before) \subseteq BOOLEAN
BY DEF ModesAfter

LEMMA ServeWire ==
    ASSUME ChannelTypeOK, ClientTypeOK, Serve
    PROVE  \E reply \in ReplyTo(request) : \E before, after \in BOOLEAN : \E v \in Seq(Packet) :
               Sent(reply, v, before, after)
<1>1. PICK reply \in ReplyTo(request) :
      \E before \in IF Len(reply) = 1 THEN {auto} ELSE ModesAfter(reply[1], auto) :
      \E after \in ModesAfter(reply[Len(reply)], before) :
        /\ wire' = wire \o Packets(reply, before, after)
        /\ auto' = after
        /\ asked' = asked \cup {after}
        /\ hidden' = (hidden \/ (reply[Len(reply)] = "err" /\ after # before))
  BY DEF Serve
<1>2. PICK before \in IF Len(reply) = 1 THEN {auto} ELSE ModesAfter(reply[1], auto) :
      \E after \in ModesAfter(reply[Len(reply)], before) :
        /\ wire' = wire \o Packets(reply, before, after)
        /\ auto' = after
        /\ asked' = asked \cup {after}
        /\ hidden' = (hidden \/ (reply[Len(reply)] = "err" /\ after # before))
  BY <1>1
<1>3. PICK after \in ModesAfter(reply[Len(reply)], before) :
        /\ wire' = wire \o Packets(reply, before, after)
        /\ auto' = after
        /\ asked' = asked \cup {after}
        /\ hidden' = (hidden \/ (reply[Len(reply)] = "err" /\ after # before))
  BY <1>2
<1>4. before \in BOOLEAN /\ after \in BOOLEAN
  <2>1. auto \in BOOLEAN /\ mode \in BOOLEAN
    BY DEF ClientTypeOK
  <2>2. before \in BOOLEAN
    BY <2>1, ModesAreModes
  <2> QED
    BY <1>3, <2>1, <2>2, ModesAreModes
<1> DEFINE v == Packets(reply, before, after)
<1>5. Reply(reply)
  BY ServersReply
<1>6. reply \in Seq(Kinds)
  BY <1>5 DEF Reply
<1>7. ASSUME NEW i \in 1..Len(reply)
      PROVE  /\ v[i] \in Packet /\ v[i].kind = reply[i] /\ v[i].mine
             /\ reply[i] \in {"ok", "ok+"} =>
                    v[i].auto = IF i = Len(reply) THEN after ELSE before
  <2>1. reply[i] \in Kinds /\ i \in DOMAIN reply /\ i \in Nat
    BY <1>6, ElementOfSeq
  <2>2. i % SeqMod \in 0..SeqMod - 1
    BY <2>1, SessionAssumption
  <2> DEFINE flag == IF reply[i] \in {"ok", "ok+"}
                       THEN IF i = Len(reply) THEN after ELSE before
                       ELSE FALSE
             number == IF request = "file" THEN nextSeq ELSE i % SeqMod
  <2>3. v[i] = [kind |-> reply[i], mine |-> TRUE, pos |-> number, auto |-> flag]
    BY <2>1 DEF Packets
  <2>4. flag \in BOOLEAN /\ number \in 0..SeqMod - 1
    BY <1>4, <2>2 DEF ChannelTypeOK
  <2>5. reply[i] \in {"ok", "ok+"} => flag = IF i = Len(reply) THEN after ELSE before
    OBVIOUS
  <2> HIDE DEF v, flag, number
  <2> QED
    BY <2>1, <2>3, <2>4, <2>5 DEF Packet
<1>8. DOMAIN v = DOMAIN reply /\ v = [i \in DOMAIN reply |-> v[i]]
  BY DEF Packets
<1> HIDE DEF v
<1>9. \A i \in 1..Len(reply) : v[i] \in Packet /\ v[i].kind = reply[i] /\ v[i].mine
  BY <1>7
<1>10. /\ v \in Seq(Packet) /\ v # <<>> /\ Head(v).kind = reply[1] /\ Len(v) = Len(reply)
      /\ Shaped(v) /\ Whole(v) /\ Single(v) /\ \A i \in 1..Len(v) : v[i].mine
  BY <1>5, <1>8, <1>9, ReplyOnWire
<1>11. wire' = wire \o v
  BY <1>3 DEF v
<1>12. Sent(reply, v, before, after)
  BY <1>2, <1>3, <1>5, <1>7, <1>10, <1>11 DEF Sent
<1> QED
  BY <1>4, <1>10, <1>12

LEMMA TypeStays == TypeInv /\ [DriverNext]_driverVars => TypeInv'
<1> SUFFICES ASSUME TypeInv, [DriverNext]_driverVars
             PROVE  TypeInv'
  OBVIOUS
<1> USE DEF TypeInv
<1>1. CASE UNCHANGED sessionVars
  BY <1>1 DEF sessionVars, channel, client, history, ChannelTypeOK, ClientTypeOK, CallTypeOK, HasCommand
<1>2. CASE Connected
  <2>1. NewSession /\ status' = auto'
    BY <1>2 DEF Connected
  <2>2. ChannelTypeOK'
    BY <2>1, EmptySeq DEF NewSession, ChannelTypeOK
  <2>3. CallTypeOK'
    BY <2>1, GoingOnTypes DEF NewSession, Reads
  <2>4. stale' \in BOOLEAN
    BY <2>1 DEF NewSession
  <2>5. ClientTypeOK'
    BY <2>1, <2>4 DEF NewSession, ClientTypeOK
  <2> QED
    BY <2>2, <2>3, <2>5
<1>3. CASE Refused
  <2>1. ChannelTypeOK'
    BY <1>3, Closing DEF Refused, ChannelTypeOK
  <2>2. CallTypeOK'
    BY <1>3, OwnCalls DEF Refused, CallTypeOK, HasCommand, Reads
  <2> QED
    BY <1>3, <2>1, <2>2 DEF Refused, ClientTypeOK, client, history
<1>4. CASE Serve
  <2>1. PICK reply \in ReplyTo(request), before \in BOOLEAN, after \in BOOLEAN,
             v \in Seq(Packet) :
          Sent(reply, v, before, after)
    BY <1>4, ServeWire
  <2>2. wire' \in Seq(Packet)
    BY <2>1, ConcatProperties DEF ChannelTypeOK, Sent
  <2>3. auto' \in BOOLEAN /\ asked' \in SUBSET BOOLEAN /\ hidden' \in BOOLEAN
    BY <2>1 DEF ClientTypeOK, Sent
  <2> QED
    BY <1>4, <2>2, <2>3 DEF Serve, ChannelTypeOK, ClientTypeOK, CallTypeOK, HasCommand, client
<1>5. CASE LinkLost
  <2>1. wire' \in Seq(Packet)
    BY <1>5, CutWire DEF LinkLost, ChannelTypeOK
  <2> QED
    BY <1>5, <2>1 DEF LinkLost, ChannelTypeOK, ClientTypeOK, CallTypeOK, HasCommand, client
<1> QED
  BY <1>1, <1>2, <1>3, <1>4, <1>5, SessionSteps, ReadTypes, ContinueTypes, AskTypes DEF SessionStep

\* The types of all that makes up a connection, with the calls in progress.
THEOREM SessionTypes == DriverSpec => []SessionTypeOK
BY TypeInit, TypeStays, TypesAreOK, PTL DEF DriverSpec

----------------------------------------------------------------------------
(* The invariant.                                                          *)

\* Nothing comes without a connection, and no result is left behind where a reply
\* is awaited.
ChannelInv ==
    /\ ~sock => ~link /\ wire = <<>>
    /\ ~link => request = "none"
    /\ stale => wire = <<>> /\ request = "none"
    /\ call.pc \in Reads \cup {"rows", "write"} => result = None

\* A call, or a result, in the middle of the rows.
AmidRows == At("rows") \/ result.active

\* Replies come whole unless the connection is lost; a call in the middle of one
\* has the rest of it before it, and who waits for a reply will get it.
ShapeInv ==
    /\ Shaped(wire)
    /\ link => Whole(wire)
    /\ AmidRows /\ wire # <<>> => Head(wire).kind \in InRows
    /\ link /\ ~stale /\ (AmidRows \/ result.next) => wire # <<>>
    /\ link /\ ~stale /\ call.pc \in Reads => wire # <<>> \/ request # "none"

\* The pending command is that of the call.
Pending ==
    \/ request = "query" /\ call.pc = "first"
    \/ request = "file" /\ call.pc \in {"loaded", "skipped"}
    \/ request = Head(call.todo) /\ request # "query" /\ call.pc = "ok"

\* A result read to its end, the last of its reply.
Complete == ~result.none /\ ~result.active /\ ~result.next

\* What an earlier command left unread comes before the reply to the latest, and
\* is in the way of it.
OwnInv ==
    /\ Ordered(wire)
    /\ ~muddled =>
        /\ wire # <<>> /\ ~Head(wire).mine =>
               call.pc \in {"first", "ok"} /\ nextSeq = 1 /\ Head(wire).pos # 1
        /\ request # "none" => Pending /\ Foreign(wire)
        /\ Single(wire)
        /\ Complete => wire = <<>>

WireInv == ChannelInv /\ ShapeInv /\ OwnInv

LEMMA NoWire ==
    Shaped(<<>>) /\ Whole(<<>>) /\ Ordered(<<>>) /\ Single(<<>>) /\ Foreign(<<>>)
<1>1. Len(<<>>) = 0
  OBVIOUS
<1> QED
  BY <1>1 DEF Shaped, Whole, Ordered, Single, Foreign

\* After the socket is closed.
LEMMA ClosedWire ==
    ASSUME ForceClose, call'.pc \notin Reads \cup {"rows", "write"}
    PROVE  WireInv'
<1>1. ~link' /\ ~sock' /\ wire' = <<>> /\ request' = "none"
  BY DEF ForceClose
<1>2. Shaped(wire)' /\ Ordered(wire)' /\ Single(wire)'
  BY <1>1, NoWire DEF Shaped, Ordered, Single
<1>3. ChannelInv'
  BY <1>1 DEF ChannelInv
<1>4. ShapeInv' /\ OwnInv'
  BY <1>1, <1>2 DEF ShapeInv, OwnInv
<1> QED
  BY <1>3, <1>4 DEF WireInv

\* Where no reply is awaited, nothing is pending and nothing foreign is unread.
LEMMA Between ==
    ASSUME WireInv, call.pc \notin Reads, ~muddled
    PROVE  /\ request = "none"
           /\ wire # <<>> => Head(wire).mine
BY DEF WireInv, OwnInv, Pending, Reads

\* A step that leaves the channel alone.
LEMMA QuietWire ==
    ASSUME WireInv, TypeInv,
           UNCHANGED <<link, wire, request, sock, nextSeq, muddled, stale>>,
           call.pc \notin Reads \cup {"rows"},
           call'.pc \notin {"ok", "rows", "loaded", "skipped"},
           result' = result \/ result' = None,
           call'.pc \in {"first", "write"} => result' = None,
           call'.pc = "first" => result.next
    PROVE  WireInv'
<1>1. ChannelInv'
  BY DEF WireInv, ChannelInv, Reads
<1>2. result'.active => result.active
  BY ResultTypes
<1>3. result'.next => result.next
  BY ResultTypes
<1>4. ShapeInv'
  <2>1. Shaped(wire)' /\ (link' => Whole(wire)')
    BY DEF WireInv, ShapeInv, Shaped, Whole
  <2>2. AmidRows' => AmidRows
    BY <1>2 DEF AmidRows, At
  <2>3. link' /\ ~stale' /\ call'.pc \in Reads => wire' # <<>>
    BY DEF WireInv, ShapeInv, Reads
  <2> QED
    BY <1>3, <2>1, <2>2, <2>3 DEF WireInv, ShapeInv
<1>5. OwnInv'
  <2>1. Ordered(wire)' /\ (~muddled => Single(wire)')
    BY DEF WireInv, OwnInv, Ordered, Single
  <2>2. Complete' => Complete
    BY ResultTypes DEF Complete
  <2>3. ~muddled => request' = "none" /\ (wire' # <<>> => Head(wire').mine)
    BY Between
  <2> QED
    BY <2>1, <2>2, <2>3 DEF WireInv, OwnInv
<1> QED
  BY <1>1, <1>4, <1>5 DEF WireInv

\* What can be read answers the latest command, unless the numbers have come round.
LEMMA ReadIsMine ==
    ASSUME WireInv, TypeInv, Readable, ~muddled
    PROVE  Head(wire).mine /\ request = "none"
<1>1. Head(wire).mine
  BY DEF WireInv, OwnInv, Readable
<1>2. ~Foreign(wire)
  BY <1>1, TailOfWire DEF Readable, TypeInv, ChannelTypeOK
<1> QED
  BY <1>1, <1>2 DEF WireInv, OwnInv

\* A step that takes a packet off the wire.
LEMMA ConsumingWire ==
    ASSUME WireInv, TypeInv, Readable, Consume,
           UNCHANGED <<muddled, stale>>,
           call'.pc \notin Reads \cup {"write"},
           call'.pc = "rows" => result' = None,
           call'.pc = "rows" \/ result'.active => Head(wire).kind \in {"cols", "row"},
           result'.next => Head(wire).kind \notin Final,
           Complete' => Head(wire).kind \in Final
    PROVE  WireInv'
<1> DEFINE w == Tail(wire)
<1>1. wire \in Seq(Packet) /\ wire # <<>> /\ sock
  BY DEF Readable, TypeInv, ChannelTypeOK
<1>2. wire' = w /\ link' = link /\ request' = request /\ sock' = sock
  BY DEF Consume
<1>3. /\ Shaped(wire) => Shaped(w)
      /\ Shaped(wire) /\ Head(wire).kind \in {"cols", "row"} /\ w # <<>>
           => Head(w).kind \in InRows
      /\ Whole(wire) => Whole(w)
      /\ Whole(wire) /\ Head(wire).kind \notin Final => w # <<>>
      /\ Ordered(wire) => Ordered(w)
      /\ Ordered(wire) /\ Head(wire).mine /\ w # <<>> => Head(w).mine
      /\ Single(wire) => Single(w)
      /\ Single(wire) /\ Head(wire).mine /\ Head(wire).kind \in Final => w = <<>>
  BY <1>1, TailOfWire
<1>4. Shaped(wire)' <=> Shaped(w)
  BY <1>2 DEF Shaped
<1>5. Whole(wire)' <=> Whole(w)
  BY <1>2 DEF Whole
<1>6. (Ordered(wire)' <=> Ordered(w)) /\ (Single(wire)' <=> Single(w))
  BY <1>2 DEF Ordered, Single
<1> HIDE DEF w
<1>7. ~stale
  BY <1>1 DEF WireInv, ChannelInv
<1>8. ChannelInv'
  BY <1>1, <1>2, <1>7 DEF WireInv, ChannelInv
<1>9. ShapeInv'
  <2>1. AmidRows' => Head(wire).kind \in {"cols", "row"}
    BY DEF AmidRows, At
  <2>2. AmidRows' \/ result'.next => Head(wire).kind \notin Final
    BY <2>1 DEF Final
  <2> QED
    BY <1>2, <1>3, <1>4, <1>5, <1>7, <2>1, <2>2 DEF WireInv, ShapeInv
<1>10. ~muddled => Head(wire).mine /\ request = "none"
  BY ReadIsMine
<1>11. OwnInv'
  BY <1>2, <1>3, <1>6, <1>10 DEF WireInv, OwnInv
<1> QED
  BY <1>8, <1>9, <1>11 DEF WireInv

\* What is delivered follows a packet that was read.
LEMMA RaisingWire ==
    ASSUME WireInv, TypeInv, NEW kinds, Receive(kinds), Raise,
           \/ result' = Ended /\ (result = None \/ result.active) /\ Head(wire).kind = "err"
           \/ result' = result /\ Head(wire).kind = "row" /\ (result = None \/ result.active)
           \/ result' = result /\ result = None
    PROVE  WireInv'
<1>1. Readable /\ Head(wire).kind \in kinds
  BY DEF Receive
<1>2. Leave
  BY DEF Raise
<1>3. call'.pc \in {"idle", "dial"} /\ UNCHANGED <<muddled, stale>>
  BY <1>2, LeavingTypes DEF history
<1>4. CASE ForceClose
  BY <1>3, <1>4, ClosedWire DEF Reads
<1>5. CASE Consume
  <2>1. ResultOK(result) /\ None.none /\ ~None.active /\ ~None.next
    BY ResultTypes DEF TypeInv, ClientTypeOK
  <2>2. result'.active => Head(wire).kind \in {"cols", "row"}
    BY <2>1, ResultTypes
  <2>3. ~result'.next
    BY <2>1, ResultTypes DEF ResultOK
  <2>4. Complete' => Head(wire).kind \in Final
    BY <2>1, ResultTypes DEF Complete, Final
  <2> QED
    BY <1>1, <1>3, <1>5, <2>2, <2>3, <2>4, ConsumingWire DEF Reads
<1> QED
  BY <1>4, <1>5 DEF Raise

\* Where rows are read, nothing but the rest of a result comes.
LEMMA RowsFollow ==
    ASSUME WireInv, AmidRows, Readable
    PROVE  Head(wire).kind \in InRows
BY DEF WireInv, ShapeInv, Readable

\* The result of a call that reads: none yet, or an active one.
LEMMA ResultWhenReading ==
    ASSUME WireInv, Reading
    PROVE  result = None \/ (result.active /\ call.pc \in {"finish", "fetch"})
BY DEF WireInv, ChannelInv, Reading, Reads, At

LEMMA ReadWire == WireInv /\ TypeInv /\ Read => WireInv'
<1> SUFFICES ASSUME WireInv, TypeInv, Read
             PROVE  WireInv'
  OBVIOUS
<1>0. ResultOK(result) /\ \A kind : More(kind) \in BOOLEAN
  BY DEF TypeInv, ClientTypeOK, More
<1>1. CASE Broken
  <2>1. ForceClose /\ Leave
    BY <1>1 DEF Broken
  <2> QED
    BY <2>1, LeavingTypes, ClosedWire DEF Reads
<1>2. CASE ErrorPacket
  <2>1. Reading /\ Receive({"err"}) /\ result' = Ended /\ Raise
    BY <1>2 DEF ErrorPacket
  <2> QED
    BY <2>1, ResultWhenReading, RaisingWire DEF Receive
<1>3. CASE Garbled
  <2>1. /\ Reading /\ Receive((Kinds \ {"err"}) \ Expected)
        /\ result' = result /\ Raise
    BY <1>3 DEF Garbled
  <2>2. Readable /\ Head(wire).kind \in (Kinds \ {"err"}) \ Expected
    BY <2>1 DEF Receive
  <2>3. ~At("rows") /\ ~result.active
    <3>1. CASE At("rows")
      <4>1. Expected = {"row", "eof", "eof+"}
        BY <3>1 DEF Expected, At
      <4> QED
        BY <2>2, <3>1, <4>1, RowsFollow DEF AmidRows, InRows
    <3>2. CASE result.active
      <4>1. Head(wire).kind \in InRows /\ call.pc \in {"finish", "fetch"}
        BY <2>1, <2>2, <3>2, RowsFollow, ResultWhenReading, ResultTypes DEF AmidRows
      <4>2. Expected \in {Kinds \ {"err"}, {"row", "eof", "eof+"}}
        BY <4>1 DEF Expected, At
      <4> QED
        BY <2>2, <4>1, <4>2 DEF InRows
    <3> QED
      BY <3>1, <3>2
  <2>4. result = None
    BY <2>1, <2>3, ResultWhenReading
  <2> QED
    BY <2>1, <2>2, <2>4, RaisingWire
<1>4. CASE BadRow
  <2>1. Reading /\ Receive({"row"}) /\ result' = result /\ Raise
    BY <1>4 DEF BadRow
  <2> QED
    BY <2>1, ResultWhenReading, RaisingWire DEF Receive
<1>5. CASE ReadOk
  <2>1. /\ Readable /\ Head(wire).kind \in {"ok", "ok+"} /\ Consume
        /\ Deliver(Result(FALSE, More(Head(wire).kind)))
        /\ call.pc \in Reads /\ UNCHANGED <<muddled, stale>>
    BY <1>5 DEF ReadOk, Receive, Reads
  <2>2. call'.pc \in {"idle", "nextset", "skip", "next"}
    BY <1>0, <2>1, DeliveringTypes, ResultTypes
  <2>3. result' = Result(FALSE, More(Head(wire).kind))
    BY <2>1 DEF Deliver
  <2>4. /\ ~result'.active /\ result'.next = More(Head(wire).kind)
        /\ Complete' => ~More(Head(wire).kind)
    BY <1>0, <2>3, ResultTypes DEF Complete
  <2>5. Head(wire).kind \in Final <=> ~More(Head(wire).kind)
    BY <2>1 DEF More, Final
  <2> QED
    BY <2>1, <2>2, <2>4, <2>5, ConsumingWire DEF Reads
<1>6. CASE ReadColumns
  <2>1. /\ Readable /\ Head(wire).kind = "cols" /\ Consume
        /\ call.pc = "first" /\ result = None
        /\ UNCHANGED <<muddled, stale>>
    BY <1>6 DEF ReadColumns, Receive, history, At, WireInv, ChannelInv, Reads
  <2>2. \/ Deliver(Result(TRUE, FALSE))
        \/ GoTo("rows") /\ result' = result
    BY <1>6 DEF ReadColumns
  <2>3. CASE Deliver(Result(TRUE, FALSE))
    <3>1. call'.pc \in {"idle", "nextset", "skip", "next"}
      BY <2>1, <2>3, DeliveringTypes, ResultTypes DEF Reads
    <3>2. result' = Result(TRUE, FALSE)
      BY <2>3 DEF Deliver
    <3>3. result'.active /\ ~result'.next
      BY <3>2, ResultTypes
    <3>4. ~Complete'
      BY <3>3 DEF Complete
    <3> QED
      BY <2>1, <3>1, <3>3, <3>4, ConsumingWire DEF Reads
  <2>4. CASE GoTo("rows") /\ result' = result
    <3>1. call'.pc = "rows"
      BY <2>1, <2>4, GoingOnTypes DEF TypeInv, Reads
    <3>2. ~result'.active /\ ~result'.next /\ ~Complete'
      BY <2>1, <2>4, ResultTypes DEF Complete
    <3> QED
      BY <2>1, <2>4, <3>1, <3>2, ConsumingWire DEF Reads
  <2> QED
    BY <2>2, <2>3, <2>4
<1>7. CASE ReadRow
  <2>1. /\ Readable /\ Head(wire).kind = "row" /\ Consume
        /\ call' = call /\ call.pc = "rows" /\ result = None /\ result' = None
        /\ UNCHANGED <<muddled, stale>>
    BY <1>7 DEF ReadRow, Receive, client, history, At, WireInv, ChannelInv, Reads
  <2>2. ~result'.active /\ ~result'.next /\ ~Complete'
    BY <2>1, ResultTypes DEF Complete
  <2> QED
    BY <2>1, <2>2, ConsumingWire DEF Reads
<1>8. CASE ReadEnd
  <2>1. /\ Readable /\ Head(wire).kind \in {"eof", "eof+"} /\ Consume
        /\ Deliver(Result(FALSE, More(Head(wire).kind)))
        /\ call.pc = "rows"
        /\ UNCHANGED <<muddled, stale>>
    BY <1>8 DEF ReadEnd, Receive, history, At
  <2>2. call'.pc \in {"idle", "nextset", "skip", "next"}
    BY <1>0, <2>1, DeliveringTypes, ResultTypes
  <2>3. result' = Result(FALSE, More(Head(wire).kind))
    BY <2>1 DEF Deliver
  <2>4. /\ ~result'.active /\ result'.next = More(Head(wire).kind)
        /\ Complete' => ~More(Head(wire).kind)
    BY <1>0, <2>3, ResultTypes DEF Complete
  <2>5. Head(wire).kind \in Final <=> ~More(Head(wire).kind)
    BY <2>1 DEF More, Final
  <2> QED
    BY <2>1, <2>2, <2>4, <2>5, ConsumingWire DEF Reads
<1>9. CASE SendFile
  <2>1. /\ call.pc = "first" /\ Readable /\ Head(wire).kind = "local"
        /\ wire' = Tail(wire) /\ request' = IF link THEN "file" ELSE "none"
        /\ call'.pc \in {"loaded", "skipped"}
        /\ UNCHANGED <<link, sock, result, muddled, stale>>
        /\ result = None
    <3>1. GoTo("loaded") \/ GoTo("skipped")
      BY <1>9 DEF SendFile
    <3>2. call'.pc \in {"loaded", "skipped"}
      BY <1>9, <3>1, GoingOnTypes DEF SendFile, At, Reads, TypeInv
    <3> QED
      BY <1>9, <3>2 DEF SendFile, FileSent, client, history, At, WireInv, ChannelInv, Reads
  <2> DEFINE w == Tail(wire)
  <2>2. /\ wire \in Seq(Packet) /\ wire # <<>> /\ sock
        /\ Shaped(wire) => Shaped(w)
        /\ Whole(wire) => Whole(w)
        /\ Ordered(wire) => Ordered(w)
        /\ Single(wire) => Single(w)
        /\ Single(wire) /\ Head(wire).mine /\ Head(wire).kind \in Final => w = <<>>
    <3>1. wire \in Seq(Packet) /\ wire # <<>> /\ sock
      BY <2>1 DEF Readable, TypeInv, ChannelTypeOK
    <3> QED
      BY <3>1, TailOfWire
  <2>3. wire' = w
    BY <2>1
  <2> HIDE DEF w
  <2>4. /\ Shaped(wire)' <=> Shaped(w)
        /\ Whole(wire)' <=> Whole(w)
        /\ Ordered(wire)' <=> Ordered(w)
        /\ Single(wire)' <=> Single(w)
        /\ Foreign(wire)' <=> Foreign(w)
    BY <2>3 DEF Shaped, Whole, Ordered, Single, Foreign
  <2>5. ~muddled => w = <<>> /\ Head(wire).mine
    BY <2>1, <2>2, ReadIsMine DEF WireInv, OwnInv, Final
  <2>6. ChannelInv'
    BY <2>1, <2>2 DEF WireInv, ChannelInv, Reads
  <2>7. ShapeInv'
    <3>1. ~AmidRows' /\ ~result'.next
      BY <2>1, ResultTypes DEF AmidRows, At
    <3> QED
      BY <2>1, <2>2, <2>4, <3>1 DEF WireInv, ShapeInv
  <2>8. OwnInv'
    <3>1. ~Complete'
      BY <2>1, ResultTypes DEF Complete
    <3>2. request' # "none" => Pending'
      BY <2>1 DEF Pending
    <3> QED
      BY <2>1, <2>2, <2>3, <2>4, <2>5, <3>1, <3>2, NoWire DEF WireInv, OwnInv
  <2> QED
    BY <2>6, <2>7, <2>8 DEF WireInv
<1>10. CASE Finish
  <2>1. /\ Readable /\ Consume /\ call' = call /\ call.pc = "finish" /\ result.active
        /\ result' = IF Head(wire).kind \in {"eof", "eof+"}
                        THEN Result(FALSE, More(Head(wire).kind))
                        ELSE result
        /\ UNCHANGED <<muddled, stale>>
        /\ Head(wire).kind \in Expected
    BY <1>10 DEF Finish, Receive, history, At
  <2>2. Head(wire).kind \in {"row", "eof", "eof+"}
    <3>1. Head(wire).kind \in InRows
      BY <2>1, RowsFollow DEF AmidRows
    <3>2. Expected = Kinds \ {"err"}
      BY <2>1 DEF Expected, At
    <3> QED
      BY <2>1, <3>1, <3>2 DEF InRows
  <2>3. CASE Head(wire).kind = "row"
    <3>1. ~result'.next /\ ~Complete'
      BY <1>0, <2>1, <2>3 DEF ResultOK, Complete
    <3> QED
      BY <2>1, <2>3, <3>1, ConsumingWire DEF Reads
  <2>4. CASE Head(wire).kind \in {"eof", "eof+"}
    <3>1. /\ ~result'.active /\ result'.next = More(Head(wire).kind)
          /\ Complete' => ~More(Head(wire).kind)
      BY <1>0, <2>1, <2>4, ResultTypes DEF Complete
    <3>2. Head(wire).kind \in Final <=> ~More(Head(wire).kind)
      BY <2>4 DEF More, Final
    <3> QED
      BY <2>1, <2>4, <3>1, <3>2, ConsumingWire DEF Reads
  <2> QED
    BY <2>2, <2>3, <2>4
<1>11. CASE FinishTimedOut
  <2>1. /\ Readable /\ Consume /\ call' = call /\ call.pc = "finish" /\ result.active
        /\ result' = Ended /\ Head(wire).kind = "err"
        /\ UNCHANGED <<muddled, stale>>
    BY <1>11 DEF FinishTimedOut, Receive, history, At
  <2>2. ~result'.active /\ ~result'.next
    BY <1>0, <2>1, ResultTypes DEF ResultOK
  <2>3. Head(wire).kind \in Final
    BY <2>1 DEF Final
  <2> QED
    BY <2>1, <2>2, <2>3, ConsumingWire DEF Reads
<1>12. CASE CommandOk
  <2>1. /\ Readable /\ Consume /\ call.pc = "ok" /\ result = None /\ result' = None
        /\ UNCHANGED <<muddled, stale>>
    BY <1>12 DEF CommandOk, Receive, At, WireInv, ChannelInv, Reads
  <2>2. call'.pc = "next"
    BY <1>12 DEF CommandOk, TypeInv, CallTypeOK, CallType
  <2>3. ~result'.active /\ ~result'.next /\ ~Complete'
    BY <2>1, ResultTypes DEF Complete
  <2> QED
    BY <2>1, <2>2, <2>3, ConsumingWire DEF Reads
<1>13. CASE FetchRow
  <2>1. /\ Readable /\ Consume /\ call' = Idle /\ call.pc = "fetch" /\ result.active
        /\ \/ Head(wire).kind = "row" /\ result' = result
           \/ /\ Head(wire).kind \in {"eof", "eof+"}
              /\ result' = Result(FALSE, More(Head(wire).kind))
        /\ UNCHANGED <<muddled, stale>>
    BY <1>13 DEF FetchRow, Receive, Fetched, Reading, history, At
  <2>2. call'.pc = "idle"
    BY <2>1, OwnCalls
  <2>3. CASE Head(wire).kind = "row" /\ result' = result
    <3>1. ~result'.next /\ ~Complete'
      BY <1>0, <2>1, <2>3 DEF ResultOK, Complete
    <3> QED
      BY <2>1, <2>2, <2>3, <3>1, ConsumingWire DEF Reads
  <2>4. CASE /\ Head(wire).kind \in {"eof", "eof+"}
             /\ result' = Result(FALSE, More(Head(wire).kind))
    <3>1. /\ ~result'.active /\ result'.next = More(Head(wire).kind)
          /\ Complete' => ~More(Head(wire).kind)
      BY <1>0, <2>4, ResultTypes DEF Complete
    <3>2. Head(wire).kind \in Final <=> ~More(Head(wire).kind)
      BY <2>4 DEF More, Final
    <3> QED
      BY <2>1, <2>2, <2>4, <3>1, <3>2, ConsumingWire DEF Reads
  <2> QED
    BY <2>1, <2>3, <2>4
<1> QED
  BY <1>1, <1>2, <1>3, <1>4, <1>5, <1>6, <1>7, <1>8, <1>9, <1>10, <1>11, <1>12, <1>13 DEF Read

LEMMA ContinueWire == WireInv /\ TypeInv /\ Continue => WireInv'
<1> SUFFICES ASSUME WireInv, TypeInv, Continue
             PROVE  WireInv'
  OBVIOUS
<1>0. call \in CallType
  BY DEF TypeInv, CallTypeOK
<1>1. CASE Finished
  <2>1. call'.pc \in {"nextset", "skip"}
    BY <1>0, <1>1 DEF Finished, GoTo, CallType
  <2> QED
    BY <1>1, <2>1, QuietWire DEF Finished, At, Reads, channel, client, history
<1>2. CASE Skip
  <2>1. call'.pc = IF result.next THEN "first" ELSE "write"
    BY <1>0, <1>2 DEF Skip, CallType
  <2> QED
    BY <1>2, <2>1, QuietWire DEF Skip, At, Reads, channel, history
<1>3. CASE Send
  <2>1. CASE ForceClose /\ Leave
    BY <2>1, LeavingTypes, ClosedWire DEF Reads
  <2>2. CASE /\ request' = IF link THEN Head(call.todo) ELSE "none"
             /\ GoTo(IF Head(call.todo) = "query" THEN "first" ELSE "ok")
             /\ nextSeq' = 1
             /\ wire' = [i \in DOMAIN wire |-> [wire[i] EXCEPT !.mine = FALSE]]
             /\ muddled' = (muddled \/ (wire # <<>> /\ Head(wire).pos = 1))
             /\ stale' = FALSE
             /\ UNCHANGED <<link, sock, auto, client, asked, hidden>>
    <3>1. /\ call.pc = "write" /\ result = None /\ wire \in Seq(Packet)
          /\ call.todo # <<>> /\ Head(call.todo) \in Commands
      BY <1>3, TailOfTodo DEF Send, At, WireInv, ChannelInv, TypeInv, ChannelTypeOK,
                              CallTypeOK, HasCommand
    <3>2. /\ call'.pc = IF Head(call.todo) = "query" THEN "first" ELSE "ok"
          /\ call'.todo = call.todo
      BY <1>0, <2>2 DEF GoTo, CallType
    <3> DEFINE v == [i \in DOMAIN wire |-> [wire[i] EXCEPT !.mine = FALSE]]
    <3>3. /\ v \in Seq(Packet) /\ Foreign(v)
          /\ v = <<>> <=> wire = <<>>
          /\ wire # <<>> => Head(v).pos = Head(wire).pos
          /\ Shaped(wire) => Shaped(v)
          /\ Whole(wire) => Whole(v)
          /\ Ordered(v) /\ Single(v)
      BY <3>1, MarkedWire
    <3>4. v # <<>> => ~Head(v).mine
      BY <3>3, TailOfWire
    <3>5. wire' = v
      BY <2>2
    <3> HIDE DEF v
    <3>6. /\ Shaped(wire)' <=> Shaped(v)
          /\ Whole(wire)' <=> Whole(v)
          /\ Ordered(wire)' <=> Ordered(v)
          /\ Single(wire)' <=> Single(v)
          /\ Foreign(wire)' <=> Foreign(v)
      BY <3>5 DEF Shaped, Whole, Ordered, Single, Foreign
    <3>7. result' = None /\ ~None.active /\ ~None.next /\ None.none
      BY <2>2, <3>1, ResultTypes DEF client
    <3>8. ChannelInv'
      BY <2>2, <3>3, <3>5, <3>7 DEF WireInv, ChannelInv
    <3>9. ShapeInv'
      <4>1. ~AmidRows' /\ ~result'.next
        BY <3>2, <3>7 DEF AmidRows, At
      <4>2. link' => request' # "none"
        BY <2>2, <3>1 DEF Commands
      <4> QED
        BY <2>2, <3>3, <3>6, <4>1, <4>2 DEF WireInv, ShapeInv
    <3>10. OwnInv'
      <4>1. ~Complete'
        BY <3>7 DEF Complete
      <4>2. request' # "none" => Pending'
        BY <2>2, <3>2 DEF Pending
      <4>3. ~muddled' /\ wire' # <<>> => Head(wire').pos # 1
        BY <2>2, <3>3, <3>5
      <4> QED
        BY <2>2, <3>2, <3>3, <3>6, <4>1, <4>2, <4>3 DEF OwnInv
    <3> QED
      BY <3>8, <3>9, <3>10 DEF WireInv
  <2> QED
    BY <1>3, <2>1, <2>2 DEF Send
<1>4. CASE SkipAgreed
  <2>1. call'.pc = "next"
    BY <1>0, <1>4 DEF SkipAgreed, At, CallType
  <2> QED
    BY <1>4, <2>1, QuietWire DEF SkipAgreed, At, Reads, channel, client
<1>5. CASE StartCommand
  <2>1. call'.pc = "finish"
    BY <1>0, <1>5 DEF StartCommand, GoTo, CallType
  <2> QED
    BY <1>5, <2>1, QuietWire DEF StartCommand, At, Reads, channel, client, history
<1>6. CASE NotConnected
  <2>1. call'.pc \in {"idle", "dial"} /\ UNCHANGED <<auto, status, mode, history>>
    BY <1>6, LeavingTypes DEF NotConnected
  <2> QED
    BY <1>6, <2>1, QuietWire DEF NotConnected, At, Reads, channel, history
<1>7. CASE Return
  BY <1>7, OwnCalls, QuietWire DEF Return, At, Reads, channel, client, history
<1>8. CASE NextSet
  <2>1. /\ call.pc = "nextset"
        /\ UNCHANGED <<link, wire, request, sock, nextSeq, muddled, stale>>
    BY <1>8 DEF NextSet, At, channel, history
  <2>2. \/ /\ result.next /\ result' = None
           /\ call' = [call EXCEPT !.pc = "first", !.after = call'.after]
        \/ result' = result /\ (call' = Idle \/ GoTo("next"))
    <3>1. CASE HasNext(call.c)
      <4>1. PICK after : call' = [call EXCEPT !.pc = "first", !.after = after]
        BY <1>8, <3>1 DEF NextSet
      <4>2. call'.after = after
        BY <1>0, <4>1 DEF CallType
      <4> QED
        BY <1>8, <3>1, <4>1, <4>2 DEF NextSet, HasNext
    <3>2. CASE ~HasNext(call.c)
      BY <1>8, <3>2 DEF NextSet
    <3> QED
      BY <3>1, <3>2
  <2>3. \/ result.next /\ result' = None /\ call'.pc = "first"
        \/ result' = result /\ call'.pc \in {"idle", "next"}
    BY <1>0, <2>2, OwnCalls DEF GoTo, CallType
  <2> QED
    BY <2>1, <2>3, QuietWire DEF Reads
<1>9. CASE FetchNothing
  <2>1. call'.pc = "idle"
    BY <1>9, OwnCalls DEF FetchNothing, Fetched
  <2> QED
    BY <1>9, <2>1, QuietWire DEF FetchNothing, At, Reads, channel, history
<1> QED
  BY <1>1, <1>2, <1>3, <1>4, <1>5, <1>6, <1>7, <1>8, <1>9 DEF Continue

LEMMA AskWire == WireInv /\ TypeInv /\ Ask => WireInv'
<1> SUFFICES ASSUME WireInv, TypeInv, Ask
             PROVE  WireInv'
  OBVIOUS
<1>1. CASE Close
  BY <1>1, ClosedWire DEF Close, At, Reads
<1>2. CASE ~Close
  <2>1. /\ call.pc = "idle" /\ Same
        /\ call'.pc \in {"next", "dial", "nextset", "fetch", "finish"}
    BY <1>2, AskKeeps DEF Begin, At
  <2> QED
    BY <2>1, QuietWire DEF Same, Reads, channel, history
<1> QED
  BY <1>1, <1>2

\* The reply comes behind what is unread.
LEMMA ServeKeeps == WireInv /\ TypeInv /\ Serve => WireInv'
<1> SUFFICES ASSUME WireInv, TypeInv, Serve
             PROVE  WireInv'
  OBVIOUS
<1>1. PICK v \in Seq(Packet) :
          /\ v # <<>> /\ Shaped(v) /\ Whole(v) /\ Single(v)
          /\ \A i \in 1..Len(v) : v[i].mine
          /\ wire' = wire \o v
  BY ServeWire DEF TypeInv, Sent
<1>2. /\ link /\ request # "none" /\ request' = "none"
      /\ UNCHANGED <<link, sock, nextSeq, result, call, muddled, stale>>
  BY DEF Serve, client
<1> DEFINE u == wire \o v
<1>3. /\ u \in Seq(Packet) /\ u # <<>>
      /\ Head(u) = IF wire = <<>> THEN Head(v) ELSE Head(wire)
      /\ Whole(v) => Whole(u)
      /\ Shaped(wire) /\ Whole(wire) /\ Shaped(v) => Shaped(u)
      /\ Ordered(wire) /\ (\A i \in 1..Len(v) : v[i].mine) => Ordered(u)
      /\ Foreign(wire) /\ Single(v) => Single(u)
  BY <1>1, JoinedWires DEF TypeInv, ChannelTypeOK
<1>4. wire' = u
  BY <1>1
<1>5. Head(v).mine
  <2>1. Len(v) \in Nat \ {0} /\ Head(v) = v[1]
    BY <1>1, EmptySeq
  <2> QED
    BY <1>1, <2>1
<1> HIDE DEF u
<1>6. /\ Shaped(wire)' <=> Shaped(u)
      /\ Whole(wire)' <=> Whole(u)
      /\ Ordered(wire)' <=> Ordered(u)
      /\ Single(wire)' <=> Single(u)
  BY <1>4 DEF Shaped, Whole, Ordered, Single
<1>7. ~stale /\ sock
  BY <1>2 DEF WireInv, ChannelInv
<1>8. ChannelInv'
  BY <1>2, <1>7 DEF WireInv, ChannelInv
<1>9. ShapeInv'
  <2>1. AmidRows' <=> AmidRows
    BY <1>2 DEF AmidRows, At
  <2> QED
    BY <1>1, <1>2, <1>3, <1>4, <1>6, <1>7, <2>1 DEF WireInv, ShapeInv
<1>10. ~muddled => Pending /\ Foreign(wire) /\ (wire # <<>> => ~Head(wire).mine)
  <2>1. wire # <<>> /\ Foreign(wire) => ~Head(wire).mine
    BY TailOfWire DEF TypeInv, ChannelTypeOK
  <2> QED
    BY <1>2, <2>1 DEF WireInv, OwnInv
<1>11. ~muddled => call.pc \in Reads
  BY <1>10 DEF Pending, Reads
<1>12. OwnInv'
  <2>1. ~muddled => ~Complete'
    BY <1>2, <1>11, ResultTypes DEF WireInv, ChannelInv, Complete
  <2> QED
    BY <1>1, <1>2, <1>3, <1>4, <1>5, <1>6, <1>10, <2>1 DEF WireInv, OwnInv
<1> QED
  BY <1>8, <1>9, <1>12 DEF WireInv

LEMMA LossKeeps == WireInv /\ TypeInv /\ LinkLost => WireInv'
<1> SUFFICES ASSUME WireInv, TypeInv, LinkLost
             PROVE  WireInv'
  OBVIOUS
<1>1. PICK n \in 0..Len(wire) : wire' = SubSeq(wire, 1, n)
  BY DEF LinkLost
<1>2. /\ ~link' /\ request' = "none"
      /\ UNCHANGED <<sock, nextSeq, result, call, muddled, stale>>
  BY DEF LinkLost, client
<1> DEFINE v == SubSeq(wire, 1, n)
<1>3. /\ v # <<>> => wire # <<>> /\ Head(v) = Head(wire)
      /\ Shaped(wire) => Shaped(v)
      /\ Ordered(wire) => Ordered(v)
      /\ Single(wire) => Single(v)
  BY CutWire DEF TypeInv, ChannelTypeOK
<1>4. wire' = v
  BY <1>1
<1> HIDE DEF v
<1>5. /\ Shaped(wire)' <=> Shaped(v)
      /\ Ordered(wire)' <=> Ordered(v)
      /\ Single(wire)' <=> Single(v)
  BY <1>4 DEF Shaped, Ordered, Single
<1>6. ChannelInv'
  BY <1>2, <1>3, <1>4 DEF WireInv, ChannelInv
<1>7. ShapeInv'
  BY <1>2, <1>3, <1>4, <1>5 DEF WireInv, ShapeInv, AmidRows, At
<1>8. OwnInv'
  BY <1>2, <1>3, <1>4, <1>5 DEF WireInv, OwnInv, Complete
<1> QED
  BY <1>6, <1>7, <1>8 DEF WireInv

LEMMA WireInit == DriverInit => WireInv
<1> SUFFICES ASSUME SessionInit
             PROVE  WireInv
  BY DEF DriverInit
<1>1. /\ ~link /\ wire = <<>> /\ request = "none" /\ ~sock /\ ~stale
      /\ result = None /\ call.pc = "dial"
  BY DEF SessionInit, Call
<1>2. ~None.active /\ ~None.next /\ None.none
  BY ResultTypes
<1>3. ChannelInv
  BY <1>1 DEF ChannelInv
<1>4. ShapeInv /\ OwnInv
  BY <1>1, <1>2, NoWire DEF ShapeInv, OwnInv, AmidRows, At, Complete
<1> QED
  BY <1>3, <1>4 DEF WireInv

LEMMA WireStays == WireInv /\ TypeInv /\ [DriverNext]_driverVars => WireInv'
<1> SUFFICES ASSUME WireInv, TypeInv, [DriverNext]_driverVars
             PROVE  WireInv'
  OBVIOUS
<1>1. CASE UNCHANGED sessionVars
  BY <1>1 DEF sessionVars, channel, client, history, WireInv, ChannelInv, ShapeInv, OwnInv,
              Shaped, Whole, Ordered, Single, Foreign, AmidRows, At, Pending, Complete
<1>2. CASE Connected
  <2>1. /\ call'.pc = "next" /\ link' /\ sock' /\ wire' = <<>> /\ request' = "none"
        /\ result' = result
        /\ stale' = (result.active \/ result.next)
    BY <1>2 DEF Connected, NewSession, GoTo, TypeInv, CallTypeOK, CallType
  <2>2. Shaped(wire)' /\ Whole(wire)' /\ Ordered(wire)' /\ Single(wire)'
    BY <2>1, NoWire DEF Shaped, Whole, Ordered, Single
  <2>3. ChannelInv' /\ OwnInv'
    BY <2>1, <2>2 DEF ChannelInv, OwnInv, Reads
  <2>4. ShapeInv'
    BY <2>1, <2>2 DEF ShapeInv, AmidRows, At, Reads
  <2> QED
    BY <2>3, <2>4 DEF WireInv
<1>3. CASE Refused
  BY <1>3, OwnCalls, ClosedWire DEF Refused, Reads
<1> QED
  BY <1>1, <1>2, <1>3, SessionSteps, ReadWire, ContinueWire, AskWire, ServeKeeps, LossKeeps
  DEF SessionStep

\* What holds of the wire and of the client in every state.
LEMMA WireHolds == DriverSpec => [](WireInv /\ TypeInv)
BY TypeInit, TypeStays, WireInit, WireStays, PTL DEF DriverSpec

----------------------------------------------------------------------------
\* Whatever errors, unreadable rows and lost connections came before, a packet is
\* only taken for part of a reply that it is part of (connections.py:776-786).
THEOREM OwnReplies == DriverSpec => []RepliesMatched
<1>1. WireInv => RepliesMatched
  BY DEF WireInv, OwnInv, Readable, RepliesMatched
<1> QED
  BY <1>1, WireHolds, PTL

\* A call never waits for a packet that the server will not send.
THEOREM NoVainWait == DriverSpec => []WaitsOnlyForAnswers
<1>1. ASSUME WireInv
      PROVE  WaitsOnlyForAnswers
  <2>1. Reading => AmidRows \/ call.pc \in Reads
    BY DEF Reading, AmidRows, Reads, At
  <2> QED
    BY <1>1, <2>1 DEF WireInv, ShapeInv, WaitsOnlyForAnswers
<1> QED
  BY <1>1, WireHolds, PTL

\* Nothing is left behind a result that was read to its end.
THEOREM NothingBehind == DriverSpec => []UnreadIsKnown
<1>1. WireInv => UnreadIsKnown
  BY DEF WireInv, OwnInv, Complete, UnreadIsKnown
<1> QED
  BY <1>1, WireHolds, PTL

----------------------------------------------------------------------------
(* The autocommit mode.                                                    *)

OkKinds == {"ok", "ok+"}

\* No flags are to come; the last that come tell this mode; a reply in its last OK.
Silent(w) == \A i \in 1..Len(w) : w[i].kind \notin OkKinds
Tells(w, m) ==
    \A i \in 1..Len(w) :
        w[i].kind \in OkKinds /\ (\A j \in i + 1..Len(w) : w[j].kind \notin OkKinds)
            => w[i].auto = m
EndsIn(w, m) == w # <<>> /\ w[Len(w)].kind = "ok" => w[Len(w)].auto = m

LEMMA TailTells ==
    ASSUME NEW w \in Seq(Packet), w # <<>>, NEW m
    PROVE  /\ Tells(w, m) => Tells(Tail(w), m)
           /\ Tells(w, m) /\ Silent(Tail(w)) /\ Head(w).kind \in OkKinds => Head(w).auto = m
           /\ Silent(Tail(w)) /\ Head(w).kind \notin OkKinds => Silent(w)
           /\ EndsIn(w, m) => EndsIn(Tail(w), m)
           /\ EndsIn(w, m) /\ Tail(w) = <<>> /\ Head(w).kind = "ok" => Head(w).auto = m
<1> DEFINE v == Tail(w)
<1>1. /\ v \in Seq(Packet) /\ Len(w) \in Nat /\ Len(w) > 0
      /\ Len(v) = Len(w) - 1 /\ \A i \in 1..Len(v) : v[i] = w[i + 1]
      /\ Head(w) = w[1]
  BY HeadTailProperties, EmptySeq
<1>2. v # <<>> => Len(v) > 0 /\ v[Len(v)] = w[Len(w)]
  <2>1. v # <<>> => Len(v) \in Nat \ {0}
    BY <1>1, EmptySeq
  <2> QED
    BY <1>1, <2>1
<1>3. v = <<>> => Len(w) = 1
  <2>1. v = <<>> => Len(v) = 0
    BY EmptySeq
  <2> QED
    BY <1>1, <2>1
<1> HIDE DEF v
<1>4. Tells(w, m) => Tells(v, m)
  <2>1. ASSUME Tells(w, m), NEW i \in 1..Len(v), v[i].kind \in OkKinds,
               \A j \in i + 1..Len(v) : v[j].kind \notin OkKinds
        PROVE  v[i].auto = m
    <3>1. i + 1 \in 1..Len(w) /\ w[i + 1] = v[i]
      BY <1>1
    <3>2. ASSUME NEW j \in (i + 1) + 1..Len(w)
          PROVE  w[j].kind \notin OkKinds
      <4>1. j - 1 \in i + 1..Len(v) /\ j - 1 \in 1..Len(v) /\ (j - 1) + 1 = j
        BY <1>1
      <4> QED
        BY <1>1, <2>1, <4>1
    <3> DEFINE k == i + 1
    <3>3. k \in 1..Len(w) /\ w[k] = v[i] /\ \A j \in k + 1..Len(w) : w[j].kind \notin OkKinds
      BY <3>1, <3>2
    <3> HIDE DEF k
    <3>4. w[k].auto = m
      BY <2>1, <3>3 DEF Tells
    <3> QED
      BY <3>3, <3>4
  <2> QED
    BY <2>1 DEF Tells
<1>5. ASSUME Silent(v), NEW j \in 1 + 1..Len(w)
      PROVE  w[j].kind \notin OkKinds
  <2>1. j - 1 \in 1..Len(v) /\ (j - 1) + 1 = j
    BY <1>1
  <2> QED
    BY <1>1, <1>5, <2>1 DEF Silent
<1>6. ASSUME Tells(w, m), Silent(v), Head(w).kind \in OkKinds
      PROVE  Head(w).auto = m
  <2>1. 1 \in 1..Len(w)
    BY <1>1
  <2> QED
    BY <1>1, <1>5, <1>6, <2>1 DEF Tells
<1>7. ASSUME Silent(v), Head(w).kind \notin OkKinds, NEW i \in 1..Len(w)
      PROVE  w[i].kind \notin OkKinds
  <2>1. i = 1 \/ i \in 1 + 1..Len(w)
    BY <1>1
  <2> QED
    BY <1>1, <1>5, <1>7, <2>1
<1>8. Silent(v) /\ Head(w).kind \notin OkKinds => Silent(w)
  BY <1>7 DEF Silent
<1>9. EndsIn(w, m) => EndsIn(v, m)
  BY <1>2 DEF EndsIn
<1>10. EndsIn(w, m) /\ v = <<>> /\ Head(w).kind = "ok" => Head(w).auto = m
  BY <1>1, <1>3 DEF EndsIn
<1> QED
  BY <1>4, <1>6, <1>8, <1>9, <1>10 DEF v

LEMMA JoinTells ==
    ASSUME NEW w \in Seq(Packet), NEW v \in Seq(Packet), v # <<>>, NEW m
    PROVE  /\ Tells(v, m) /\ (Silent(v) => Tells(w, m)) => Tells(w \o v, m)
           /\ Silent(w \o v) => Silent(w) /\ Silent(v)
           /\ EndsIn(v, m) => EndsIn(w \o v, m)
<1> DEFINE u == w \o v
<1>1. Len(w) \in Nat /\ Len(v) \in Nat /\ Len(v) > 0
  BY EmptySeq
<1>2. /\ u \in Seq(Packet) /\ Len(u) = Len(w) + Len(v)
      /\ \A i \in 1..Len(w) + Len(v) : u[i] = IF i <= Len(w) THEN w[i] ELSE v[i - Len(w)]
  BY ConcatProperties
<1> HIDE DEF u
<1>3. \A i \in 1..Len(w) : i \in 1..Len(u) /\ u[i] = w[i]
  BY <1>1, <1>2
<1>4. ASSUME NEW i \in 1..Len(v)
      PROVE  i + Len(w) \in 1..Len(u) /\ u[i + Len(w)] = v[i]
  <2>1. /\ i + Len(w) \in 1..Len(w) + Len(v) /\ ~(i + Len(w) <= Len(w))
        /\ (i + Len(w)) - Len(w) = i
    BY <1>1
  <2> QED
    BY <1>2, <2>1
<1>5. ASSUME Tells(v, m), Silent(v) => Tells(w, m), NEW i \in 1..Len(u),
             u[i].kind \in OkKinds, \A j \in i + 1..Len(u) : u[j].kind \notin OkKinds
      PROVE  u[i].auto = m
  <2>1. CASE i <= Len(w)
    <3>1. i \in 1..Len(w) /\ u[i] = w[i]
      BY <1>1, <1>2, <2>1
    <3>2. ASSUME NEW j \in 1..Len(v)
          PROVE  v[j].kind \notin OkKinds
      <4>1. j + Len(w) \in i + 1..Len(u)
        BY <1>1, <1>2, <2>1
      <4> QED
        BY <1>4, <1>5, <4>1
    <3>3. ASSUME NEW j \in i + 1..Len(w)
          PROVE  w[j].kind \notin OkKinds
      <4>1. j \in i + 1..Len(u) /\ j \in 1..Len(w)
        BY <1>1, <1>2
      <4> QED
        BY <1>3, <1>5, <4>1
    <3>4. Silent(v)
      BY <3>2 DEF Silent
    <3> QED
      BY <1>5, <3>1, <3>3, <3>4 DEF Tells
  <2>2. CASE ~(i <= Len(w))
    <3> DEFINE k == i - Len(w)
    <3>1. k \in 1..Len(v) /\ k + Len(w) = i
      BY <1>1, <1>2, <2>2
    <3>2. u[i] = v[k]
      BY <1>4, <3>1
    <3>3. ASSUME NEW j \in k + 1..Len(v)
          PROVE  v[j].kind \notin OkKinds
      <4>1. j + Len(w) \in i + 1..Len(u) /\ j \in 1..Len(v)
        BY <1>1, <1>2, <3>1
      <4> QED
        BY <1>4, <1>5, <4>1
    <3> HIDE DEF k
    <3> QED
      BY <1>5, <3>1, <3>2, <3>3 DEF Tells
  <2> QED
    BY <2>1, <2>2
<1>6. Tells(v, m) /\ (Silent(v) => Tells(w, m)) => Tells(u, m)
  BY <1>5 DEF Tells
<1>7. Silent(u) => Silent(w) /\ Silent(v)
  BY <1>3, <1>4 DEF Silent
<1>8. EndsIn(v, m) => EndsIn(u, m)
  <2>1. Len(v) \in 1..Len(v) /\ Len(v) + Len(w) = Len(u)
    BY <1>1, <1>2
  <2>2. u[Len(u)] = v[Len(v)]
    BY <1>4, <2>1
  <2> QED
    BY <2>2 DEF EndsIn
<1> QED
  BY <1>6, <1>7, <1>8 DEF u

LEMMA MarkTells ==
    ASSUME NEW w \in Seq(Packet), NEW m
    PROVE  LET v == [i \in DOMAIN w |-> [w[i] EXCEPT !.mine = FALSE]] IN
           /\ Tells(w, m) => Tells(v, m)
           /\ Silent(v) => Silent(w)
           /\ EndsIn(w, m) => EndsIn(v, m)
<1> DEFINE v == [i \in DOMAIN w |-> [w[i] EXCEPT !.mine = FALSE]]
<1>1. Len(w) \in Nat /\ DOMAIN w = 1..Len(w) /\ \A i \in 1..Len(w) : w[i] \in Packet
  BY ElementOfSeq
<1>2. \A i \in 1..Len(w) : /\ v[i] \in Packet
                           /\ v[i].kind = w[i].kind /\ v[i].auto = w[i].auto
  BY <1>1 DEF Packet
<1>3. v = <<>> <=> w = <<>>
  BY MarkedWire
<1>4. Len(v) = Len(w)
  <2>1. v \in [1..Len(w) -> Packet]
    BY <1>1, <1>2
  <2> QED
    BY <1>1, <2>1
<1>5. w # <<>> => Len(w) \in 1..Len(w)
  BY <1>1, EmptySeq
<1> HIDE DEF v
<1>6. Tells(w, m) => Tells(v, m)
  <2>1. \A i \in 1..Len(w) : \A j \in i + 1..Len(w) : j \in 1..Len(w)
    BY <1>1
  <2> QED
    BY <1>2, <1>4, <2>1 DEF Tells
<1>7. Silent(v) => Silent(w)
  BY <1>2, <1>4 DEF Silent
<1>8. EndsIn(w, m) => EndsIn(v, m)
  BY <1>2, <1>3, <1>4, <1>5 DEF EndsIn
<1> QED
  BY <1>6, <1>7, <1>8 DEF v

\* An answer without a look at its flags.
Unlooked == call.pc = "skipped" \/ (call.pc = "ok" /\ Head(call.todo) = "names")
Uncounted == Unlooked /\ (wire # <<>> => Head(wire).mine)

\* The mode is one agreed on, the one the call that sets it will find set, and the one
\* that the flags tell: those still to come, or those that were read last.
ModeInv ==
    sock /\ link /\ ~muddled =>
        /\ auto \in asked
        /\ EndsIn(wire, auto)
        /\ (/\ call.pc = "ok" /\ Head(call.todo) = "auto"
            /\ wire # <<>> /\ Head(wire).mine /\ Head(wire).kind \in OkKinds) => auto = mode
        /\ ~hidden => Tells(wire, auto)
        /\ ~hidden /\ (Silent(wire) \/ Uncounted) => status = auto

LEMMA NothingTold == Silent(<<>>) /\ \A m : Tells(<<>>, m) /\ EndsIn(<<>>, m)
<1>1. Len(<<>>) = 0
  OBVIOUS
<1> QED
  BY <1>1 DEF Silent, Tells, EndsIn


\* A step that leaves the channel, the flags and what is hidden alone.
LEMMA QuietMode ==
    ASSUME ModeInv, UNCHANGED <<sock, link, wire, auto, status, muddled, hidden>>,
           call'.pc \notin {"ok", "skipped"},
           sock /\ link /\ ~muddled => auto \in asked'
    PROVE  ModeInv'
<1>1. (EndsIn(wire, auto)' <=> EndsIn(wire, auto)) /\ (Tells(wire, auto)' <=> Tells(wire, auto))
      /\ (Silent(wire)' <=> Silent(wire))
  BY DEF EndsIn, Tells, Silent
<1>2. ~Unlooked'
  BY DEF Unlooked
<1> QED
  BY <1>1, <1>2 DEF ModeInv, Uncounted

\* A step that takes a packet off the wire, and looks at the flags of an OK unless the
\* call does not care.
LEMMA ConsumingMode ==
    ASSUME WireInv, TypeInv, ModeInv, Readable, Consume, UNCHANGED <<auto, mode, muddled>>,
           call'.pc \notin {"ok", "skipped"},
           \/ Head(wire).kind \in OkKinds /\ Learn(Head(wire))
           \/ (Head(wire).kind \notin OkKinds \/ Unlooked) /\ UNCHANGED <<status, hidden>>,
           \/ asked' = asked
           \/ /\ asked' = {mode} /\ Head(wire).kind \in OkKinds
              /\ call.pc = "ok" /\ Head(call.todo) = "auto"
    PROVE  ModeInv'
<1> SUFFICES ASSUME sock', link', ~muddled'
             PROVE  ModeInv'
  BY DEF ModeInv
<1> DEFINE w == Tail(wire)
<1>1. wire' = w /\ sock /\ link /\ ~muddled
  BY DEF Consume
<1>2. wire \in Seq(Packet) /\ wire # <<>>
  BY DEF Readable, TypeInv, ChannelTypeOK
<1>3. Head(wire).mine
  BY <1>1, ReadIsMine
<1>4. /\ auto \in asked /\ EndsIn(wire, auto)
      /\ (/\ call.pc = "ok" /\ Head(call.todo) = "auto" /\ Head(wire).kind \in OkKinds)
           => auto = mode
      /\ ~hidden => Tells(wire, auto)
      /\ ~hidden /\ (Silent(wire) \/ Unlooked) => status = auto
  BY <1>1, <1>2, <1>3 DEF ModeInv, Uncounted
<1>5. /\ Tells(wire, auto) => Tells(w, auto)
      /\ Tells(wire, auto) /\ Silent(w) /\ Head(wire).kind \in OkKinds => Head(wire).auto = auto
      /\ Silent(w) /\ Head(wire).kind \notin OkKinds => Silent(wire)
      /\ EndsIn(wire, auto) => EndsIn(w, auto)
      /\ EndsIn(wire, auto) /\ w = <<>> /\ Head(wire).kind = "ok" => Head(wire).auto = auto
  BY <1>2, TailTells
<1>6. Head(wire).kind = "ok" => w = <<>>
  BY <1>1, <1>2, <1>3, TailOfWire DEF WireInv, OwnInv, Final
<1>7. w = <<>> => Tells(w, auto) /\ Silent(w)
  BY NothingTold
<1> HIDE DEF w
<1>8. /\ EndsIn(wire, auto)' <=> EndsIn(w, auto)
      /\ Tells(wire, auto)' <=> Tells(w, auto)
      /\ Silent(wire)' <=> Silent(w)
  BY <1>1 DEF EndsIn, Tells, Silent
<1>9. ~Unlooked'
  BY DEF Unlooked
<1>10. auto' \in asked'
  BY <1>4
<1>11. ASSUME ~hidden'
       PROVE  Tells(w, auto) /\ (Silent(w) => status' = auto)
  <2>1. CASE Head(wire).kind \in OkKinds /\ Learn(Head(wire))
    <3>1. status' = Head(wire).auto
      BY <2>1 DEF Learn, Flags
    <3>2. CASE hidden
      <4>1. Head(wire).kind = "ok"
        BY <1>11, <2>1, <3>2 DEF Learn, More, OkKinds
      <4> QED
        BY <1>4, <1>5, <1>6, <1>7, <3>1, <4>1
    <3>3. CASE ~hidden
      BY <1>4, <1>5, <2>1, <3>1, <3>3
    <3> QED
      BY <3>2, <3>3
  <2>2. CASE /\ Head(wire).kind \notin OkKinds \/ Unlooked
             /\ UNCHANGED <<status, hidden>>
    BY <1>4, <1>5, <1>11, <2>2
  <2> QED
    BY <2>1, <2>2
<1> QED
  BY <1>4, <1>5, <1>8, <1>9, <1>10, <1>11 DEF ModeInv, Uncounted

LEMMA RaisingMode ==
    ASSUME WireInv, TypeInv, ModeInv, NEW kinds, Receive(kinds), Raise,
           Head(wire).kind \notin OkKinds \/ Unlooked
    PROVE  ModeInv'
<1>1. Readable /\ Leave
  BY DEF Receive, Raise
<1>2. call'.pc \in {"idle", "dial"} /\ UNCHANGED <<auto, status, mode, asked, hidden, muddled>>
  BY <1>1, LeavingTypes DEF history
<1>3. CASE ForceClose
  BY <1>3 DEF ForceClose, ModeInv
<1>4. CASE Consume
  BY <1>1, <1>2, <1>4, ConsumingMode
<1> QED
  BY <1>3, <1>4 DEF Raise

LEMMA ReadMode == WireInv /\ TypeInv /\ ModeInv /\ Read => ModeInv'
<1> SUFFICES ASSUME WireInv, TypeInv, ModeInv, Read
             PROVE  ModeInv'
  OBVIOUS
<1>0. ResultOK(result) /\ \A kind : More(kind) \in BOOLEAN
  BY DEF TypeInv, ClientTypeOK, More
<1>1. CASE Broken
  BY <1>1 DEF Broken, ForceClose, ModeInv
<1>2. CASE ErrorPacket
  <2>1. Receive({"err"}) /\ Raise /\ Head(wire).kind = "err"
    BY <1>2 DEF ErrorPacket, Receive
  <2> QED
    BY <2>1, RaisingMode DEF OkKinds
<1>3. CASE Garbled
  <2>1. /\ Reading /\ Receive((Kinds \ {"err"}) \ Expected) /\ Raise
        /\ Readable /\ Head(wire).kind \in (Kinds \ {"err"}) \ Expected
    BY <1>3 DEF Garbled, Receive
  <2>2. CASE AmidRows
    <3>1. Head(wire).kind \notin OkKinds
      BY <2>1, <2>2, RowsFollow DEF InRows, OkKinds
    <3> QED
      BY <2>1, <3>1, RaisingMode
  <2>3. CASE ~AmidRows /\ ~Unlooked
    <3>1. call.pc = "first" \/ call.pc = "loaded" \/ (call.pc = "ok" /\ Head(call.todo) # "names")
      BY <2>1, <2>3 DEF AmidRows, Unlooked, Reading, At
    <3>2. OkKinds \subseteq Expected
      BY <3>1 DEF Expected, At, OkKinds
    <3> QED
      BY <2>1, <3>2, RaisingMode
  <2>4. CASE Unlooked
    BY <2>1, <2>4, RaisingMode
  <2> QED
    BY <2>2, <2>3, <2>4
<1>4. CASE BadRow
  <2>1. Receive({"row"}) /\ Raise /\ Head(wire).kind = "row"
    BY <1>4 DEF BadRow, Receive
  <2> QED
    BY <2>1, RaisingMode DEF OkKinds
<1>5. CASE ReadOk
  <2>1. /\ Readable /\ Head(wire).kind \in OkKinds /\ Consume /\ Learn(Head(wire))
        /\ Deliver(Result(FALSE, More(Head(wire).kind)))
        /\ call.pc \in Reads /\ UNCHANGED <<auto, mode, asked, muddled>>
    BY <1>5 DEF ReadOk, Receive, Reads, OkKinds
  <2>2. call'.pc \in {"idle", "nextset", "skip", "next"}
    BY <1>0, <2>1, DeliveringTypes, ResultTypes
  <2> QED
    BY <2>1, <2>2, ConsumingMode
<1>6. CASE ReadColumns
  <2>1. /\ Readable /\ Head(wire).kind = "cols" /\ Consume /\ call.pc = "first"
        /\ UNCHANGED <<auto, status, mode, asked, hidden, muddled>>
    BY <1>6 DEF ReadColumns, Receive, history, At
  <2>2. Deliver(Result(TRUE, FALSE)) \/ GoTo("rows")
    BY <1>6 DEF ReadColumns
  <2>3. call'.pc \in {"idle", "nextset", "skip", "next", "rows"}
    <3>1. ASSUME Deliver(Result(TRUE, FALSE))
          PROVE  call'.pc \in {"idle", "nextset", "skip", "next"}
      BY <2>1, <3>1, DeliveringTypes, ResultTypes DEF Reads
    <3>2. ASSUME GoTo("rows")
          PROVE  call'.pc = "rows"
      BY <2>1, <3>2, GoingOnTypes DEF TypeInv, Reads
    <3> QED
      BY <2>2, <3>1, <3>2
  <2> QED
    BY <2>1, <2>3, ConsumingMode DEF OkKinds
<1>7. CASE ReadRow
  <2>1. /\ Readable /\ Head(wire).kind = "row" /\ Consume /\ call'.pc = "rows"
        /\ UNCHANGED <<auto, status, mode, asked, hidden, muddled>>
    BY <1>7 DEF ReadRow, Receive, client, history, At
  <2> QED
    BY <2>1, ConsumingMode DEF OkKinds
<1>8. CASE ReadEnd
  <2>1. /\ Readable /\ Head(wire).kind \in {"eof", "eof+"} /\ Consume
        /\ Deliver(Result(FALSE, More(Head(wire).kind))) /\ call.pc = "rows"
        /\ UNCHANGED <<auto, status, mode, asked, hidden, muddled>>
    BY <1>8 DEF ReadEnd, Receive, history, At
  <2>2. call'.pc \in {"idle", "nextset", "skip", "next"}
    BY <1>0, <2>1, DeliveringTypes, ResultTypes
  <2> QED
    BY <2>1, <2>2, ConsumingMode DEF OkKinds
<1>9. CASE SendFile
  <2>1. /\ Readable /\ Head(wire).kind = "local" /\ wire' = Tail(wire)
        /\ UNCHANGED <<link, sock, auto, status, mode, asked, hidden, muddled>>
        /\ call'.pc \in {"loaded", "skipped"}
    <3>1. GoTo("loaded") \/ GoTo("skipped")
      BY <1>9 DEF SendFile
    <3>2. call'.pc \in {"loaded", "skipped"}
      BY <1>9, <3>1, GoingOnTypes DEF SendFile, At, Reads, TypeInv
    <3> QED
      BY <1>9, <3>2 DEF SendFile, client, history
  <2> SUFFICES ASSUME sock', link', ~muddled'
               PROVE  ModeInv'
    BY DEF ModeInv
  <2>2. sock /\ link /\ ~muddled /\ wire \in Seq(Packet) /\ wire # <<>>
    BY <2>1 DEF Readable, TypeInv, ChannelTypeOK
  <2>3. Tail(wire) = <<>>
    BY <2>1, <2>2, ReadIsMine, TailOfWire DEF WireInv, OwnInv, Final
  <2>4. wire' = <<>>
    BY <2>1, <2>3
  <2>5. Silent(wire)
    BY <2>1, <2>2, <2>3, TailTells, NothingTold DEF OkKinds
  <2>6. auto \in asked /\ (~hidden => status = auto)
    BY <2>2, <2>5 DEF ModeInv
  <2>7. EndsIn(wire, auto)' /\ Tells(wire, auto)'
    BY <2>4, NothingTold DEF EndsIn, Tells
  <2> QED
    BY <2>1, <2>4, <2>6, <2>7 DEF ModeInv
<1>10. CASE Finish
  <2>1. /\ Readable /\ Consume /\ call'.pc = "finish" /\ result.active
        /\ UNCHANGED <<auto, status, mode, asked, hidden, muddled>>
    BY <1>10 DEF Finish, Receive, history, At
  <2>2. Head(wire).kind \notin OkKinds
    BY <2>1, RowsFollow DEF AmidRows, InRows, OkKinds
  <2> QED
    BY <2>1, <2>2, ConsumingMode
<1>11. CASE FinishTimedOut
  <2>1. /\ Readable /\ Consume /\ call'.pc = "finish" /\ Head(wire).kind = "err"
        /\ UNCHANGED <<auto, status, mode, asked, hidden, muddled>>
    BY <1>11 DEF FinishTimedOut, Receive, history, At
  <2> QED
    BY <2>1, ConsumingMode DEF OkKinds
<1>12. CASE CommandOk
  <2>1. /\ Readable /\ Consume /\ call.pc = "ok" /\ Head(wire).kind \in Expected
        /\ UNCHANGED <<auto, mode, muddled>>
    BY <1>12 DEF CommandOk, Receive, At
  <2>2. call'.pc = "next"
    BY <1>12 DEF CommandOk, TypeInv, CallTypeOK, CallType
  <2>3. CASE Head(call.todo) = "names"
    <3>1. UNCHANGED <<status, hidden, asked>> /\ Unlooked
      BY <1>12, <2>1, <2>3 DEF CommandOk, Unlooked
    <3> QED
      BY <2>1, <2>2, <3>1, ConsumingMode
  <2>4. CASE Head(call.todo) # "names"
    <3>1. Expected = OkKinds
      BY <2>1, <2>4 DEF Expected, At, OkKinds
    <3>2. /\ Learn(Head(wire))
          /\ asked' = asked \/ (Head(call.todo) = "auto" /\ asked' = {mode})
      BY <1>12, <2>4 DEF CommandOk, AgreeOn
    <3> QED
      BY <2>1, <2>2, <3>1, <3>2, ConsumingMode
  <2> QED
    BY <2>3, <2>4
<1>13. CASE FetchRow
  <2>1. /\ Readable /\ Consume /\ Head(wire).kind \in {"row", "eof", "eof+"} /\ call' = Idle
        /\ UNCHANGED <<auto, status, mode, asked, hidden, muddled>>
    BY <1>13 DEF FetchRow, Receive, Fetched, history
  <2> QED
    BY <2>1, OwnCalls, ConsumingMode DEF OkKinds
<1> QED
  BY <1>1, <1>2, <1>3, <1>4, <1>5, <1>6, <1>7, <1>8, <1>9, <1>10, <1>11, <1>12, <1>13 DEF Read

LEMMA ContinueMode == WireInv /\ TypeInv /\ ModeInv /\ Continue => ModeInv'
<1> SUFFICES ASSUME WireInv, TypeInv, ModeInv, Continue
             PROVE  ModeInv'
  OBVIOUS
<1>0. call \in CallType
  BY DEF TypeInv, CallTypeOK
<1>1. CASE Finished
  <2>1. call'.pc \in {"nextset", "skip"}
    BY <1>0, <1>1 DEF Finished, GoTo, CallType
  <2> QED
    BY <1>1, <2>1, QuietMode DEF Finished, channel, client, history, ModeInv
<1>2. CASE Skip
  <2>1. call'.pc \in {"first", "write"}
    BY <1>0, <1>2 DEF Skip, CallType
  <2> QED
    BY <1>2, <2>1, QuietMode DEF Skip, channel, history, ModeInv
<1>3. CASE Send
  <2>1. CASE ForceClose
    BY <2>1 DEF ForceClose, ModeInv
  <2>2. CASE /\ GoTo(IF Head(call.todo) = "query" THEN "first" ELSE "ok")
             /\ wire' = [i \in DOMAIN wire |-> [wire[i] EXCEPT !.mine = FALSE]]
             /\ muddled' = (muddled \/ (wire # <<>> /\ Head(wire).pos = 1))
             /\ UNCHANGED <<link, sock, auto, client, asked, hidden>>
    <3> SUFFICES ASSUME sock', link', ~muddled'
                 PROVE  ModeInv'
      BY DEF ModeInv
    <3> DEFINE v == [i \in DOMAIN wire |-> [wire[i] EXCEPT !.mine = FALSE]]
    <3>1. /\ Foreign(v) /\ v \in Seq(Packet) /\ (v = <<>> <=> wire = <<>>)
          /\ Tells(wire, auto) => Tells(v, auto)
          /\ Silent(v) => Silent(wire)
          /\ EndsIn(wire, auto) => EndsIn(v, auto)
      BY MarkedWire, MarkTells DEF TypeInv, ChannelTypeOK
    <3>2. v # <<>> => ~Head(v).mine
      BY <3>1, TailOfWire
    <3>3. wire' = v
      BY <2>2
    <3> HIDE DEF v
    <3>4. /\ EndsIn(wire, auto)' <=> EndsIn(v, auto)
          /\ Tells(wire, auto)' <=> Tells(v, auto)
          /\ Silent(wire)' <=> Silent(v)
      BY <2>2, <3>3 DEF EndsIn, Tells, Silent
    <3>5. sock /\ link /\ ~muddled /\ UNCHANGED <<auto, status, mode, asked, hidden>>
      BY <2>2 DEF client
    <3>6. wire = <<>> => Silent(wire)
      BY NothingTold
    <3>7. Uncounted' => v = <<>>
      BY <3>2, <3>3 DEF Uncounted
    <3> QED
      BY <3>1, <3>2, <3>3, <3>4, <3>5, <3>6, <3>7 DEF ModeInv
  <2> QED
    BY <1>3, <2>1, <2>2 DEF Send
<1>4. CASE SkipAgreed
  <2>1. call'.pc = "next" /\ mode = status
    BY <1>0, <1>4 DEF SkipAgreed, Agreed, At, CallType
  <2>2. auto \in BOOLEAN
    BY DEF TypeInv, ClientTypeOK
  <2>3. wire = <<>> => Silent(wire)
    BY NothingTold
  <2>4. sock /\ link /\ ~muddled => auto \in asked'
    BY <1>4, <2>1, <2>2, <2>3 DEF SkipAgreed, AgreeOn, ModeInv
  <2> QED
    BY <1>4, <2>1, <2>4, QuietMode DEF SkipAgreed, channel, client
<1>5. CASE StartCommand
  <2>1. call'.pc = "finish"
    BY <1>0, <1>5 DEF StartCommand, GoTo, CallType
  <2> QED
    BY <1>5, <2>1, QuietMode DEF StartCommand, channel, client, history, ModeInv
<1>6. CASE NotConnected
  <2>1. call'.pc \in {"idle", "dial"} /\ UNCHANGED <<auto, status, mode, history>>
    BY <1>6, LeavingTypes DEF NotConnected
  <2> QED
    BY <1>6, <2>1, QuietMode DEF NotConnected, channel, history, ModeInv
<1>7. CASE Return
  BY <1>7, OwnCalls, QuietMode DEF Return, channel, client, history, ModeInv
<1>8. CASE NextSet
  <2>1. UNCHANGED <<channel, auto, status, history>>
    BY <1>8 DEF NextSet
  <2>2. call'.pc \in {"first", "idle", "next"}
    <3>1. CASE HasNext(call.c)
      <4>1. PICK after : call' = [call EXCEPT !.pc = "first", !.after = after]
        BY <1>8, <3>1 DEF NextSet
      <4> QED
        BY <1>0, <4>1 DEF CallType
    <3>2. CASE ~HasNext(call.c)
      BY <1>0, <1>8, <3>2, OwnCalls DEF NextSet, GoTo, CallType
    <3> QED
      BY <3>1, <3>2
  <2> QED
    BY <2>1, <2>2, QuietMode DEF channel, history, ModeInv
<1>9. CASE FetchNothing
  <2>1. call'.pc = "idle"
    BY <1>9, OwnCalls DEF FetchNothing, Fetched
  <2> QED
    BY <1>9, <2>1, QuietMode DEF FetchNothing, channel, history, ModeInv
<1> QED
  BY <1>1, <1>2, <1>3, <1>4, <1>5, <1>6, <1>7, <1>8, <1>9 DEF Continue

LEMMA AskMode == WireInv /\ TypeInv /\ ModeInv /\ Ask => ModeInv'
<1> SUFFICES ASSUME WireInv, TypeInv, ModeInv, Ask
             PROVE  ModeInv'
  OBVIOUS
<1>1. CASE Close
  BY <1>1 DEF Close, ForceClose, ModeInv
<1>2. CASE ~Close
  <2>1. Same /\ call'.pc \in {"next", "dial", "nextset", "fetch", "finish"}
    BY <1>2, AskKeeps
  <2> QED
    BY <2>1, QuietMode DEF Same, channel, history, ModeInv
<1> QED
  BY <1>1, <1>2

\* What a reply tells of the mode.
LEMMA ReplyTells ==
    ASSUME TypeInv, NEW reply \in ReplyTo(request), NEW before \in BOOLEAN, NEW after \in BOOLEAN,
           NEW v \in Seq(Packet), Sent(reply, v, before, after), ~hidden'
    PROVE  Tells(v, after) /\ (Silent(v) => after = auto)
<1>1. /\ Reply(reply) /\ Len(v) = Len(reply) /\ Len(v) \in Nat /\ Len(v) > 0
      /\ \A i \in 1..Len(v) :
             /\ v[i].kind = reply[i]
             /\ reply[i] \in OkKinds => v[i].auto = IF i = Len(v) THEN after ELSE before
      /\ before \in IF Len(v) = 1 THEN {auto} ELSE ModesAfter(reply[1], auto)
      /\ after \in ModesAfter(reply[Len(v)], before)
      /\ reply[Len(v)] = "err" => after = before
  BY EmptySeq DEF Sent, OkKinds
<1>2. 1 \in 1..Len(v) /\ Len(v) \in 1..Len(v) /\ (Len(v) # 1 => 1 \in 1..Len(v) - 1)
  BY <1>1
<1>3. reply[Len(v)] \in Final /\ (Len(v) # 1 => reply[1] \notin Final)
  BY <1>1, <1>2 DEF Reply
<1>4. v[Len(v)].kind \notin OkKinds => after = before
  BY <1>1, <1>2, <1>3 DEF ModesAfter, Final, OkKinds
<1>5. v[1].kind \notin OkKinds => before = auto
  BY <1>1, <1>2, <1>3 DEF ModesAfter, Final, OkKinds
<1>6. ASSUME NEW i \in 1..Len(v), v[i].kind \in OkKinds,
             \A j \in i + 1..Len(v) : v[j].kind \notin OkKinds
      PROVE  v[i].auto = after
  <2>1. CASE i = Len(v)
    BY <1>1, <1>6, <2>1
  <2>2. CASE i # Len(v)
    <3>1. Len(v) \in i + 1..Len(v)
      BY <1>1, <2>2
    <3> QED
      BY <1>1, <1>4, <1>6, <2>2, <3>1
  <2> QED
    BY <2>1, <2>2
<1>7. Tells(v, after)
  BY <1>6 DEF Tells
<1>8. Silent(v) => after = auto
  BY <1>2, <1>4, <1>5 DEF Silent
<1> QED
  BY <1>7, <1>8

LEMMA ServeMode == WireInv /\ TypeInv /\ ModeInv /\ Serve => ModeInv'
<1> SUFFICES ASSUME WireInv, TypeInv, ModeInv, Serve, sock', link', ~muddled'
             PROVE  ModeInv'
  BY DEF ModeInv
<1>1. PICK reply \in ReplyTo(request), before \in BOOLEAN, after \in BOOLEAN,
           v \in Seq(Packet) :
        Sent(reply, v, before, after)
  BY ServeWire DEF TypeInv
<1>2. /\ sock /\ link /\ ~muddled /\ request # "none"
      /\ UNCHANGED <<status, mode, call, muddled>>
  BY DEF Serve, client
<1>3. /\ v # <<>> /\ wire' = wire \o v /\ auto' = after /\ asked' = asked \cup {after}
      /\ hidden' = (hidden \/ (reply[Len(reply)] = "err" /\ after # before))
      /\ Len(v) = Len(reply) /\ \A i \in 1..Len(v) : v[i].mine
  BY <1>1 DEF Sent
<1>4. Pending /\ Foreign(wire) /\ wire \in Seq(Packet)
  BY <1>2 DEF WireInv, OwnInv, TypeInv, ChannelTypeOK
<1>5. wire # <<>> => ~Head(wire).mine
  BY <1>4, TailOfWire
<1> DEFINE u == wire \o v
<1>6. /\ Tells(v, after) /\ (Silent(v) => Tells(wire, after)) => Tells(u, after)
      /\ Silent(u) => Silent(wire) /\ Silent(v)
      /\ EndsIn(v, after) => EndsIn(u, after)
  BY <1>3, <1>4, JoinTells
<1>7. u # <<>> /\ Head(u) = IF wire = <<>> THEN Head(v) ELSE Head(wire)
  BY <1>3, <1>4, JoinedWires
<1>8. wire' = u
  BY <1>3
<1> HIDE DEF u
<1>9. /\ EndsIn(wire, auto)' <=> EndsIn(u, after)
      /\ Tells(wire, auto)' <=> Tells(u, after)
      /\ Silent(wire)' <=> Silent(u)
  BY <1>3, <1>8 DEF EndsIn, Tells, Silent
<1>10. EndsIn(v, after)
  <2>1. Len(v) \in 1..Len(v) /\ Len(v) = Len(reply)
    <3>1. Len(v) \in Nat \ {0}
      BY <1>3, EmptySeq
    <3> QED
      BY <1>3, <3>1
  <2> QED
    BY <1>1, <2>1 DEF EndsIn, Sent
<1>11. ~hidden' => Tells(v, after) /\ (Silent(v) => after = auto)
  BY <1>1, ReplyTells
<1>12. ~hidden' => ~hidden
  BY <1>3
<1>13. ~hidden' => Tells(u, after)
  BY <1>2, <1>6, <1>11, <1>12 DEF ModeInv
<1>14. ~hidden' /\ Silent(u) => status = after
  BY <1>2, <1>6, <1>11, <1>12 DEF ModeInv
<1>15. wire = <<>> => Silent(wire)
  BY NothingTold
<1>16. request \in {"names", "file"} => after = auto
  <2>1. ASSUME request \in {"names", "file"}
        PROVE  after = auto
    <3>1. ReplyTo(request) = {<<"ok">>, <<"err">>}
      BY <2>1 DEF ReplyTo
    <3>2. Len(reply) = 1
      BY <3>1
    <3>3. before = auto /\ after \in ModesAfter(reply[Len(reply)], before)
      BY <1>1, <3>2 DEF Sent
    <3> QED
      BY <2>1, <3>3 DEF ModesAfter
  <2> QED
    BY <2>1
<1>17. ~hidden' /\ Uncounted' => status = after
  <2>1. ASSUME ~hidden', Uncounted'
        PROVE  status = after
    <3>1. wire = <<>> /\ Unlooked
      BY <1>2, <1>5, <1>7, <1>8, <2>1 DEF Uncounted, Unlooked
    <3>2. request \in {"names", "file"}
      BY <1>4, <3>1 DEF Pending, Unlooked
    <3>3. status = auto
      BY <1>2, <1>12, <1>15, <2>1, <3>1 DEF ModeInv
    <3> QED
      BY <1>16, <3>2, <3>3
  <2> QED
    BY <2>1
<1>18. ASSUME call.pc = "ok", Head(call.todo) = "auto", Head(u).mine, Head(u).kind \in OkKinds
       PROVE  after = mode
  <2>1. wire = <<>> /\ Head(u) = Head(v)
    BY <1>5, <1>7, <1>18
  <2>2. request = "auto"
    BY <1>4, <1>18 DEF Pending
  <2>3. ReplyTo(request) = {<<"ok">>, <<"err">>}
    BY <2>2 DEF ReplyTo
  <2>4. Len(reply) = 1
    BY <2>3
  <2>5. /\ reply[1] \in {"ok", "err"}
        /\ Head(v).kind = reply[1]
        /\ after \in ModesAfter(reply[1], before)
    BY <1>1, <2>3, <2>4 DEF Sent
  <2>6. reply[1] = "ok"
    BY <1>18, <2>1, <2>5 DEF OkKinds
  <2> QED
    BY <2>2, <2>5, <2>6 DEF ModesAfter
<1> QED
  BY <1>2, <1>3, <1>6, <1>7, <1>8, <1>9, <1>10, <1>13, <1>14, <1>17, <1>18 DEF ModeInv

LEMMA ModeInit == DriverInit => ModeInv
BY DEF DriverInit, SessionInit, ModeInv

LEMMA ModeStays == WireInv /\ TypeInv /\ ModeInv /\ [DriverNext]_driverVars => ModeInv'
<1> SUFFICES ASSUME WireInv, TypeInv, ModeInv, [DriverNext]_driverVars
             PROVE  ModeInv'
  OBVIOUS
<1>1. CASE UNCHANGED sessionVars
  BY <1>1 DEF sessionVars, channel, client, history, ModeInv, EndsIn, Tells, Silent, Uncounted,
              Unlooked
<1>2. CASE Connected
  <2>1. /\ call'.pc = "next" /\ wire' = <<>> /\ status' = auto'
        /\ auto' \in BOOLEAN /\ asked' = BOOLEAN
    BY <1>2 DEF Connected, NewSession, GoTo, TypeInv, CallTypeOK, CallType
  <2>2. EndsIn(wire, auto)' /\ Tells(wire, auto)'
    BY <2>1, NothingTold DEF EndsIn, Tells
  <2> QED
    BY <2>1, <2>2 DEF ModeInv
<1>3. CASE Refused
  BY <1>3 DEF Refused, ForceClose, ModeInv
<1>4. CASE LinkLost
  BY <1>4 DEF LinkLost, ModeInv
<1> QED
  BY <1>1, <1>2, <1>3, <1>4, SessionSteps, ReadMode, ContinueMode, AskMode, ServeMode
  DEF SessionStep

LEMMA ModeHolds == DriverSpec => [](TypeInv /\ ModeInv)
BY TypeInit, TypeStays, WireInit, WireStays, ModeInit, ModeStays, PTL DEF DriverSpec

\* Between calls the client knows the server's autocommit mode, once every result has been
\* read and unless an error packet hid a change of it.
THEOREM ModeKnown == DriverSpec => []StatusFresh
<1>1. ASSUME TypeInv, ModeInv
      PROVE  StatusFresh
  <2>1. wire = <<>> => Silent(wire)
    BY NothingTold
  <2> QED
    BY <1>1, <2>1 DEF ModeInv, StatusFresh
<1> QED
  BY <1>1, ModeHolds, PTL

\* The server is in the autocommit mode agreed on or in one that the application's own
\* statements set since; autocommit() agrees on nothing where it sends nothing because
\* of flags that are out of date.
THEOREM ModeAgreed == DriverSpec => []AutocommitKept
<1>1. ModeInv => AutocommitKept
  BY DEF ModeInv, AutocommitKept
<1> QED
  BY <1>1, ModeHolds, PTL

=============================================================================
