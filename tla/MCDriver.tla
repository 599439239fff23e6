------------------------------- MODULE MCDriver -------------------------------
(* One buffered and one unbuffered cursor.  The first attempt to connect has  *)
(* all settings; a reconnect meets a server that knows the account no longer. *)
EXTENDS Driver

CONSTANTS c1, c2, nobody

MCSettings ==
    {a \in Attempts :
        /\ a.tls # "refused" /\ a.announced = "caching"
        /\ a.account \in {"caching", "sha256", "unknown"}
        /\ a.password = "right" /\ a.crypto /\ ~a.nacl /\ a.key = "current" /\ ~a.cached}
===============================================================================
