---------------------------- MODULE AliasRegister ----------------------------
(***************************************************************************)
(* What a versionless context name promises its clients: a register whose  *)
(* value changes only on behalf of a client that has seen the value it     *)
(* replaces, and that is never written again once it is closed.            *)
(***************************************************************************)
EXTENDS Naturals

CONSTANTS RegisterName, RegisterClient

VARIABLES current,             \* the written names: version and closed
          seen                 \* the name and version each client saw last

registerVars == <<current, seen>>

Unseen == [of |-> {}, version |-> 0]

RegisterInit == current = <<>> /\ seen = [c \in RegisterClient |-> Unseen]

Saw(c, n) == seen[c] = [of |-> {n}, version |-> current[n].version]

Write(n, version, closed) ==
    current' = [x \in DOMAIN current \cup {n} |->
                  IF x = n THEN [version |-> version, closed |-> closed] ELSE current[x]]

Knows(c, n) == seen' = [seen EXCEPT ![c] = [of |-> {n}, version |-> current'[n].version]]

Observe(c, n) ==
    /\ n \in DOMAIN current /\ ~current[n].closed
    /\ UNCHANGED current
    /\ Knows(c, n)

CreateName(c, n) == n \notin DOMAIN current /\ Write(n, 1, FALSE) /\ Knows(c, n)

Replace(c, n, closed) ==
    /\ n \in DOMAIN current /\ ~current[n].closed /\ Saw(c, n)
    /\ Write(n, current[n].version + 1, closed)
    /\ Knows(c, n)

\* A client may lose what it saw.
Lose(c) == seen' = [seen EXCEPT ![c] = Unseen] /\ UNCHANGED current

RegisterNext ==
    \/ \E c \in RegisterClient : Lose(c)
    \/ \E c \in RegisterClient, n \in RegisterName :
          Observe(c, n) \/ CreateName(c, n) \/ (\E closed \in BOOLEAN : Replace(c, n, closed))

RegisterSpec == RegisterInit /\ [][RegisterNext]_registerVars
=============================================================================
