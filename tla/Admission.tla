------------------------------ MODULE Admission ------------------------------
(***************************************************************************)
(* Admission of a socket (onConnect before ship entry): the token, the     *)
(* return telemetry, presence, the cap on an account's sockets and the cap *)
(* on seats; and what onDisconnect takes back.  Two database calls are     *)
(* awaited on the way in, and the transport may close during either.       *)
(*                                                                         *)
(* Boarding and leaving are module Lifecycle; here they only take and give *)
(* back a seat.                                                            *)
(***************************************************************************)
EXTENDS Lists, FiniteSets, SequencesExt

CONSTANTS
    Users, Sockets,
    Account,      \* the user whose token each socket carries
    MaxSockets,   \* MAX_SOCKETS_PER_USER
    MaxSeats      \* MAXPLRS

ASSUME AccountAssumption == Account \in [Sockets -> Users]
ASSUME CapsAssumption    == MaxSockets \in Nat \ {0} /\ MaxSeats \in Nat

VARIABLES
    conn,           \* the transport of each socket
    arrivals,       \* the connection handlers in flight, by what they await
    presence,       \* PresenceService.online
    socketsByUser,  \* the account's sockets, oldest first
    flying          \* sockets whose hull is in the world with status GESTAT_USER

doorVars == <<conn, arrivals, presence, socketsByUser, flying>>

Arrival == [sock : Sockets, at : {"validate", "return"}]

Open == {s \in Sockets : conn[s] = "open"}

\* client.data.userid is set once the guard has answered.
Authed(s) == [sock |-> s, at |-> "validate"] \notin arrivals

\* The connection handler has gone on to ship entry.
Admitted(s) == conn[s] # "absent" /\ \A a \in arrivals : a.sock # s

DoorTypeOK ==
    /\ conn \in [Sockets -> {"absent", "open", "closed"}]
    /\ arrivals \in SUBSET Arrival
    /\ presence \in SUBSET Users
    /\ socketsByUser \in [Users -> Seq(Sockets)]
    /\ \A u \in Users : ToSet(socketsByUser[u]) \subseteq {s \in Sockets : Account[s] = u}
    /\ \A u \in Users : Len(socketsByUser[u]) <= MaxSockets
    /\ flying \in SUBSET Sockets

DoorInit ==
    /\ conn = [s \in Sockets |-> "absent"]
    /\ arrivals = {}
    /\ presence = {}
    /\ socketsByUser = [u \in Users |-> <<>>]
    /\ flying = {}

-----------------------------------------------------------------------------

Connect(s) ==
    /\ conn[s] = "absent"
    /\ conn' = [conn EXCEPT ![s] = "open"]
    /\ arrivals' = arrivals \cup {[sock |-> s, at |-> "validate"]}
    /\ UNCHANGED <<presence, socketsByUser, flying>>

\* The guard refuses the token and disconnects the socket.
Rejected(a) ==
    /\ a.at = "validate"
    /\ arrivals' = arrivals \ {a}
    /\ conn' = [conn EXCEPT ![a.sock] = "closed"]
    /\ UNCHANGED <<presence, socketsByUser, flying>>

\* The token is good; telemetry.recordReturn is awaited next.
Validated(a) ==
    /\ a.at = "validate"
    /\ arrivals' = (arrivals \ {a}) \cup {[a EXCEPT !.at = "return"]}
    /\ UNCHANGED <<conn, presence, socketsByUser, flying>>

\* The account's other sockets, oldest first.
Others(s) == Filtered(socketsByUser[Account[s]], Sockets \ {s})

\* Mutant of Evicted: the arrival is not counted.
EvictedOffByOne(s) ==
    IF Len(Others(s)) > MaxSockets
    THEN ToSet(SubSeq(Others(s), 1, Len(Others(s)) - MaxSockets)) ELSE {}

\* capSocketsForUser: the oldest sockets over the cap, never the arrival.
Evicted(s) ==
    IF Len(Others(s)) + 1 > MaxSockets
    THEN ToSet(SubSeq(Others(s), 1, Len(Others(s)) + 1 - MaxSockets)) ELSE {}

\* Mutant of Capped: the list is cut at the wrong end.
CappedNewestDropped(s) ==
    LET all == Append(Others(s), s) IN
    IF Len(all) > MaxSockets THEN SubSeq(all, 1, MaxSockets) ELSE all

\* The account's list with the arrival last, cut to the cap.
Capped(s) ==
    LET all == Append(Others(s), s) IN
    IF Len(all) > MaxSockets
    THEN SubSeq(all, Len(all) - MaxSockets + 1, Len(all)) ELSE all

\* The ships in flight that are not the captain's own.
Seated(u) == {x \in flying : Account[x] # u}

\* recordReturn has answered: presence, the socket cap, the seat cap, then ship
\* entry.  The transport may have closed in the meantime; nothing asks.
Returned(a) ==
    LET s    == a.sock
        u    == Account[s]
        full == Cardinality(Seated(u)) >= MaxSeats
        D    == (Evicted(s) \cup IF full THEN {s} ELSE {}) \cap Open
    IN
    /\ a.at = "return"
    /\ arrivals' = arrivals \ {a}
    /\ conn' = [x \in Sockets |-> IF x \in D THEN "closed" ELSE conn[x]]
    \* The evicted depart after the arrival, and count the user out.
    /\ presence' = IF D = {} THEN presence \cup {u} ELSE presence \ {u}
    /\ socketsByUser' = [socketsByUser EXCEPT ![u] =
                            IF s \in D THEN Filtered(Capped(s), Sockets \ {s})
                            ELSE Capped(s)]
    /\ UNCHANGED flying

\* The transport closes, from either end: onDisconnect up to its first await.
Disconnect(s) ==
    /\ conn[s] = "open"
    /\ conn' = [conn EXCEPT ![s] = "closed"]
    /\ IF Authed(s)
       THEN /\ presence' = presence \ {Account[s]}
            /\ socketsByUser' = [socketsByUser EXCEPT ![Account[s]] =
                                    Filtered(@, Sockets \ {s})]
       ELSE UNCHANGED <<presence, socketsByUser>>
    /\ UNCHANGED <<arrivals, flying>>

\* Ship entry ends aboard a hull, at once or from the menu much later.
Board(s) ==
    /\ Admitted(s) /\ s \notin flying
    /\ flying' = flying \cup {s}
    /\ UNCHANGED <<conn, arrivals, presence, socketsByUser>>

\* The hull is put away, abandoned or destroyed.
PutAway(s) ==
    /\ s \in flying
    /\ flying' = flying \ {s}
    /\ UNCHANGED <<conn, arrivals, presence, socketsByUser>>

\* Bound: a closed socket's identity is used again once nothing of it is left.
Recycle(s) ==
    /\ conn[s] = "closed" /\ Admitted(s) /\ s \notin flying
    /\ \A u \in Users : s \notin ToSet(socketsByUser[u])
    /\ conn' = [conn EXCEPT ![s] = "absent"]
    /\ UNCHANGED <<arrivals, presence, socketsByUser, flying>>

DoorNext ==
    \/ \E s \in Sockets : Connect(s) \/ Disconnect(s) \/ Board(s) \/ PutAway(s) \/ Recycle(s)
    \/ \E a \in arrivals : Rejected(a) \/ Validated(a) \/ Returned(a)

DoorSpec == DoorInit /\ [][DoorNext]_doorVars

-----------------------------------------------------------------------------
(* Properties.                                                             *)

\* An account has at most MaxSockets live sockets past the connection handler,
\* whatever closed while its handlers were waiting (capSocketsForUser).
SocketCap ==
    \A u \in Users :
        Cardinality({s \in Open : Account[s] = u /\ Admitted(s)}) <= MaxSockets

\* The cap can see what it bounds: a live admitted socket is on its account's
\* list, so no socket escapes the next eviction.
LiveSocketsAreListed ==
    \A s \in Open : Admitted(s) => s \in ToSet(socketsByUser[Account[s]])

-----------------------------------------------------------------------------
(* Statements of the sources' comments that the code does not keep: TLC finds *)
(* a counterexample to each, and no run checks them.                          *)

\* "a player who cannot be un-counted is a player the stats page reports as
\* online forever": whoever is counted online has a live socket.
OnlineMeansConnected ==
    \A u \in presence : \E s \in Open : Account[s] = u
=============================================================================
