--------------------------- MODULE ConnectionPool ---------------------------
(***************************************************************************)
(* The connection pool of internal/concurrency/connection_pool.go: an HTTP *)
(* client per instance and browser profile, made on first use, dropped     *)
(* with its instance after ten quiet minutes, and all dropped by Close.    *)
(* GetClient, cleanup and Close hold cp.mu and are atomic.                 *)
(*                                                                         *)
(* A client keeps connections, each wrapped in a trackedConn that counts   *)
(* it while it is open.  When net/http dials, keeps, reuses and closes one *)
(* is its own affair: it may close a connection more than once.  The       *)
(* settings that a client gets from its profile do not differ here, and    *)
(* the statistics of reuse and of times are left out.                      *)
(***************************************************************************)
EXTENDS Integers, FiniteSets

CONSTANTS
    Instances,
    Profiles,       \* signatures of browser profiles
    Conns,          \* connections dialled in a behaviour
    MaxClients,     \* bound: clients made in a behaviour
    IdleLimit,      \* the ten minutes of cleanup, in ticks
    NoClient

ASSUME PoolAssumption ==
    /\ IsFiniteSet(Conns)
    /\ MaxClients \in Nat
    /\ IdleLimit \in Nat \ {0}
    /\ NoClient \notin Nat

VARIABLES
    clients,        \* cp.pools: the client for each instance and profile
    unused,         \* ticks since lastUsed of each instance's pool
    made,           \* metrics.TotalConnections, which counts clients
    conns,          \* the connections, with the client each belongs to
    open            \* metrics.ActiveConnections

pool == <<clients, unused, made, conns, open>>

Keys == Instances \X Profiles

PoolInit ==
    /\ clients = [k \in Keys |-> NoClient]
    /\ unused = [i \in Instances |-> 0]
    /\ made = 0
    /\ conns = [c \in Conns |-> [at |-> "undialled", client |-> NoClient]]
    /\ open = 0

Pooled(i) == \E p \in Profiles : clients[<<i, p>>] # NoClient

\* Mistake: only a new client counts as a use.
TouchedOnCreation(i, p) ==
    [unused EXCEPT ![i] = IF clients[<<i, p>>] = NoClient THEN 0 ELSE @]

Touched(i, p) == [unused EXCEPT ![i] = 0]

\* The pooled client for the key, or a new one.
GetClient(i, p, client) ==
    /\ unused' = Touched(i, p)
    /\ \/ /\ clients[<<i, p>>] # NoClient
          /\ client = clients[<<i, p>>]
          /\ UNCHANGED <<clients, made>>
       \/ /\ clients[<<i, p>>] = NoClient
          /\ made < MaxClients /\ client = made + 1
          /\ clients' = [clients EXCEPT ![<<i, p>>] = client]
          /\ made' = client
    /\ UNCHANGED <<conns, open>>

-----------------------------------------------------------------------------
(* Connections *)

Dial(c, client) ==
    /\ conns[c].at = "undialled"
    /\ conns' = [conns EXCEPT ![c] = [at |-> "busy", client |-> client]]
    /\ open' = open + 1
    /\ UNCHANGED <<clients, unused, made>>

Reuse(c, client) ==
    /\ conns[c] = [at |-> "idle", client |-> client]
    /\ conns' = [conns EXCEPT ![c].at = "busy"]
    /\ UNCHANGED <<clients, unused, made, open>>

Keep(c) ==
    /\ conns[c].at = "busy"
    /\ conns' = [conns EXCEPT ![c].at = "idle"]
    /\ UNCHANGED <<clients, unused, made, open>>

\* Mistake: every Close counts.
StillOpenAlways(c) == TRUE

\* The compare-and-swap of trackedConn.Close.
StillOpen(c) == conns[c].at # "closed"

CloseConn(c) ==
    /\ conns[c].at # "undialled"
    /\ open' = IF StillOpen(c) THEN open - 1 ELSE open
    /\ conns' = [conns EXCEPT ![c].at = "closed"]
    /\ UNCHANGED <<clients, unused, made>>

-----------------------------------------------------------------------------
(* cleanup and Close *)

\* instancePool.close: the idle connections of the instances' clients are closed,
\* busy ones are not, and the clients are forgotten.
Forget(is) ==
    LET gone == {clients[<<i, p>>] : i \in is, p \in Profiles} \ {NoClient}
        idle == {c \in Conns : conns[c].at = "idle" /\ conns[c].client \in gone}
    IN  /\ clients' = [k \in Keys |-> IF k[1] \in is THEN NoClient ELSE clients[k]]
        /\ conns' = [c \in Conns |-> IF c \in idle THEN [conns[c] EXCEPT !.at = "closed"]
                                     ELSE conns[c]]
        /\ open' = open - Cardinality(idle)
        /\ unused' = [i \in Instances |-> IF i \in is THEN 0 ELSE unused[i]]
        /\ UNCHANGED made

Cleanup ==
    LET quiet == {i \in Instances : Pooled(i) /\ unused[i] > IdleLimit}
    IN  quiet # {} /\ Forget(quiet)

ClosePool == Forget(Instances)

\* A tick of the clock; nobody tells times beyond the limit apart.
Aged == [i \in Instances |-> IF Pooled(i) /\ unused[i] <= IdleLimit THEN unused[i] + 1 ELSE unused[i]]

-----------------------------------------------------------------------------

PoolTypeOK ==
    /\ clients \in [Keys -> 1 .. MaxClients \cup {NoClient}]
    /\ unused \in [Instances -> 0 .. IdleLimit + 1]
    /\ made \in 0 .. MaxClients
    /\ conns \in [Conns -> [at : {"undialled", "busy", "idle", "closed"},
                            client : 1 .. MaxClients \cup {NoClient}]]
    /\ open \in Int

\* ActiveConnections is the number of connections that are open, however often
\* net/http closes one and whether the pool or the transport does it.
OpenExact == open = Cardinality({c \in Conns : conns[c].at \in {"busy", "idle"}})
=============================================================================
