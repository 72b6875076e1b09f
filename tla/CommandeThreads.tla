--------------------------- MODULE CommandeThreads ---------------------------
(* How Commande runs a request: its endpoint, and then the end of its        *)
(* response, each need one of the server's threads; its session holds a      *)
(* database connection from its first query to the end of the response, but    *)
(* for a commit, which gives it back.                                        *)
EXTENDS Naturals, FiniteSets

CONSTANTS
    Jobs,            \* requests that Commande may receive
    Placing,         \* those among them that place an order
    Threads,         \* threads of the server
    Connections,     \* pool_size + max_overflow
    Tasks            \* background threads: consumer, relay, deadline

VARIABLES
    stage,           \* stage[j]: how far the request is
    task,            \* task[b]: whether the background thread holds a connection
    placed           \* requests that committed their order

commandeVars == <<stage, task, placed>>

\* The endpoint runs in a thread, and so does what follows it. Between the two the
\* request waits for a thread and keeps its connection.
Stages == {"none", "queued", "calls", "waits", "works", "rereads", "leaves", "ended"}
InThread == {"calls", "waits", "works", "rereads"}
Connected == {"works", "leaves"}

CommandeThreadsInit ==
    /\ stage = [j \in Jobs |-> "none"]
    /\ task = [b \in Tasks |-> "rests"]
    /\ placed = {}

At(j, s) == stage[j] = s
Enters(j, s) == stage' = [stage EXCEPT ![j] = s]

ThreadIsFree == Cardinality({j \in Jobs : stage[j] \in InThread}) < Threads

\* Mutant: the pool has its pool_size and no max_overflow.
ConnectionIsFree_NoOverflow ==
    Cardinality({j \in Jobs : stage[j] \in Connected})
        + Cardinality({b \in Tasks : task[b] = "works"}) < Connections \div 2

ConnectionIsFree ==
    Cardinality({j \in Jobs : stage[j] \in Connected})
        + Cardinality({b \in Tasks : task[b] = "works"}) < Connections

Arrives(j) == At(j, "none") /\ Enters(j, "queued") /\ UNCHANGED <<task, placed>>

\* create_order adds to its session without a query and calls the services first.
Begins(j) ==
    /\ At(j, "queued") /\ ThreadIsFree
    /\ Enters(j, IF j \in Placing THEN "calls" ELSE "waits")
    /\ UNCHANGED <<task, placed>>

CallsEnd(j) == At(j, "calls") /\ Enters(j, "waits") /\ UNCHANGED <<task, placed>>

Connects(j) ==
    /\ At(j, "waits") /\ ConnectionIsFree
    /\ Enters(j, "works")
    /\ UNCHANGED <<task, placed>>

\* Mutant: a thread waits for a connection as long as it takes.
WaitTimesOut_Never(j) == FALSE /\ UNCHANGED commandeVars

\* No connection was free for pool_timeout: the request raises and answers 500, after
\* its commit as well.
WaitTimesOut(j) ==
    /\ At(j, "waits") \/ At(j, "rereads")
    /\ ~ConnectionIsFree
    /\ Enters(j, "ended")
    /\ UNCHANGED <<task, placed>>

\* get_order has read its order and returns it.
Reads(j) ==
    /\ At(j, "works") /\ j \notin Placing
    /\ Enters(j, "leaves")
    /\ UNCHANGED <<task, placed>>

\* create_order commits, which gives its connection back to the pool.
Commits(j) ==
    /\ At(j, "works") /\ j \in Placing
    /\ placed' = placed \cup {j}
    /\ Enters(j, "rereads")
    /\ UNCHANGED task

\* It takes one again to read its order back, and returns it.
Refreshes(j) ==
    /\ At(j, "rereads") /\ ConnectionIsFree
    /\ Enters(j, "leaves")
    /\ UNCHANGED <<task, placed>>

\* The order is not found, or a query or the commit fails.
Raises(j) ==
    /\ At(j, "works") \/ (At(j, "rereads") /\ ConnectionIsFree)
    /\ Enters(j, "ended")
    /\ UNCHANGED <<task, placed>>

\* In a thread again, the response is built from the order, whose lines are still read
\* from the database, and get_session closes the session.
Finishes(j) ==
    /\ At(j, "leaves") /\ ThreadIsFree
    /\ Enters(j, "ended")
    /\ UNCHANGED <<task, placed>>

\* A turn of a background thread, which holds a connection and none of the threads.
TaskConnects(b) ==
    /\ task[b] = "rests" /\ ConnectionIsFree
    /\ task' = [task EXCEPT ![b] = "works"]
    /\ UNCHANGED <<stage, placed>>

TaskEnds(b) ==
    /\ task[b] = "works"
    /\ task' = [task EXCEPT ![b] = "rests"]
    /\ UNCHANGED <<stage, placed>>
=============================================================================
