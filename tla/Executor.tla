------------------------------ MODULE Executor ------------------------------
(***************************************************************************)
(* executor/src/lib.rs with --fix-attach: tracer threads (clients) send    *)
(* their ptrace requests over one bounded channel to the main thread,      *)
(* which serves them until the root's tracer thread calls stop().  A       *)
(* request carries the sending half of its own result channel; when the    *)
(* request is dropped unserved, so is that half.  actual_main joins the    *)
(* root's thread after serve() and leaves, dropping the server.            *)
(***************************************************************************)
EXTENDS Naturals, Sequences

CONSTANTS
    Clients,    \* tracer threads
    Root,       \* the tracer thread of the first tracee
    Capacity,   \* of the request channel; sync_channel(1)
    MaxReqs     \* bound: requests per client

ASSUME ExecutorAssumption ==
    /\ Root \in Clients /\ Capacity \in Nat \ {0} /\ MaxReqs \in Nat
    /\ {"none", "Disconnected"} \cap Clients = {}

VARIABLES
    should_serve,  \* the shared flag
    server,        \* where the main thread is
    item,          \* what recv_timeout returned: a client, or "Disconnected"
    queue,         \* the request channel: clients whose request is in it
    client,        \* per client: where the thread is
    result,        \* per client: number of the request whose result is ready, or 0
    reqs,          \* per client: requests issued
    ran            \* history, per client: requests run

vars == <<should_serve, server, item, queue, client, result, reqs, ran>>

\* Every variable has its type; the channel never exceeds its capacity.
TypeOK ==
    /\ should_serve \in BOOLEAN
    /\ server \in {"start", "check", "recv", "recheck", "returned", "failed", "gone"}
    /\ item \in Clients \cup {"none", "Disconnected"}
    /\ queue \in Seq(Clients) /\ Len(queue) <= Capacity
    /\ client \in [Clients -> {"unborn", "idle", "sending", "waiting", "stopped",
                               "finished"}]
    /\ result \in [Clients -> 0..MaxReqs]
    /\ reqs \in [Clients -> 0..MaxReqs] /\ ran \in [Clients -> 0..MaxReqs]

Init ==
    /\ should_serve = FALSE /\ server = "start" /\ item = "none" /\ queue = <<>>
    /\ client = [c \in Clients |-> IF c = Root THEN "idle" ELSE "unborn"]
    /\ result = [c \in Clients |-> 0]
    /\ reqs = [c \in Clients |-> 0] /\ ran = [c \in Clients |-> 0]

HoldsSender(c) == client[c] \notin {"unborn", "finished"}
Disconnected == queue = <<>> /\ \A c \in Clients : ~HoldsSender(c)

-----------------------------------------------------------------------------
(* The main thread: serve() and the end of actual_main. *)

Serve ==
    /\ server = "start" /\ should_serve' = TRUE /\ server' = "check"
    /\ UNCHANGED <<item, queue, client, result, reqs, ran>>

Check ==
    /\ server = "check" /\ server' = IF should_serve THEN "recv" ELSE "returned"
    /\ UNCHANGED <<should_serve, item, queue, client, result, reqs, ran>>

\* As a slip: the request stays in the channel.
ReceivePeek ==
    /\ server = "recv"
    /\ \/ /\ queue # <<>> /\ item' = Head(queue) /\ server' = "recheck"
       \/ /\ Disconnected /\ item' = "Disconnected" /\ server' = "recheck"
       \/ /\ queue = <<>> /\ ~Disconnected /\ server' = "check" /\ UNCHANGED item
    /\ UNCHANGED <<queue, should_serve, client, result, reqs, ran>>

\* recv_timeout: a request, the end of all clients, or nothing for 100 ms.
Receive ==
    /\ server = "recv"
    /\ \/ /\ queue # <<>> /\ item' = Head(queue) /\ queue' = Tail(queue)
          /\ server' = "recheck"
       \/ /\ Disconnected /\ item' = "Disconnected" /\ queue' = queue
          /\ server' = "recheck"
       \/ /\ queue = <<>> /\ ~Disconnected /\ server' = "check"
          /\ UNCHANGED <<item, queue>>
    /\ UNCHANGED <<should_serve, client, result, reqs, ran>>

\* As slips: a request that comes with the stop is thrown away; its result is.
RunDropped ==
    /\ server = "recheck" /\ item \in Clients
    /\ IF should_serve THEN /\ result' = [result EXCEPT ![item] = reqs[item]]
                            /\ ran' = [ran EXCEPT ![item] = @ + 1]
                       ELSE UNCHANGED <<result, ran>>
    /\ item' = "none" /\ server' = "check"
    /\ UNCHANGED <<should_serve, queue, client, reqs>>
RunSilent ==
    /\ server = "recheck" /\ item \in Clients
    /\ ran' = [ran EXCEPT ![item] = @ + 1]
    /\ item' = "none" /\ server' = "check"
    /\ UNCHANGED <<should_serve, queue, client, result, reqs>>

\* A dequeued request is run whether or not stop() came meanwhile; its result
\* goes into the request's own channel, whose receiver is waiting.
Run ==
    /\ server = "recheck" /\ item \in Clients
    /\ result' = [result EXCEPT ![item] = reqs[item]]
    /\ ran' = [ran EXCEPT ![item] = @ + 1]
    /\ item' = "none" /\ server' = "check"
    /\ UNCHANGED <<should_serve, queue, client, reqs>>

\* No client is left: an error, unless stop() was called.
AllGone ==
    /\ server = "recheck" /\ item = "Disconnected"
    /\ item' = "none" /\ server' = IF should_serve THEN "failed" ELSE "check"
    /\ UNCHANGED <<should_serve, queue, client, result, reqs, ran>>

\* actual_main: join the root's thread after serve(), not at all after its
\* error; the server and the requests left in its channel are dropped.
Leave ==
    /\ \/ server = "returned" /\ client[Root] = "finished"
       \/ server = "failed"
    /\ server' = "gone" /\ queue' = <<>>
    /\ UNCHANGED <<should_serve, item, client, result, reqs, ran>>

-----------------------------------------------------------------------------
(* The tracer threads. *)

\* A tracer that has asked for the number of a new process starts its tracer.
Fork(c, d) ==
    /\ client[c] = "idle" /\ reqs[c] > 0 /\ client[d] = "unborn"
    /\ client' = [client EXCEPT ![d] = "idle"]
    /\ UNCHANGED <<should_serve, server, item, queue, result, reqs, ran>>

\* execute() creates the request ...
Execute(c) ==
    /\ client[c] = "idle" /\ reqs[c] < MaxReqs
    /\ reqs' = [reqs EXCEPT ![c] = @ + 1]
    /\ client' = [client EXCEPT ![c] = "sending"]
    /\ UNCHANGED <<should_serve, server, item, queue, result, ran>>

\* ... sends it when the channel has room ...  When the server is gone this is
\* an error that ends the thread; the root's thread has been joined by then.
Send(c) ==
    /\ client[c] = "sending"
    /\ IF server = "gone"
       THEN client' = [client EXCEPT ![c] = "finished"] /\ queue' = queue
       ELSE /\ Len(queue) < Capacity /\ queue' = Append(queue, c)
            /\ client' = [client EXCEPT ![c] = "waiting"]
    /\ UNCHANGED <<should_serve, server, item, result, reqs, ran>>

\* Has the sending half of the result channel been dropped with the request?
RequestDropped(c) == server = "gone" /\ result[c] = 0

\* ... and waits for the result.
Return(c) ==
    /\ client[c] = "waiting"
    /\ \/ /\ result[c] # 0 /\ client' = [client EXCEPT ![c] = "idle"]
       \/ RequestDropped(c) /\ client' = [client EXCEPT ![c] = "finished"]
    /\ result' = [result EXCEPT ![c] = 0]
    /\ UNCHANGED <<should_serve, server, item, queue, reqs, ran>>

\* As a slip: the flag is not written.
StopForgotten ==
    /\ client[Root] = "idle"
    /\ client' = [client EXCEPT ![Root] = "stopped"]
    /\ UNCHANGED <<should_serve, server, item, queue, result, reqs, ran>>

\* The event_loop of the root returns and its callback calls stop().
Stop ==
    /\ client[Root] = "idle"
    /\ should_serve' = FALSE
    /\ client' = [client EXCEPT ![Root] = "stopped"]
    /\ UNCHANGED <<server, item, queue, result, reqs, ran>>

\* A thread ends and drops its sender.
Finish(c) ==
    /\ client[c] = IF c = Root THEN "stopped" ELSE "idle"
    /\ client' = [client EXCEPT ![c] = "finished"]
    /\ UNCHANGED <<should_serve, server, item, queue, result, reqs, ran>>

Over == server = "gone" /\ (\A c \in Clients : ~HoldsSender(c)) /\ UNCHANGED vars

Server == Serve \/ Check \/ Receive \/ Run \/ AllGone \/ Leave
Client(c) == Execute(c) \/ Send(c) \/ Return(c) \/ Finish(c)

Next ==
    \/ Server \/ Stop \/ Over
    \/ \E c \in Clients : Client(c) \/ \E d \in Clients : Fork(c, d)

Spec == Init /\ [][Next]_vars

\* The threads are scheduled: the server and a thread inside execute() go on.
\* Whether a tracer issues another request or ends is up to its tracee, but the
\* root's thread ends once it has called stop().
Fairness ==
    /\ WF_vars(Server)
    /\ WF_vars(Finish(Root) /\ client[Root] = "stopped")
    /\ \A c \in Clients : WF_vars(Send(c)) /\ WF_vars(Return(c))

FairSpec == Spec /\ Fairness

-----------------------------------------------------------------------------
(* Properties. *)

\* A thread that waits in execute() waits for something: its request is in the
\* channel or in the hands of the server, or its result is ready, or the server
\* is gone and the wait ends with an error.  A stop() that races with a request
\* loses none.  (serve, execute)
NoLostRequest ==
    \A c \in Clients :
        client[c] = "waiting" =>
            \/ \E i \in 1..Len(queue) : queue[i] = c
            \/ item = c
            \/ result[c] = reqs[c]
            \/ server = "gone"

\* A request is run at most once, and execute() returns its own result only
\* after it has been run: never before, never that of an earlier request.
\* (execute, serve)
RunOnceInOrder ==
    \A c \in Clients :
        /\ ran[c] \in {reqs[c], reqs[c] - 1}
        /\ result[c] # 0 => result[c] = reqs[c] /\ ran[c] = reqs[c]
        /\ client[c] = "idle" => ran[c] = reqs[c]

\* Every execute() returns, with a result or with an error, also when stop()
\* comes while requests are under way.  (serve, execute, actual_main)
ExecuteReturns ==
    \A c \in Clients :
        client[c] \in {"sending", "waiting"} ~> client[c] \notin {"sending", "waiting"}

\* Once the root's thread has called stop(), serve() returns, whatever the other
\* tracer threads do, provided serve() was running: the root has had a request
\* answered.  (stop, serve)
StopHonoured ==
    (client[Root] = "stopped" /\ reqs[Root] > 0) ~> server \in {"returned", "gone"}

\* serve() returns Ok whenever stop() is called, as the unwrap in it_works
\* expects.  (stop, serve)
ServeUnwraps == server # "failed"

\* When pocker reports the end, every tracer thread has ended.  (actual_main)
AllTraceesExited ==
    server = "gone" => \A c \in Clients : client[c] \in {"unborn", "finished"}
=============================================================================
