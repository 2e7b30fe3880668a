--------------------------- MODULE ExecutorProofs ---------------------------
(***************************************************************************)
(* Proofs about Executor for any number of tracer threads, any channel     *)
(* capacity and any number of requests, with or without an early stop.     *)
(***************************************************************************)
EXTENDS Executor, TLAPS

\* Where the request of a client is.
Queued(c) == \E i \in 1..Len(queue) : queue[i] = c
Unserved(c) == client[c] = "waiting" /\ result[c] = 0 /\ ran[c] = reqs[c] - 1

QueueInv ==
    /\ \A i \in 1..Len(queue) : Unserved(queue[i]) /\ queue[i] # item
    /\ \A i, j \in 1..Len(queue) : queue[i] = queue[j] => i = j
    /\ server = "gone" => Len(queue) = 0

ServerInv == item \in Clients => server = "recheck" /\ Unserved(item)

ClientInv ==
    \A c \in Clients :
        /\ client[c] \in {"unborn", "idle", "stopped"} => ran[c] = reqs[c]
        /\ client[c] = "sending" => ran[c] = reqs[c] - 1
        /\ client[c] = "finished" => ran[c] \in {reqs[c], reqs[c] - 1}
        /\ client[c] # "waiting" => result[c] = 0
        /\ client[c] = "waiting" =>
              /\ reqs[c] # 0
              /\ \/ ran[c] = reqs[c] /\ result[c] = reqs[c]
                 \/ Unserved(c) /\ (Queued(c) \/ item = c \/ server = "gone")

IInv == TypeOK /\ QueueInv /\ ServerInv /\ ClientInv

-----------------------------------------------------------------------------
LEMMA ExecutorStep ==
    ASSUME IInv, [Next]_vars
    PROVE  IInv'
<1> USE DEF Queued, Unserved
<1>a. TypeOK /\ QueueInv /\ ServerInv /\ ClientInv
  BY DEF IInv
<1>b. Capacity \in Nat /\ MaxReqs \in Nat /\ Root \in Clients
  BY ExecutorAssumption
<1>c. "none" \notin Clients /\ "Disconnected" \notin Clients
  BY ExecutorAssumption
<1>d. \A i \in 1..Len(queue) : queue[i] \in Clients
  BY <1>a DEF TypeOK
<1>e. ASSUME NEW c \in Clients, client[c] # "waiting"
      PROVE  item # c /\ \A i \in 1..Len(queue) : queue[i] # c
  BY <1>a, <1>e DEF QueueInv, ServerInv
<1>f. ASSUME NEW c \in Clients, client[c] # "waiting",
             UNCHANGED <<server, item, queue, result, ran>>,
             \A b \in Clients \ {c} : client'[b] = client[b] /\ reqs'[b] = reqs[b]
      PROVE  QueueInv' /\ ServerInv'
  <2>1. item # c /\ \A i \in 1..Len(queue) : queue[i] \in Clients \ {c}
    BY <1>d, <1>e, <1>f
  <2>2. \A b \in Clients \ {c} : Unserved(b) => Unserved(b)'
    BY <1>f
  <2> HIDE DEF Unserved
  <2>3. \A i \in 1..Len(queue) : Unserved(queue[i])' /\ queue[i] # item
    <3>1. \A i \in 1..Len(queue) : Unserved(queue[i]) /\ queue[i] # item
      BY <1>a DEF QueueInv
    <3>2. \A b \in Clients \ {c} : Unserved(b)' => \A i \in 1..Len(queue) :
             queue[i] = b => Unserved(queue[i])'
      BY <1>f DEF Unserved
    <3>3. QED
      BY <2>1, <2>2, <3>1, <3>2
  <2>4. QueueInv'
    BY <1>a, <1>f, <2>3 DEF QueueInv
  <2>5. ServerInv'
    BY <1>a, <1>f, <2>1, <2>2 DEF ServerInv, Unserved
  <2>6. QED
    BY <2>4, <2>5
<1>1. CASE Serve
  BY <1>a, <1>1 DEF Serve, IInv, TypeOK, QueueInv, ServerInv, ClientInv
<1>2. CASE Check
  BY <1>a, <1>2 DEF Check, IInv, TypeOK, QueueInv, ServerInv, ClientInv
<1>3. CASE Receive
  <2>1. CASE /\ queue # <<>> /\ item' = Head(queue) /\ queue' = Tail(queue)
             /\ server' = "recheck"
    <3>1. /\ item' = queue[1] /\ 1 \in 1..Len(queue) /\ queue[1] \in Clients
          /\ Len(queue') = Len(queue) - 1 /\ queue' \in Seq(Clients)
          /\ \A i \in 1..Len(queue') : queue'[i] = queue[i + 1] /\ i + 1 \in 1..Len(queue)
      BY <1>a, <2>1 DEF TypeOK
    <3>2. UNCHANGED <<should_serve, client, result, reqs, ran>> /\ server = "recv"
      BY <1>3 DEF Receive
    <3>3. TypeOK'
      <4>1. Len(queue') <= Capacity
        BY <1>a, <1>b, <3>1 DEF TypeOK
      <4>2. QED
        BY <1>a, <2>1, <3>1, <3>2, <4>1 DEF TypeOK
    <3>4. QueueInv'
      <4>1. ASSUME NEW i \in 1..Len(queue')
            PROVE  Unserved(queue[i])' /\ queue'[i] # item'
        <5>1. i + 1 \in 1..Len(queue) /\ i + 1 # 1 /\ queue'[i] = queue[i + 1]
          BY <3>1
        <5>2. Unserved(queue[i + 1]) /\ queue[i + 1] # queue[1]
          BY <1>a, <3>1, <5>1 DEF QueueInv
        <5>3. QED
          BY <3>1, <3>2, <5>1, <5>2
      <4>2. ASSUME NEW i \in 1..Len(queue'), NEW j \in 1..Len(queue'), queue'[i] = queue'[j]
            PROVE  i = j
        <5>1. i + 1 \in 1..Len(queue) /\ j + 1 \in 1..Len(queue)
              /\ queue[i + 1] = queue[j + 1]
          BY <3>1, <4>2
        <5>2. i + 1 = j + 1
          BY <1>a, <5>1 DEF QueueInv
        <5>3. QED
          BY <5>2
      <4>3. QED
        BY <2>1, <4>1, <4>2 DEF QueueInv
    <3>5. ServerInv'
      BY <1>a, <2>1, <3>1, <3>2 DEF QueueInv, ServerInv
    <3>6. \A c \in Clients : Queued(c) => item' = c \/ Queued(c)'
      <4> SUFFICES ASSUME NEW c \in Clients, NEW i \in 1..Len(queue), queue[i] = c, i # 1
                   PROVE  Queued(c)'
        BY <3>1
      <4>1. i - 1 \in 1..Len(queue') /\ (i - 1) + 1 = i
        BY <1>a, <3>1 DEF TypeOK
      <4>2. QED
        BY <3>1, <4>1, Zenon
    <3>7. ClientInv'
      BY <1>a, <1>c, <3>1, <3>2, <3>6, <2>1 DEF ClientInv, ServerInv
    <3>8. QED
      BY <3>3, <3>4, <3>5, <3>7 DEF IInv
  <2>2. CASE /\ Disconnected /\ item' = "Disconnected" /\ queue' = queue
             /\ server' = "recheck"
    BY <1>a, <1>c, <1>3, <2>2 DEF Receive, Disconnected, HoldsSender, IInv, TypeOK, QueueInv,
       ServerInv, ClientInv
  <2>3. CASE server' = "check" /\ UNCHANGED <<item, queue>>
    BY <1>a, <1>3, <2>3 DEF Receive, IInv, TypeOK, QueueInv, ServerInv, ClientInv
  <2>4. QED
    BY <1>3, <2>1, <2>2, <2>3 DEF Receive
<1>4. CASE Run
  <2>1. item \in Clients /\ Unserved(item) /\ reqs[item] # 0 /\ reqs[item] \in 0..MaxReqs
        /\ ran[item] \in 0..MaxReqs
    BY <1>a, <1>4 DEF Run, ServerInv, ClientInv, TypeOK
  <2>2. /\ result' = [result EXCEPT ![item] = reqs[item]]
        /\ ran' = [ran EXCEPT ![item] = @ + 1]
        /\ item' = "none" /\ server' = "check" /\ server = "recheck"
        /\ UNCHANGED <<should_serve, queue, client, reqs>>
    BY <1>4 DEF Run
  <2>3. ran[item] + 1 = reqs[item]
    BY <1>b, <2>1
  <2>4. TypeOK'
    BY <1>a, <1>b, <2>1, <2>2, <2>3 DEF TypeOK
  <2>5. QueueInv'
    BY <1>a, <1>c, <2>1, <2>2, SMTT(30) DEF QueueInv, TypeOK
  <2>6. ServerInv'
    BY <1>c, <2>2 DEF ServerInv
  <2>7. ClientInv'
    BY <1>a, <1>c, <2>1, <2>2, <2>3 DEF ClientInv, TypeOK
  <2>8. QED
    BY <2>4, <2>5, <2>6, <2>7 DEF IInv
<1>5. CASE AllGone
  BY <1>a, <1>c, <1>5 DEF AllGone, IInv, TypeOK, QueueInv, ServerInv, ClientInv
<1>6. CASE Leave
  <2>1. queue' = <<>> /\ Len(queue') = 0 /\ queue' \in Seq(Clients) /\ server' = "gone"
    BY <1>6 DEF Leave
  <2>2. TypeOK'
    BY <1>a, <1>b, <1>6, <2>1 DEF Leave, TypeOK
  <2>3. QueueInv' /\ ServerInv' /\ ClientInv'
    BY <1>a, <1>6, <2>1 DEF Leave, QueueInv, ServerInv, ClientInv
  <2>4. QED
    BY <2>2, <2>3 DEF IInv
<1>7. CASE Stop
  <2>1. TypeOK'
    BY <1>a, <1>b, <1>7, Zenon DEF Stop, TypeOK
  <2>2. QueueInv' /\ ServerInv'
    BY <1>a, <1>b, <1>f, <1>7 DEF Stop, TypeOK
  <2>3. ClientInv'
    BY <1>a, <1>b, <1>7 DEF Stop, TypeOK, ClientInv
  <2>4. QED
    BY <2>1, <2>2, <2>3 DEF IInv
<1>8. ASSUME NEW c \in Clients, NEW d \in Clients, Fork(c, d)
      PROVE  IInv'
  <2>1. TypeOK'
    BY <1>a, <1>b, <1>8 DEF Fork, TypeOK
  <2>2. QueueInv' /\ ServerInv'
    BY <1>a, <1>f, <1>8 DEF Fork, TypeOK
  <2>3. ClientInv'
    BY <1>a, <1>b, <1>8, SMTT(30) DEF Fork, TypeOK, ClientInv
  <2>4. QED
    BY <2>1, <2>2, <2>3 DEF IInv
<1>9. ASSUME NEW c \in Clients, Execute(c)
      PROVE  IInv'
  <2>1. TypeOK'
    <3>1. reqs' \in [Clients -> 0..MaxReqs]
      BY <1>a, <1>b, <1>9, SMTT(30) DEF Execute, TypeOK
    <3>2. QED
      BY <1>a, <1>9, <3>1 DEF Execute, TypeOK
  <2>2. QueueInv' /\ ServerInv'
    BY <1>a, <1>f, <1>9 DEF Execute, TypeOK
  <2>3. ClientInv'
    BY <1>a, <1>b, <1>9 DEF Execute, TypeOK, ClientInv
  <2>4. QED
    BY <2>1, <2>2, <2>3 DEF IInv
<1>10. ASSUME NEW c \in Clients, Send(c)
       PROVE  IInv'
  <2>1. CASE server = "gone"
    <3>1. TypeOK'
      BY <1>a, <1>b, <1>10, <2>1, Zenon DEF Send, TypeOK
    <3>2. QueueInv' /\ ServerInv'
      BY <1>a, <1>f, <1>10, <2>1, Zenon DEF Send, TypeOK
    <3>3. ClientInv'
      BY <1>a, <1>b, <1>10, <2>1, SMTT(30) DEF Send, TypeOK, ClientInv
    <3>4. QED
      BY <3>1, <3>2, <3>3 DEF IInv
  <2>2. CASE server # "gone"
    <3>1. /\ queue' = Append(queue, c) /\ Len(queue) < Capacity /\ client[c] = "sending"
          /\ client' = [client EXCEPT ![c] = "waiting"]
          /\ UNCHANGED <<should_serve, server, item, result, reqs, ran>>
      BY <1>10, <2>2 DEF Send
    <3>2. /\ Len(queue') = Len(queue) + 1 /\ queue' \in Seq(Clients)
          /\ \A i \in 1..Len(queue) : queue'[i] = queue[i]
          /\ queue'[Len(queue) + 1] = c /\ Len(queue) \in Nat
      BY <1>a, <3>1 DEF TypeOK
    <3>3. \A i \in 1..Len(queue) : queue[i] # c
      BY <1>a, <3>1 DEF QueueInv
    <3>4. item # c
      BY <1>a, <3>1 DEF ServerInv
    <3>5. TypeOK'
      BY <1>a, <1>b, <3>1, <3>2, SMTT(30) DEF TypeOK
    <3>6. Unserved(c)'
      BY <1>a, <3>1 DEF ClientInv, TypeOK
    <3>7. QueueInv'
      <4>1. \A i \in 1..Len(queue') : i \in 1..Len(queue) \/ i = Len(queue) + 1
        BY <3>2
      <4>2. \A i \in 1..Len(queue) : queue[i] \in Clients
        BY <1>a DEF TypeOK
      <4>3. \A i \in 1..Len(queue') : Unserved(queue[i])' \/ queue'[i] = c
        <5>1. ASSUME NEW i \in 1..Len(queue) PROVE Unserved(queue[i])'
          <6>1. Unserved(queue[i]) /\ queue[i] \in Clients \ {c} /\ queue'[i] = queue[i]
            BY <1>a, <3>2, <3>3, <4>2 DEF QueueInv
          <6>2. client'[queue[i]] = client[queue[i]]
            BY <1>a, <3>1, <6>1 DEF TypeOK
          <6>3. QED
            BY <3>1, <6>1, <6>2
        <5>2. QED
          BY <3>2, <4>1, <5>1
      <4>4. \A i \in 1..Len(queue') : Unserved(queue[i])' /\ queue'[i] # item'
        BY <1>a, <3>1, <3>2, <3>4, <3>6, <4>1, <4>3 DEF QueueInv
      <4>5. \A i, j \in 1..Len(queue') : queue'[i] = queue'[j] => i = j
        BY <1>a, <3>2, <3>3, <4>1 DEF QueueInv
      <4>6. QED
        BY <2>2, <3>1, <4>4, <4>5 DEF QueueInv
    <3>8. ServerInv'
      BY <1>a, <3>1, <3>4 DEF ServerInv, TypeOK
    <3>9. \A b \in Clients : Queued(b) \/ b = c => Queued(b)'
      BY <3>2
    <3>10. ClientInv'
      <4>1. reqs[c] # 0
        BY <1>a, <1>b, <3>1 DEF ClientInv, TypeOK
      <4>2. QED
        BY <1>a, <3>1, <3>6, <3>9, <4>1, SMTT(30) DEF ClientInv, TypeOK
    <3>11. QED
      BY <3>5, <3>7, <3>8, <3>10 DEF IInv
  <2>3. QED
    BY <2>1, <2>2
<1>11. ASSUME NEW c \in Clients, Return(c)
       PROVE  IInv'
  <2>1. /\ client[c] = "waiting" /\ result' = [result EXCEPT ![c] = 0]
        /\ \/ result[c] # 0 /\ client' = [client EXCEPT ![c] = "idle"]
           \/ RequestDropped(c) /\ client' = [client EXCEPT ![c] = "finished"]
        /\ UNCHANGED <<should_serve, server, item, queue, reqs, ran>>
    BY <1>11 DEF Return
  <2>2. server # "gone" => result[c] # 0
    BY <2>1 DEF RequestDropped
  <2>3. TypeOK'
    <3>1. result' \in [Clients -> 0..MaxReqs]
      BY <1>a, <1>b, <2>1 DEF TypeOK
    <3>2. QED
      BY <1>a, <2>1, <3>1, Zenon DEF TypeOK
  <2>4. ClientInv'
    BY <1>a, <2>1, SMTT(30) DEF ClientInv, TypeOK
  <2>5. QueueInv' /\ ServerInv'
    <3>1. item # c /\ \A i \in 1..Len(queue) : queue[i] # c
      BY <1>a, <2>1 DEF RequestDropped, QueueInv, ServerInv
    <3>2. QED
      BY <1>a, <1>d, <2>1, <3>1, SMTT(30) DEF QueueInv, ServerInv, TypeOK
  <2>6. QED
    BY <2>3, <2>4, <2>5 DEF IInv
<1>12. ASSUME NEW c \in Clients, Finish(c)
       PROVE  IInv'
  <2>1. TypeOK'
    BY <1>a, <1>b, <1>12 DEF Finish, TypeOK
  <2>2. QueueInv' /\ ServerInv'
    <3>1. client[c] # "waiting"
      BY <1>12 DEF Finish
    <3>2. QED
      BY <1>a, <1>f, <1>12, <3>1 DEF Finish, TypeOK
  <2>3. ClientInv'
    BY <1>a, <1>b, <1>12 DEF Finish, TypeOK, ClientInv
  <2>4. QED
    BY <2>1, <2>2, <2>3 DEF IInv
<1>13. CASE UNCHANGED vars
  BY <1>a, <1>13 DEF vars, IInv, TypeOK, QueueInv, ServerInv, ClientInv
<1>14. QED
  BY <1>1, <1>2, <1>3, <1>4, <1>5, <1>6, <1>7, <1>8, <1>9, <1>10, <1>11, <1>12, <1>13
     DEF Next, Server, Client, Over

LEMMA ExecutorInvariance == Spec => []IInv
<1>1. Init => IInv
  <2> SUFFICES ASSUME Init PROVE IInv
    OBVIOUS
  <2>1. should_serve \in BOOLEAN
    BY Zenon DEF Init
  <2>2. queue = <<>> /\ Len(queue) = 0 /\ queue \in Seq(Clients)
    BY DEF Init
  <2>3. TypeOK
    BY <2>1, <2>2, ExecutorAssumption DEF Init, TypeOK
  <2>4. QueueInv /\ ServerInv /\ ClientInv
    BY <2>2, ExecutorAssumption DEF Init, QueueInv, ServerInv, ClientInv, Queued, Unserved
  <2>5. QED
    BY <2>3, <2>4 DEF IInv
<1>2. IInv /\ [Next]_vars => IInv'
  BY ExecutorStep
<1>3. QED
  BY <1>1, <1>2, PTL DEF Spec

\* Whatever the number of tracer threads and whenever stop() comes, no thread
\* waits in execute() for a request nobody holds.  (serve, execute)
THEOREM RequestsServed == Spec => [](TypeOK /\ NoLostRequest)
<1>1. ASSUME IInv PROVE TypeOK /\ NoLostRequest
  BY <1>1 DEF IInv, ClientInv, NoLostRequest, Queued, Unserved
<1>2. QED
  BY <1>1, ExecutorInvariance, PTL

\* Whatever the number of tracer threads, execute() returns the result of its own
\* request, run exactly once.  (serve, execute)
THEOREM RequestsRunOnce == Spec => []RunOnceInOrder
<1>1. ASSUME IInv PROVE RunOnceInOrder
  BY <1>1, Zenon DEF IInv, ClientInv, TypeOK, RunOnceInOrder, Unserved
<1>2. QED
  BY <1>1, ExecutorInvariance, PTL
=============================================================================
