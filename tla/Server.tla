------------------------------- MODULE Server -------------------------------
(***************************************************************************)
(* src/http/server.cpp: the threads that run ioc_, the coroutines they     *)
(* execute (a listener for each start(), a handler for each connection),   *)
(* the owner that calls start(), stop() and set_ready(), and the clients.  *)
(*                                                                         *)
(* A thread takes a coroutine that can go on and executes it up to its     *)
(* next co_await.  The io_context and the sockets are modelled from how    *)
(* server.cpp uses them: a stopped io_context starts no handler, and run() *)
(* returns when it is stopped or has no work left.                         *)
(***************************************************************************)
EXTENDS Naturals

CONSTANTS
  Threads,       \* the config_.num_threads threads
  Starts,        \* calls of start(), each with a listener of its own
  Conns,         \* connections of clients
  Requests,      \* requests that clients send
  MaxRequests,   \* MaxRequests[c] bounds the requests sent on c
  MayFail        \* whether bind() and accept may fail

\* No request, and what http::async_read reports as an error.
None == [method |-> "none", target |-> "none", keep_alive |-> FALSE]
Malformed == [method |-> "malformed", target |-> "none", keep_alive |-> FALSE]

ASSUME ServerAssumption ==
  /\ Threads # {} /\ MayFail \in BOOLEAN
  /\ \A req \in Requests : /\ req = [method |-> req.method, target |-> req.target,
                                      keep_alive |-> req.keep_alive]
                            /\ req.method \in {"get", "other"}
                            /\ req.keep_alive \in BOOLEAN
  /\ MaxRequests \in [Conns -> Nat]
  /\ Starts \cap Conns = {}
  /\ {"none", "idle", "returned"} \cap (Starts \cup Conns) = {}

VARIABLES
  running,     \* running_
  ready,       \* ready_
  stopped,     \* ioc_ is stopped
  owner,       \* "out" of a run, "in" one, or in stop(), before ioc_.stop()
               \* or before the joins
  thread,      \* what each thread does: "none" if there is no such thread,
               \* "idle" in run(), "returned" from it, or the coroutine it executes
  co,          \* where each coroutine is; "backlog" for a connection that the
               \* kernel has accepted and listener() has not, "refused" for a
               \* listener whose accept has failed
  inbox,       \* the request each connection has yet to read
  gone,        \* connections whose client has hung up
  answer,      \* the last answer given on each connection, and how many there were
  failed       \* a bind() or an accept has failed

clients == <<inbox, gone, answer>>
vars == <<running, ready, stopped, owner, thread, co, inbox, gone, answer, failed>>

Coroutines == Starts \cup Conns

Init ==
  /\ running = FALSE /\ ready = TRUE /\ stopped = FALSE /\ owner = "out"
  /\ thread = [t \in Threads |-> "none"]
  /\ co = [x \in Coroutines |-> "none"]
  /\ inbox = [c \in Conns |-> None]
  /\ gone = {} /\ failed = FALSE
  /\ answer = [c \in Conns |-> [count |-> 0, status |-> 0, keep_alive |-> TRUE]]

-----------------------------------------------------------------------------
(* The owner.  A start() of a running server and a stop() of one that does *)
(* not run change nothing.  Listeners that are not started are all alike,  *)
(* so it is no matter which of them a start() takes.                       *)

Start(s) ==
  /\ ~running /\ owner = "out"
  /\ co[s] = "none" /\ s = CHOOSE r \in Starts : co[r] = "none"
  /\ running' = TRUE /\ owner' = "in"
  /\ co' = [co EXCEPT ![s] = "posted"]
  /\ thread' = [t \in Threads |-> "idle"]
  /\ UNCHANGED <<ready, stopped, clients, failed>>

Stop ==
  /\ owner = "in"
  /\ running' = FALSE /\ owner' = "stop_ioc"
  /\ UNCHANGED <<ready, stopped, thread, co, clients, failed>>

\* Mutant: the threads are joined without a word to ioc_.
StopIoc_Forgotten ==
  /\ owner = "stop_ioc"
  /\ owner' = "join"
  /\ UNCHANGED <<running, ready, stopped, thread, co, clients, failed>>

StopIoc ==
  /\ owner = "stop_ioc"
  /\ stopped' = TRUE /\ owner' = "join"
  /\ UNCHANGED <<running, ready, thread, co, clients, failed>>

\* Mutant: the threads are detached.
Join_Detached ==
  /\ owner = "join"
  /\ owner' = "out"
  /\ UNCHANGED <<running, ready, stopped, thread, co, clients, failed>>

Join ==
  /\ owner = "join" /\ \A t \in Threads : thread[t] = "returned"
  /\ thread' = [t \in Threads |-> "none"] /\ owner' = "out"
  /\ UNCHANGED <<running, ready, stopped, co, clients, failed>>

SetReady(value) ==
  /\ ready' = value
  /\ UNCHANGED <<running, stopped, owner, thread, co, clients, failed>>

-----------------------------------------------------------------------------
(* The clients.                                                            *)

\* The acceptor stays open as long as its listener has not ended.
Connect(c) ==
  /\ co[c] = "none" /\ \E s \in Starts : co[s] \in {"accepting", "refused"}
  /\ co' = [co EXCEPT ![c] = "backlog"]
  /\ UNCHANGED <<running, ready, stopped, owner, thread, clients, failed>>

\* The connection stands, and its last answer did not end it.
IsOpen(c) ==
  co[c] \notin {"none", "ended"} /\ c \notin gone /\ answer[c].keep_alive

\* A client sends its next request when the one before has been answered.
Send(c, req) ==
  /\ IsOpen(c) /\ inbox[c] = None /\ answer[c].count < MaxRequests[c]
  /\ inbox' = [inbox EXCEPT ![c] = req]
  /\ UNCHANGED <<running, ready, stopped, owner, thread, co, gone, answer, failed>>

HangUp(c) ==
  /\ IsOpen(c)
  /\ gone' = gone \cup {c}
  /\ UNCHANGED <<running, ready, stopped, owner, thread, co, inbox, answer, failed>>

-----------------------------------------------------------------------------
(* The threads in ioc_.run().                                              *)

Backlog == {c \in Conns : co[c] = "backlog"}

\* What the coroutine waits for has come.
CanGoOn(x) ==
  \/ co[x] \in {"posted", "refused", "writing"}
  \/ co[x] = "accepting" /\ Backlog # {}
  \/ co[x] = "reading" /\ (inbox[x] # None \/ x \in gone)

\* The pending accept fails in the kernel, for want of descriptors say.
AcceptError(s) ==
  /\ MayFail
  /\ co[s] = "accepting" /\ \A t \in Threads : thread[t] # s
  /\ co' = [co EXCEPT ![s] = "refused"] /\ failed' = TRUE
  /\ UNCHANGED <<running, ready, stopped, owner, thread, clients>>

Take(t, x) ==
  /\ thread[t] = "idle" /\ ~stopped
  /\ CanGoOn(x) /\ \A u \in Threads : thread[u] # x
  /\ thread' = [thread EXCEPT ![t] = x]
  /\ UNCHANGED <<running, ready, stopped, owner, co, clients, failed>>

\* run() returns; running out of work stops ioc_ for all its threads.
Leave(t) ==
  /\ thread[t] = "idle"
  /\ stopped \/ \A x \in Coroutines : co[x] \in {"none", "backlog", "ended"}
  /\ thread' = [thread EXCEPT ![t] = "returned"] /\ stopped' = TRUE
  /\ UNCHANGED <<running, ready, owner, co, clients, failed>>

\* Thread t executes coroutine x, which stands at the given co_await, up to the
\* next one or to its end.
Resume(t, x, at) ==
  /\ thread[t] = x /\ co[x] = at
  /\ thread' = [thread EXCEPT ![t] = "idle"]
  /\ UNCHANGED <<running, ready, stopped, owner>>

-----------------------------------------------------------------------------
(* listener().                                                             *)

\* The end of a listener closes its acceptor and resets what it left in the
\* backlog.
ListenerEnds(s) ==
  co' = [x \in Coroutines |-> IF x = s \/ co[x] = "backlog" THEN "ended" ELSE co[x]]

\* Open, bind and listen, then the first look at running_.
Listen(t, s) ==
  /\ Resume(t, s, "posted")
  /\ IF running THEN co' = [co EXCEPT ![s] = "accepting"] ELSE ListenerEnds(s)
  /\ UNCHANGED <<clients, failed>>

\* bind() throws, and asio::detached drops the exception.
ListenFails(t, s) ==
  /\ MayFail
  /\ Resume(t, s, "posted")
  /\ ListenerEnds(s)
  /\ failed' = TRUE /\ UNCHANGED clients

\* Mutant: one connection only.
Accept_Once(t, s) ==
  /\ Resume(t, s, "accepting")
  /\ \E c \in Backlog : co' = [co EXCEPT ![c] = "posted", ![s] = "ended"]
  /\ UNCHANGED <<clients, failed>>

\* Mutant: the connection is handled before the next one is accepted.
Accept_Inline(t, s) ==
  /\ \A c \in Conns : co[c] \in {"none", "backlog", "ended"}
  /\ Resume(t, s, "accepting")
  /\ \E c \in Backlog : co' = [co EXCEPT ![c] = "posted"]
  /\ UNCHANGED <<clients, failed>>

\* A connection is accepted, and its handler spawned.
Accept(t, s) ==
  /\ Resume(t, s, "accepting")
  /\ \E c \in Backlog :
       co' = IF running THEN [co EXCEPT ![c] = "posted"]
             ELSE [x \in Coroutines |->
                     CASE x = c -> "posted"
                       [] x = s \/ x \in Backlog \ {c} -> "ended"
                       [] OTHER -> co[x]]
  /\ UNCHANGED <<clients, failed>>

\* An error of accept ends the listener for good.
AcceptFails(t, s) ==
  /\ Resume(t, s, "refused")
  /\ ListenerEnds(s)
  /\ UNCHANGED <<clients, failed>>

-----------------------------------------------------------------------------
(* handle_connection().                                                    *)

BeginRead(t, c) ==
  /\ Resume(t, c, "posted")
  /\ co' = [co EXCEPT ![c] = "reading"]
  /\ UNCHANGED <<clients, failed>>

\* Server::route().
Route(req) ==
  CASE req.method = "get" /\ req.target = "/healthz" -> 200
    [] req.method = "get" /\ req.target = "/readyz" -> IF ready THEN 200 ELSE 503
    [] OTHER -> 404

\* Mutant: the request stays in the buffer.
Serve_KeepsRequest(t, c) ==
  /\ Resume(t, c, "reading") /\ inbox[c] \in Requests
  /\ answer' = [answer EXCEPT ![c] =
                  [count |-> @.count + 1, status |-> Route(inbox[c]),
                   keep_alive |-> inbox[c].keep_alive]]
  /\ co' = [co EXCEPT ![c] = "writing"]
  /\ UNCHANGED <<inbox, gone, failed>>

\* A request is read and routed, and the write of the response begun.
Serve(t, c) ==
  /\ Resume(t, c, "reading") /\ inbox[c] \in Requests
  /\ answer' = [answer EXCEPT ![c] =
                  [count |-> @.count + 1, status |-> Route(inbox[c]),
                   keep_alive |-> inbox[c].keep_alive]]
  /\ inbox' = [inbox EXCEPT ![c] = None]
  /\ co' = [co EXCEPT ![c] = "writing"]
  /\ UNCHANGED <<gone, failed>>

\* read_ec: the client is gone, or what it sent is no request.  The connection ends
\* without an answer.
ReadFails(t, c) ==
  /\ Resume(t, c, "reading") /\ (c \in gone \/ inbox[c] = Malformed)
  /\ co' = [co EXCEPT ![c] = "ended"]
  /\ UNCHANGED <<clients, failed>>

\* Mutant: keep_alive() of the request is not looked at.
Written_KeepsAlive(t, c) ==
  /\ Resume(t, c, "writing")
  /\ co' = [co EXCEPT ![c] = "reading"]
  /\ UNCHANGED <<clients, failed>>

\* The response is written, or the write fails because the client is gone.
Written(t, c) ==
  /\ Resume(t, c, "writing")
  /\ \E write_ec \in BOOLEAN :
       /\ write_ec => c \in gone
       /\ co' = [co EXCEPT ![c] = IF write_ec \/ ~answer[c].keep_alive
                                  THEN "ended" ELSE "reading"]
  /\ UNCHANGED <<clients, failed>>

-----------------------------------------------------------------------------
ListenerStep(t) ==
  \E s \in Starts : \/ Listen(t, s) \/ ListenFails(t, s)
                    \/ Accept(t, s) \/ AcceptFails(t, s)

HandlerStep(t) ==
  \E c \in Conns : BeginRead(t, c) \/ Serve(t, c) \/ ReadFails(t, c) \/ Written(t, c)

Next ==
  \/ \E s \in Starts : Start(s) \/ AcceptError(s)
  \/ Stop \/ StopIoc \/ Join
  \/ \E value \in BOOLEAN : SetReady(value)
  \/ \E c \in Conns : Connect(c) \/ HangUp(c)
  \/ \E c \in Conns, req \in Requests \cup {Malformed} : Send(c, req)
  \/ \E t \in Threads : \/ \E x \in Coroutines : Take(t, x)
                         \/ Leave(t) \/ ListenerStep(t) \/ HandlerStep(t)

Spec == Init /\ [][Next]_vars

\* Threads are scheduled, the handlers that are ready are queued in order, so
\* each is taken in the end, and a stop() that was called goes on.  Clients
\* owe nothing, and no failure is owed.
Fairness ==
  /\ \A t \in Threads : WF_vars(Leave(t) \/ ListenerStep(t) \/ HandlerStep(t))
  /\ \A x \in Coroutines : SF_vars(\E t \in Threads : Take(t, x))
  /\ WF_vars(StopIoc \/ Join)
FairSpec == Spec /\ Fairness

-----------------------------------------------------------------------------
(* Properties.                                                             *)

\* Every variable keeps its type, no coroutine is executed by two threads, and
\* a connection is given one answer for each request.
TypeOK ==
  /\ running \in BOOLEAN /\ ready \in BOOLEAN /\ stopped \in BOOLEAN
  /\ failed \in BOOLEAN /\ owner \in {"out", "in", "stop_ioc", "join"}
  /\ thread \in [Threads -> {"none", "idle", "returned"} \cup Coroutines]
  /\ \A t, u \in Threads : thread[t] = thread[u] /\ thread[t] \in Coroutines => t = u
  /\ \A s \in Starts : co[s] \in {"none", "posted", "accepting", "refused", "ended"}
  /\ \A c \in Conns :
       co[c] \in {"none", "backlog", "posted", "reading", "writing", "ended"}
  /\ gone \subseteq Conns
  /\ \A c \in Conns : answer[c].count <= MaxRequests[c]

\* start() has been called again after a stop().
Restarted == \E r, s \in Starts : r # s /\ co[r] # "none" /\ co[s] # "none"

\* From the first start() until stop() is called, a server that met no error of
\* bind() or accept has a listener that will accept the next connection, and ioc_
\* goes on with all its threads in run(): connections that come, go or send rubbish
\* neither end the listener nor leave ioc_ without work.  A later start() is left
\* out, because there the promise is false: ioc_ was stopped and is never
\* restarted, so that is_running() is true of a server that serves nobody
\* (SilentAfterStop).
StillListening ==
  running /\ ~failed /\ ~Restarted =>
    /\ \E s \in Starts : co[s] \in {"posted", "accepting"}
    /\ ~stopped
    /\ \A t \in Threads : thread[t] \in {"idle"} \cup Coroutines

\* Once stop() has returned no request is answered any more, neither on a
\* connection that was open nor on one that the acceptor, which the suspended
\* listener leaves open, still takes, nor after another start(): stop() has waited
\* for every handler that a thread was executing, and a stopped ioc_ starts none.
SilentAfterStop == [][owner = "out" \/ Restarted => answer' = answer]_vars

\* stop() returns whatever the clients do: ioc_.stop() makes the threads leave
\* run() though the listener and idle connections wait for ever.
StopReturns == owner = "stop_ioc" ~> owner = "out"

\* A well-formed request that was sent is answered unless the server is stopped,
\* fails to listen or loses its client: connections that stay idle, and other
\* clients that hang up, hold nobody up.  What http::async_read cannot read as a
\* request gets no answer at all; see ConnectionsEnd.
EveryRequestAnswered ==
  \A c \in Conns :
    inbox[c] \in Requests ~> inbox[c] = None \/ c \in gone \/ stopped \/ failed

\* No socket is kept for nothing: a connection whose client has hung up, sent
\* something malformed or asked for no keep-alive ends unless the server is stopped
\* or fails first.
ConnectionsEnd ==
  \A c \in Conns :
    c \in gone \/ inbox[c] = Malformed \/ ~answer[c].keep_alive
      ~> co[c] = "ended" \/ stopped \/ failed
=============================================================================
