--------------------------- MODULE Server_proofs ---------------------------
(***************************************************************************)
(* Proofs about Server for any numbers of threads, connections, requests   *)
(* and calls of start().                                                   *)
(***************************************************************************)
EXTENDS Server, TLAPS

USE SMTT(30)

ListenerStates == {"none", "posted", "accepting", "refused", "ended"}
HandlerStates == {"none", "backlog", "posted", "reading", "writing", "ended"}

\* Each connection holds a request, which may be None.
InboxShape ==
  /\ inbox = [c \in Conns |-> inbox[c]]
  /\ \A c \in Conns : inbox[c].keep_alive \in BOOLEAN

\* The tables have an entry for each connection and coroutine.
Tables ==
  /\ co \in [Coroutines -> ListenerStates \cup HandlerStates]
  /\ InboxShape
  /\ answer \in [Conns -> [count : Nat, status : Nat, keep_alive : BOOLEAN]]

\* A request that waits in a socket may still be answered.
RoomForAnswer ==
  \A c \in Conns : inbox[c] # None => answer[c].count < MaxRequests[c]

\* Outside of a run there is no thread, inside of one each thread exists, and a
\* thread returns from run() only when ioc_ is stopped.
ThreadsInv ==
  /\ owner = "out" => \A t \in Threads : thread[t] = "none"
  /\ owner # "out" => \A t \in Threads : thread[t] # "none"
  /\ \A t \in Threads : thread[t] = "returned" => stopped

\* start() has been called.
Started == \E s \in Starts : co[s] # "none"

\* running_ is set between start() and stop().  A server that was started is
\* stopped when stop() returns, and not before start() is called for the first
\* time; started again, it is still stopped and executes no coroutine.
RunInv ==
  /\ running <=> owner = "in"
  /\ owner = "join" => stopped
  /\ owner = "out" => (stopped <=> Started)
  /\ owner # "out" => Started
  /\ Restarted => stopped /\ \A t \in Threads : thread[t] \notin Coroutines

\* A listener whose accept has failed shows in failed, and a server in its first
\* run has a listener, and is not stopped, as long as nothing failed.
ListenerInv ==
  /\ \A s \in Starts : co[s] = "refused" => failed
  /\ running /\ ~failed /\ ~Restarted =>
       ~stopped /\ \E s \in Starts : co[s] \in {"posted", "accepting"}

IInv ==
  TypeOK /\ Tables /\ RoomForAnswer /\ ThreadsInv /\ RunInv /\ ListenerInv

-----------------------------------------------------------------------------
(* Each action preserves IInv.                                             *)

\* The assumptions on the constants, in the form the proofs use them.
LEMMA Distinct ==
  /\ \A x \in Coroutines : x \notin {"none", "idle", "returned"}
  /\ Starts \subseteq Coroutines /\ Conns \subseteq Coroutines
  /\ \A s \in Starts : s \notin Conns
  /\ MaxRequests \in [Conns -> Nat]
BY ServerAssumption DEF Coroutines

\* Requests, None and Malformed say whether the connection is to be kept.
LEMMA RequestFact ==
  /\ \A req \in Requests \cup {None, Malformed} : req.keep_alive \in BOOLEAN
  /\ None.keep_alive \in BOOLEAN
  /\ None \notin Requests
<1>1. None.keep_alive \in BOOLEAN /\ Malformed.keep_alive \in BOOLEAN
  BY DEF None, Malformed
<1>2. None.method = "none"
  BY DEF None
<1> QED BY <1>1, <1>2, ServerAssumption

\* Whether the server was started, and started again, shows in the listeners that
\* are somewhere.
LEMMA SameStarts ==
  ASSUME \A s \in Starts : co'[s] = "none" <=> co[s] = "none"
  PROVE  (Started' <=> Started) /\ (Restarted' <=> Restarted)
BY ZenonT(30) DEF Started, Restarted

\* A server that was never started satisfies the invariant.
LEMMA InitInv == Init => IInv
<1> SUFFICES ASSUME Init PROVE IInv
  OBVIOUS
<1>1. Tables
  <2>1. /\ co = [x \in Coroutines |-> "none"] /\ inbox = [c \in Conns |-> None]
        /\ answer = [c \in Conns |-> [count |-> 0, status |-> 0, keep_alive |-> TRUE]]
    BY ZenonT(30) DEF Init
  <2> QED BY <2>1, RequestFact DEF Tables, InboxShape, ListenerStates, HandlerStates
<1>2. TypeOK
  <2>1. /\ thread = [t \in Threads |-> "none"] /\ co = [x \in Coroutines |-> "none"]
        /\ gone = {} /\ owner = "out"
        /\ answer = [c \in Conns |-> [count |-> 0, status |-> 0, keep_alive |-> TRUE]]
    BY ZenonT(30) DEF Init
  <2>2. {running, ready, stopped, failed} \subseteq BOOLEAN
    BY ZenonT(30) DEF Init
  <2>3. \A t \in Threads : thread[t] \notin Coroutines
    BY ZenonT(30), <2>1, Distinct
  <2>4. \A c \in Conns : answer[c].count <= MaxRequests[c]
    BY <2>1, Distinct
  <2> QED BY <2>1, <2>2, <2>3, <2>4, Distinct DEF TypeOK
<1>3. RoomForAnswer /\ ThreadsInv
  BY Distinct DEF Init, RoomForAnswer, ThreadsInv
<1>4. ~Started /\ ~Restarted /\ \A s \in Starts : co[s] = "none"
  BY Distinct DEF Init, Started, Restarted
<1>5. RunInv /\ ListenerInv
  BY <1>4 DEF Init, RunInv, ListenerInv
<1> QED BY <1>1, <1>2, <1>3, <1>5 DEF IInv

\* start() keeps the invariant: the new listener is posted before a thread runs.
LEMMA StartInv ==
  ASSUME IInv, NEW s \in Starts, Start(s)
  PROVE  IInv'
<1>1. /\ running' = TRUE /\ owner' = "in" /\ owner = "out"
      /\ co' = [co EXCEPT ![s] = "posted"]
      /\ thread' = [t \in Threads |-> "idle"]
      /\ UNCHANGED <<ready, stopped, inbox, gone, answer, failed>>
  BY DEF Start, clients
<1>2. Tables'
  BY <1>1, Distinct DEF IInv, Tables, InboxShape, ListenerStates
<1>3. \A x \in Coroutines : co'[x] = IF x = s THEN "posted" ELSE co[x]
  BY <1>1, Distinct DEF IInv, Tables, InboxShape
<1>4. TypeOK'
  BY <1>1, <1>3, Distinct DEF IInv, TypeOK
<1>5. RoomForAnswer' /\ ThreadsInv'
  BY <1>1, <1>3, Distinct DEF IInv, RoomForAnswer, ThreadsInv
<1>6. co'[s] = "posted" /\ Started' /\ (Restarted' <=> Started)
  <2>1. co[s] = "none"
    BY DEF Start
  <2>2. \A r \in Starts : co'[r] = IF r = s THEN "posted" ELSE co[r]
    BY <1>3, Distinct
  <2>3. co'[s] = "posted" /\ \A r \in Starts : r # s => co'[r] = co[r]
    BY <2>2
  <2> QED BY <2>1, <2>3 DEF Started, Restarted
<1>7. RunInv'
  BY <1>1, <1>6, Distinct DEF IInv, RunInv
<1>8. ListenerInv'
  <2>1. \A r \in Starts : co'[r] = "refused" => co[r] = "refused"
    BY <1>3, Distinct
  <2>2. ~Restarted' => ~stopped
    BY <1>1, <1>6 DEF IInv, RunInv
  <2> QED BY <1>1, <1>6, <2>1, <2>2 DEF IInv, ListenerInv
<1> QED BY <1>2, <1>4, <1>5, <1>7, <1>8 DEF IInv

\* stop(), step by step, and set_ready() keep the invariant: running_ is cleared
\* before ioc_ is stopped, and the threads have returned when stop() does.
LEMMA OwnerInv ==
  ASSUME IInv, Stop \/ StopIoc \/ Join \/ \E value \in BOOLEAN : SetReady(value)
  PROVE  IInv'
<1>1. UNCHANGED <<co, inbox, gone, answer, failed>>
  BY DEF Stop, StopIoc, Join, SetReady, clients
<1>2. Tables' /\ RoomForAnswer'
  BY <1>1 DEF IInv, Tables, InboxShape, RoomForAnswer
<1>3. (Started' <=> Started) /\ (Restarted' <=> Restarted)
  BY <1>1, SameStarts
<1>4. CASE Stop
  <2>1. /\ ~running' /\ running' \in BOOLEAN /\ owner = "in" /\ owner' = "stop_ioc"
        /\ UNCHANGED <<ready, stopped, thread>>
    BY ZenonT(30), <1>4 DEF Stop
  <2>2. TypeOK' /\ ThreadsInv' /\ RunInv' /\ ListenerInv'
    BY <1>1, <1>3, <2>1 DEF IInv, TypeOK, ThreadsInv, RunInv, ListenerInv
  <2> QED BY <1>2, <2>2 DEF IInv
<1>5. CASE StopIoc
  BY <1>1, <1>2, <1>3, <1>5
     DEF StopIoc, IInv, TypeOK, ThreadsInv, RunInv, ListenerInv
<1>6. CASE Join
  BY <1>1, <1>2, <1>3, <1>6, Distinct
     DEF Join, IInv, TypeOK, ThreadsInv, RunInv, ListenerInv
<1>7. CASE \E value \in BOOLEAN : SetReady(value)
  BY <1>1, <1>2, <1>3, <1>7
     DEF SetReady, IInv, TypeOK, ThreadsInv, RunInv, ListenerInv
<1> QED BY <1>4, <1>5, <1>6, <1>7

\* What clients do keeps the invariant: a new connection waits in the backlog, a
\* request is sent where one more may be answered, and a client may hang up.
LEMMA ClientInv ==
  ASSUME IInv, NEW c \in Conns,
         \/ Connect(c) \/ HangUp(c)
         \/ \E req \in Requests \cup {Malformed} : Send(c, req)
  PROVE  IInv'
<1>1. UNCHANGED <<running, ready, stopped, owner, thread, answer, failed>>
  BY DEF Connect, HangUp, Send, clients
<1>2. CASE Connect(c)
  <2>1. co' = [co EXCEPT ![c] = "backlog"] /\ UNCHANGED <<inbox, gone>>
    BY <1>2 DEF Connect, clients
  <2>2. \A x \in Coroutines : co'[x] = IF x = c THEN "backlog" ELSE co[x]
    BY <2>1, Distinct DEF IInv, Tables, InboxShape
  <2>3. Tables' /\ RoomForAnswer'
    BY <1>1, <2>1, Distinct DEF IInv, Tables, InboxShape, RoomForAnswer, HandlerStates
  <2>4. TypeOK'
    BY <1>1, <2>1, <2>2, Distinct DEF IInv, TypeOK
  <2>5. \A s \in Starts : co'[s] = co[s]
    BY <2>2, Distinct
  <2>6. (Started' <=> Started) /\ (Restarted' <=> Restarted)
    BY <2>5, SameStarts
  <2>7. ThreadsInv' /\ RunInv' /\ ListenerInv'
    BY <1>1, <2>5, <2>6 DEF IInv, ThreadsInv, RunInv, ListenerInv
  <2> QED BY <2>3, <2>4, <2>7 DEF IInv
<1>3. CASE HangUp(c)
  <2>1. gone' = gone \cup {c} /\ UNCHANGED <<co, inbox>>
    BY <1>3 DEF HangUp
  <2> QED BY <1>1, <2>1, SameStarts DEF IInv, TypeOK, Tables, InboxShape,
             RoomForAnswer, ThreadsInv, RunInv, ListenerInv
<1>4. CASE \E req \in Requests \cup {Malformed} : Send(c, req)
  <2>0. PICK req \in Requests \cup {Malformed} : Send(c, req)
    BY <1>4
  <2>1. /\ UNCHANGED <<co, gone>> /\ answer[c].count < MaxRequests[c]
        /\ inbox' = [inbox EXCEPT ![c] = req] /\ req.keep_alive \in BOOLEAN
    BY <2>0, RequestFact DEF Send
  <2>2. Tables' /\ RoomForAnswer'
    BY <1>1, <2>1 DEF IInv, Tables, InboxShape, RoomForAnswer
  <2>3. TypeOK' /\ ThreadsInv' /\ RunInv' /\ ListenerInv'
    BY <1>1, <2>1, SameStarts DEF IInv, TypeOK, ThreadsInv, RunInv, ListenerInv
  <2> QED BY <2>2, <2>3 DEF IInv
<1> QED BY <1>2, <1>3, <1>4

\* An accept that fails, and a thread that takes a coroutine or leaves run(),
\* keep the invariant.  A thread that leaves finds ioc_ stopped, or stops it.
LEMMA ContextInv ==
  ASSUME IInv,
         \/ \E s \in Starts : AcceptError(s)
         \/ \E t \in Threads : Leave(t) \/ \E x \in Coroutines : Take(t, x)
  PROVE  IInv'
<1>1. UNCHANGED <<running, ready, owner, inbox, gone, answer>>
  BY DEF AcceptError, Take, Leave, clients
<1>2. CASE \E s \in Starts : AcceptError(s)
  <2>1. PICK s \in Starts : AcceptError(s)
    BY <1>2
  <2>2. co' = [co EXCEPT ![s] = "refused"] /\ failed' = TRUE
        /\ UNCHANGED <<stopped, thread>>
    BY <2>1 DEF AcceptError
  <2>3. \A x \in Coroutines : co'[x] = IF x = s THEN "refused" ELSE co[x]
    BY <2>2, Distinct DEF IInv, Tables, InboxShape
  <2>4. Tables' /\ RoomForAnswer'
    BY <1>1, <2>2, Distinct DEF IInv, Tables, InboxShape, RoomForAnswer, ListenerStates
  <2>5. TypeOK'
    BY <1>1, <2>2, <2>3, Distinct DEF IInv, TypeOK
  <2>6. (Started' <=> Started) /\ (Restarted' <=> Restarted)
    <3>1. co[s] = "accepting"
      BY <2>1 DEF AcceptError
    <3> QED BY <2>3, <3>1, SameStarts, Distinct
  <2>7. ThreadsInv' /\ RunInv' /\ ListenerInv'
    BY <1>1, <2>2, <2>6, Distinct DEF IInv, ThreadsInv, RunInv, ListenerInv
  <2> QED BY <2>4, <2>5, <2>7 DEF IInv
<1>3. ASSUME NEW t \in Threads, NEW x \in Coroutines, Take(t, x)
      PROVE  IInv'
  <2>0. (Started' <=> Started) /\ (Restarted' <=> Restarted)
    BY <1>3, SameStarts DEF Take
  <2>1. /\ thread[t] = "idle" /\ ~stopped /\ \A u \in Threads : thread[u] # x
        /\ thread' = [thread EXCEPT ![t] = x] /\ UNCHANGED <<stopped, co, failed>>
    BY <1>3 DEF Take
  <2>2. Tables' /\ RoomForAnswer' /\ RunInv' /\ ListenerInv'
    BY <1>1, <2>0, <2>1
       DEF IInv, Tables, InboxShape, RoomForAnswer, RunInv, ListenerInv
  <2>3. TypeOK'
    BY <1>1, <2>1, Distinct DEF IInv, TypeOK
  <2>4. ThreadsInv'
    BY <1>1, <2>1, Distinct DEF IInv, TypeOK, ThreadsInv
  <2> QED BY <2>2, <2>3, <2>4 DEF IInv
<1>4. ASSUME NEW t \in Threads, Leave(t)
      PROVE  IInv'
  <2>0. (Started' <=> Started) /\ (Restarted' <=> Restarted)
    BY <1>4, SameStarts DEF Leave
  <2>1. /\ thread[t] = "idle" /\ stopped' = TRUE
        /\ thread' = [thread EXCEPT ![t] = "returned"] /\ UNCHANGED <<co, failed>>
        /\ stopped \/ \A x \in Coroutines : co[x] \in {"none", "backlog", "ended"}
    BY <1>4 DEF Leave
  <2>2. Tables' /\ RoomForAnswer'
    BY <1>1, <2>1 DEF IInv, Tables, InboxShape, RoomForAnswer
  <2>5. ~(running /\ ~failed /\ ~Restarted)
    BY <2>1, Distinct DEF IInv, ListenerInv
  <2>6. ListenerInv'
    BY <1>1, <2>0, <2>1, <2>5 DEF IInv, ListenerInv
  <2>7. owner # "out"
    BY <2>1 DEF IInv, ThreadsInv
  <2>8. \A u \in Threads : thread'[u] \in Coroutines => thread[u] \in Coroutines
    BY <2>1, Distinct DEF IInv, TypeOK
  <2>9. RunInv'
    BY <1>1, <2>0, <2>1, <2>7, <2>8 DEF IInv, RunInv
  <2>3. TypeOK'
    BY <1>1, <2>1, Distinct DEF IInv, TypeOK
  <2>4. ThreadsInv'
    BY <1>1, <2>1, <2>7 DEF IInv, TypeOK, ThreadsInv
  <2> QED BY <2>2, <2>3, <2>4, <2>6, <2>9 DEF IInv
<1> QED BY <1>2, <1>3, <1>4

\* A thread that executes a coroutine is inside of the first run of the server,
\* and afterwards it is idle.
LEMMA ResumeFacts ==
  ASSUME IInv, NEW t \in Threads, NEW x \in Coroutines, NEW at, Resume(t, x, at)
  PROVE  /\ UNCHANGED <<running, ready, stopped, owner>>
         /\ owner # "out" /\ ~Restarted /\ co[x] = at
         /\ thread' \in [Threads -> {"none", "idle", "returned"} \cup Coroutines]
         /\ \A u, v \in Threads :
              thread'[u] = thread'[v] /\ thread'[u] \in Coroutines => u = v
         /\ ThreadsInv'
<1>1. /\ thread[t] = x /\ co[x] = at /\ thread' = [thread EXCEPT ![t] = "idle"]
      /\ UNCHANGED <<running, ready, stopped, owner>>
  BY DEF Resume
<1>2. owner # "out" /\ ~Restarted
  BY <1>1, Distinct DEF IInv, ThreadsInv, RunInv
<1>3. thread' \in [Threads -> {"none", "idle", "returned"} \cup Coroutines]
  BY <1>1 DEF IInv, TypeOK
<1>4. \A u, v \in Threads : thread'[u] = thread'[v] /\ thread'[u] \in Coroutines => u = v
  BY <1>1, Distinct DEF IInv, TypeOK
<1>5. ThreadsInv'
  BY <1>1, <1>2 DEF IInv, TypeOK, ThreadsInv
<1> QED BY <1>1, <1>2, <1>3, <1>4, <1>5

\* A step of a coroutine keeps the invariant if it leaves each coroutine at one
\* of its own places, and a listener if nothing failed.
LEMMA CoroutineInv ==
  ASSUME IInv, NEW t \in Threads, NEW x \in Coroutines, NEW at, Resume(t, x, at),
         co' \in [Coroutines -> ListenerStates \cup HandlerStates],
         \A s \in Starts : co'[s] \in ListenerStates,
         \A s \in Starts : co'[s] = "none" <=> co[s] = "none",
         \A c \in Conns : co'[c] \in HandlerStates,
         failed' \in BOOLEAN, UNCHANGED gone,
         InboxShape',
         answer' \in [Conns -> [count : Nat, status : Nat, keep_alive : BOOLEAN]],
         \A c \in Conns : answer'[c].count <= MaxRequests[c],
         RoomForAnswer', ListenerInv'
  PROVE  IInv'
<1>1. /\ UNCHANGED <<running, ready, stopped, owner>> /\ ~Restarted
      /\ thread' \in [Threads -> {"none", "idle", "returned"} \cup Coroutines]
      /\ \A u, v \in Threads :
           thread'[u] = thread'[v] /\ thread'[u] \in Coroutines => u = v
      /\ ThreadsInv'
  BY ResumeFacts
<1>2. Tables'
  BY DEF Tables, InboxShape, Coroutines
<1>3. TypeOK'
  BY <1>1 DEF IInv, TypeOK, ListenerStates, HandlerStates
<1>4. RunInv'
  BY <1>1, SameStarts DEF IInv, RunInv
<1> QED BY <1>1, <1>2, <1>3, <1>4 DEF IInv

\* The steps of listener() keep the invariant: it goes on to accept as long as
\* running_ is set, and otherwise an error has been met or stop() called.
LEMMA ListenerStepInv ==
  ASSUME IInv, NEW t \in Threads, NEW s \in Starts,
         Listen(t, s) \/ ListenFails(t, s) \/ Accept(t, s) \/ AcceptFails(t, s)
  PROVE  IInv'
<1>0. s \in Coroutines
  BY Distinct
<1>1. UNCHANGED <<inbox, gone, answer>>
  BY DEF Listen, ListenFails, Accept, AcceptFails, clients
<1>2. PICK at : Resume(t, s, at)
  BY DEF Listen, ListenFails, Accept, AcceptFails
<1>3. UNCHANGED <<running, stopped>> /\ ~Restarted /\ co[s] # "none"
  <2>1. UNCHANGED <<running, stopped>> /\ ~Restarted
    BY <1>0, <1>2, ResumeFacts
  <2>2. co[s] # "none"
    BY DEF Listen, ListenFails, Accept, AcceptFails, Resume
  <2> QED BY <2>1, <2>2
<1> DEFINE Moves ==
      /\ co' \in [Coroutines -> ListenerStates \cup HandlerStates]
      /\ \A y \in Coroutines :
           \/ co'[y] = co[y]
           \/ y = s /\ co'[y] \in {"accepting", "ended"}
           \/ co[y] = "backlog" /\ co'[y] \in {"posted", "ended"}
<1> DEFINE Goes == co'[s] \in {"posted", "accepting"}
<1> DEFINE Shape == Moves /\ (failed => failed') /\ (running /\ ~failed' => Goes)
<1>4. ASSUME ListenerEnds(s) PROVE Moves
  BY <1>4, <1>0 DEF ListenerEnds, IInv, Tables, InboxShape, ListenerStates, HandlerStates
<1>5. ASSUME Listen(t, s) PROVE Shape
  <2>1. UNCHANGED failed
    BY ZenonT(30), <1>5 DEF Listen
  <2>2. CASE running
    <3>1. co' = [co EXCEPT ![s] = "accepting"]
      BY ZenonT(30), <1>5, <2>2 DEF Listen
    <3>2. Moves /\ Goes
      BY <3>1, <1>0 DEF IInv, Tables, InboxShape, ListenerStates, HandlerStates
    <3> HIDE DEF Moves, Goes
    <3> QED BY ZenonT(30), <3>2, <2>1
  <2>3. CASE ~running
    <3>1. Moves
      BY ZenonT(30), <1>5, <2>3, <1>4 DEF Listen
    <3> HIDE DEF Moves, Goes
    <3> QED BY ZenonT(30), <3>1, <2>1, <2>3
  <2> QED BY ZenonT(30), <2>2, <2>3
<1>6. ASSUME ListenFails(t, s) PROVE Shape
  <2>1. failed' /\ Moves
    BY ZenonT(30), <1>6, <1>4 DEF ListenFails
  <2> HIDE DEF Moves, Goes
  <2> QED BY ZenonT(30), <2>1
<1>7. ASSUME AcceptFails(t, s) PROVE Shape
  <2>1. UNCHANGED failed /\ co[s] = "refused" /\ Moves
    BY ZenonT(30), <1>7, <1>4 DEF AcceptFails, Resume
  <2>2. failed
    BY ZenonT(30), <2>1 DEF IInv, ListenerInv
  <2> HIDE DEF Moves, Goes
  <2> QED BY ZenonT(30), <2>1, <2>2
<1>8. ASSUME Accept(t, s) PROVE Shape
  <2>1. UNCHANGED failed /\ co[s] = "accepting"
    BY ZenonT(30), <1>8 DEF Accept, Resume
  <2>2. PICK c \in Backlog :
          co' = IF running THEN [co EXCEPT ![c] = "posted"]
                ELSE [x \in Coroutines |->
                        CASE x = c -> "posted"
                          [] x = s \/ x \in Backlog \ {c} -> "ended"
                          [] OTHER -> co[x]]
    BY ZenonT(30), <1>8 DEF Accept
  <2>3. c \in Coroutines /\ co[c] = "backlog" /\ c # s
    BY <2>1, Distinct DEF Backlog
  <2>4. CASE running
    <3>1. co' = [co EXCEPT ![c] = "posted"]
      BY ZenonT(30), <2>2, <2>4
    <3>2. Moves /\ Goes
      BY <3>1, <2>1, <2>3, <1>0 DEF IInv, Tables, InboxShape, ListenerStates, HandlerStates
    <3> HIDE DEF Moves, Goes
    <3> QED BY ZenonT(30), <3>2, <2>1
  <2>5. CASE ~running
    <3>1. co' = [x \in Coroutines |->
                        CASE x = c -> "posted"
                          [] x = s \/ x \in Backlog \ {c} -> "ended"
                          [] OTHER -> co[x]]
      BY ZenonT(30), <2>2, <2>5
    <3>2. Moves
      BY <3>1, <2>3, <1>0
         DEF IInv, Tables, InboxShape, ListenerStates, HandlerStates, Backlog
    <3> HIDE DEF Moves, Goes
    <3> QED BY ZenonT(30), <3>2, <2>1, <2>5
  <2> QED BY ZenonT(30), <2>4, <2>5
<1>9. Shape
  <2> HIDE DEF Shape
  <2> QED BY ZenonT(30), <1>5, <1>6, <1>7, <1>8
<1>10. /\ \A r \in Starts : co'[r] \in ListenerStates
       /\ \A r \in Starts : co'[r] = "none" <=> co[r] = "none"
       /\ \A c \in Conns : co'[c] \in HandlerStates
  <2>1. Moves
    BY ZenonT(30), <1>9
  <2>2. \A r \in Starts : co'[r] = "none" <=> co[r] = "none"
    BY <2>1, <1>3, Distinct
  <2>3. /\ \A r \in Starts : co'[r] \in ListenerStates
        /\ \A c \in Conns : co'[c] \in HandlerStates
    BY <2>1, Distinct DEF IInv, TypeOK, ListenerStates, HandlerStates
  <2> QED BY <2>2, <2>3
<1>11. ListenerInv'
  <2>1. \A r \in Starts : co'[r] = "refused" => failed'
    <3>1. \A r \in Starts : co'[r] = "refused" => co[r] = "refused"
      BY ZenonT(30), <1>9, Distinct
    <3> QED BY ZenonT(30), <3>1, <1>9 DEF IInv, ListenerInv
  <2>2. running /\ ~failed' => co'[s] \in {"posted", "accepting"}
    BY ZenonT(30), <1>9
  <2>3. running /\ ~failed' => ~stopped
    <3>1. failed => failed'
      BY ZenonT(30), <1>9
    <3> QED BY ZenonT(30), <3>1, <1>3 DEF IInv, ListenerInv
  <2> QED BY ZenonT(30), <2>1, <2>2, <2>3, <1>3 DEF ListenerInv
<1>12. failed' \in BOOLEAN /\ co' \in [Coroutines -> ListenerStates \cup HandlerStates]
  <2>1. failed' \in {failed, TRUE}
    BY ZenonT(30) DEF Listen, ListenFails, Accept, AcceptFails
  <2> QED BY ZenonT(30), <2>1, <1>9 DEF IInv, TypeOK
<1>13. RoomForAnswer' /\ (\A c \in Conns : answer'[c].count <= MaxRequests[c])
       /\ InboxShape'
       /\ answer' \in [Conns -> [count : Nat, status : Nat, keep_alive : BOOLEAN]]
  BY <1>1 DEF IInv, TypeOK, Tables, InboxShape, RoomForAnswer
<1> QED BY <1>0, <1>1, <1>2, <1>10, <1>11, <1>12, <1>13, CoroutineInv

\* The steps of handle_connection() keep the invariant: a request is answered
\* once, and the listeners are left alone.
LEMMA HandlerStepInv ==
  ASSUME IInv, NEW t \in Threads, NEW c \in Conns,
         BeginRead(t, c) \/ Serve(t, c) \/ ReadFails(t, c) \/ Written(t, c)
  PROVE  IInv'
<1>0. c \in Coroutines /\ c \notin Starts
  BY Distinct
<1>1. UNCHANGED <<gone, failed>>
  BY ZenonT(30) DEF BeginRead, Serve, ReadFails, Written, clients
<1>2. PICK at : Resume(t, c, at)
  BY ZenonT(30) DEF BeginRead, Serve, ReadFails, Written
<1>3. UNCHANGED <<running, stopped>> /\ ~Restarted
  BY <1>0, <1>2, ResumeFacts
<1>4. PICK v \in HandlerStates : co' = [co EXCEPT ![c] = v]
  <2>1. CASE BeginRead(t, c) \/ Serve(t, c) \/ ReadFails(t, c)
    BY <2>1 DEF BeginRead, Serve, ReadFails, HandlerStates
  <2>2. CASE Written(t, c)
    <3>1. PICK write_ec \in BOOLEAN :
            co' = [co EXCEPT ![c] = IF write_ec \/ ~answer[c].keep_alive
                                    THEN "ended" ELSE "reading"]
      BY ZenonT(30), <2>2 DEF Written
    <3> DEFINE w == IF write_ec \/ ~answer[c].keep_alive THEN "ended" ELSE "reading"
    <3>2. w \in HandlerStates
      BY DEF HandlerStates
    <3> QED BY ZenonT(30), <3>1, <3>2
  <2> QED BY ZenonT(30), <2>1, <2>2
<1>5. /\ co' \in [Coroutines -> ListenerStates \cup HandlerStates]
      /\ \A x \in Coroutines : co'[x] = IF x = c THEN v ELSE co[x]
  BY <1>0, <1>4 DEF IInv, Tables, InboxShape
<1>6. /\ \A s \in Starts : co'[s] = co[s] /\ co'[s] \in ListenerStates
      /\ \A d \in Conns : co'[d] \in HandlerStates
  BY <1>0, <1>4, <1>5, Distinct DEF IInv, TypeOK, ListenerStates, HandlerStates
<1>7. ListenerInv'
  <2>1. Restarted' <=> Restarted
    BY <1>6, SameStarts
  <2> QED BY ZenonT(30), <2>1, <1>1, <1>3, <1>6 DEF IInv, ListenerInv
<1> DEFINE Answers ==
      /\ RoomForAnswer' /\ (\A d \in Conns : answer'[d].count <= MaxRequests[d])
      /\ InboxShape'
      /\ answer' \in [Conns -> [count : Nat, status : Nat, keep_alive : BOOLEAN]]
<1>8. ASSUME UNCHANGED <<inbox, answer>> PROVE Answers
  BY <1>8 DEF IInv, TypeOK, Tables, InboxShape, RoomForAnswer
<1>9. ASSUME Serve(t, c) PROVE Answers
  <2>1. /\ answer' = [answer EXCEPT ![c] =
                        [count |-> @.count + 1, status |-> Route(inbox[c]),
                         keep_alive |-> inbox[c].keep_alive]]
        /\ inbox' = [inbox EXCEPT ![c] = None] /\ inbox[c] \in Requests
    BY ZenonT(30), <1>9 DEF Serve
  <2>2. Route(inbox[c]) \in Nat /\ inbox[c].keep_alive \in BOOLEAN
    BY DEF Route, IInv, Tables, InboxShape
  <2>3. answer[c].count < MaxRequests[c] /\ answer[c].count \in Nat
    BY <2>1, RequestFact DEF IInv, RoomForAnswer, Tables, InboxShape
  <2>4. answer' \in [Conns -> [count : Nat, status : Nat, keep_alive : BOOLEAN]]
    BY <2>1, <2>2, <2>3 DEF IInv, Tables, InboxShape
  <2>5. \A d \in Conns : answer'[d].count = IF d = c THEN answer[c].count + 1
                                            ELSE answer[d].count
    BY <2>1 DEF IInv, Tables, InboxShape
  <2>6. \A d \in Conns : inbox'[d] = IF d = c THEN None ELSE inbox[d]
    BY <2>1 DEF IInv, Tables, InboxShape
  <2>7. \A d \in Conns : answer'[d].count <= MaxRequests[d]
    BY <2>3, <2>5, Distinct DEF IInv, TypeOK
  <2>8. RoomForAnswer'
    BY <2>5, <2>6 DEF IInv, RoomForAnswer
  <2>9. InboxShape'
    BY <2>1, <2>6, RequestFact DEF IInv, Tables, InboxShape
  <2> QED BY <2>4, <2>7, <2>8, <2>9
<1>10. Answers
  <2>1. UNCHANGED <<inbox, answer>> \/ Serve(t, c)
    BY ZenonT(30) DEF BeginRead, ReadFails, Written, clients
  <2> HIDE DEF Answers
  <2> QED BY ZenonT(30), <2>1, <1>8, <1>9
<1>11. failed' \in BOOLEAN
  BY <1>1 DEF IInv, TypeOK
<1> QED BY <1>0, <1>1, <1>2, <1>5, <1>6, <1>7, <1>10, <1>11, CoroutineInv

\* The invariant is inductive.
LEMMA NextInv == IInv /\ [Next]_vars => IInv'
<1> SUFFICES ASSUME IInv, [Next]_vars PROVE IInv'
  OBVIOUS
<1>1. CASE UNCHANGED vars
  BY <1>1, SameStarts DEF vars, IInv, TypeOK, Tables, InboxShape, RoomForAnswer,
     ThreadsInv, RunInv, ListenerInv
<1>2. CASE Next
  BY ZenonT(30), <1>2, StartInv, OwnerInv, ClientInv, ContextInv, ListenerStepInv,
     HandlerStepInv DEF Next, ListenerStep, HandlerStep
<1> QED BY <1>1, <1>2

\* The invariant holds in every state of every behaviour of the server.
LEMMA Invariant == Spec => []IInv
BY InitInv, NextInv, PTL DEF Spec

-----------------------------------------------------------------------------
(* The theorems.                                                           *)

\* No coroutine is ever executed by two threads of ioc_, and no connection is
\* given more answers by handle_connection() than it sent requests.
THEOREM OneAnswerEach == Spec => []TypeOK
<1>1. IInv => TypeOK
  BY DEF IInv
<1> QED BY <1>1, Invariant, PTL

\* From the first start() until stop() is called, whatever connections do, a server
\* that met no error of bind() or accept has a listener, and ioc_ is not stopped and
\* has all its threads in run().
THEOREM ListensWhileRunning == Spec => []StillListening
<1>1. IInv => StillListening
  <2> SUFFICES ASSUME IInv, running, ~failed, ~Restarted
               PROVE  /\ \E s \in Starts : co[s] \in {"posted", "accepting"}
                      /\ ~stopped
                      /\ \A t \in Threads : thread[t] \in {"idle"} \cup Coroutines
    BY ZenonT(30) DEF StillListening
  <2>1. ~stopped /\ \E s \in Starts : co[s] \in {"posted", "accepting"}
    BY ZenonT(30) DEF IInv, ListenerInv
  <2>2. owner # "out"
    BY DEF IInv, RunInv
  <2>3. \A t \in Threads : thread[t] \in {"idle"} \cup Coroutines
    <3>1. \A t \in Threads : thread[t] # "returned" /\ thread[t] # "none"
      BY ZenonT(30), <2>1, <2>2 DEF IInv, ThreadsInv
    <3>2. \A t \in Threads : thread[t] \in {"none", "idle", "returned"} \cup Coroutines
      BY ZenonT(30) DEF IInv, TypeOK
    <3> QED BY ZenonT(30), <3>1, <3>2
  <2> QED BY ZenonT(30), <2>1, <2>3
<1> QED BY <1>1, Invariant, PTL

\* Before the first start(), after stop() has returned, and after any later start(),
\* no request is answered: an answer is given by a thread that executes a handler,
\* and there are no threads, or only threads of an ioc_ that is stopped.
THEOREM StoppedIsSilent == Spec => SilentAfterStop
<1>1. IInv /\ [Next]_vars => [owner = "out" \/ Restarted => answer' = answer]_vars
  <2> SUFFICES ASSUME IInv, Next, owner = "out" \/ Restarted PROVE UNCHANGED answer
    BY ZenonT(30) DEF vars
  <2>1. ASSUME NEW t \in Threads, NEW c \in Conns, Serve(t, c) PROVE FALSE
    <3>1. Resume(t, c, "reading") /\ c \in Coroutines
      BY <2>1, Distinct DEF Serve
    <3> QED BY <3>1, ResumeFacts
  <2>2. \/ UNCHANGED answer
        \/ \E t \in Threads, c \in Conns : Serve(t, c)
    BY ZenonT(30) DEF Next, Start, AcceptError, Stop, StopIoc, Join, SetReady, Connect,
       HangUp, Send, Take, Leave, ListenerStep, Listen, ListenFails, Accept,
       AcceptFails, HandlerStep, BeginRead, ReadFails, Written, clients
  <2> QED BY ZenonT(30), <2>1, <2>2
<1> QED BY <1>1, Invariant, PTL DEF Spec, SilentAfterStop
=============================================================================
