--------------------------- MODULE Engine_proofs ---------------------------
(***************************************************************************)
(* Proofs about Engine, for any requests, channel capacities, output limits*)
(* and restarts: the inductive invariant, the part of it that one step on  *)
(* its own preserves (the types, the loops and the cancels), what it says  *)
(* of each request, and the safety of the streams and entries that follows.*)
(***************************************************************************)
EXTENDS Engine, SequenceTheorems, TLAPS

USE SMTT(30)

-----------------------------------------------------------------------------
(* Streams.                                                                *)

\* What a channel has carried, given how many tokens the engine has seen, how
\* many the request has emitted and the state it is in.
Good(s, seen, out, st) ==
  /\ s \in Seq(Events) /\ Len(s) = seen /\ seen <= out
  /\ \A i \in 1 .. Len(s) : s[i].token = i
  /\ \A i \in 1 .. Len(s) : s[i].reason # "none" => i = out /\ IsTerminal(st)
  /\ st = "Completed" /\ seen = out => Len(s) > 0 /\ s[Len(s)].reason # "none"

\* A channel that has carried nothing is in order, whatever was emitted, unless
\* the request completed without a token.
LEMMA GoodEmpty ==
  ASSUME NEW out \in Nat, NEW st, st # "Completed"
  PROVE  Good(<<>>, 0, out, st)
BY EmptySeq DEF Good

\* The next token goes out with the reason that push_tokens() gives it.
LEMMA GoodPush ==
  ASSUME NEW s, NEW seen \in Nat, NEW out \in Nat, NEW st, Good(s, seen, out, st),
         seen < out, NEW reason \in {"none", "stop", "length"},
         reason = "none" <=> ~IsTerminal(st) \/ seen + 1 < out
  PROVE  Good(Append(s, [token |-> seen + 1, reason |-> reason]), seen + 1, out, st)
<1> DEFINE e == [token |-> seen + 1, reason |-> reason]
           t == Append(s, e)
<1>1. s \in Seq(Events) /\ Len(s) = seen
  BY DEF Good
<1>2. e \in Events /\ e.token = seen + 1 /\ e.reason = reason
  BY DEF Events
<1>3. /\ t \in Seq(Events) /\ Len(t) = seen + 1 /\ t[seen + 1] = e
      /\ \A i \in 1 .. seen : t[i] = s[i]
  <2> HIDE DEF e
  <2> QED BY <1>1, <1>2, AppendProperties
<1> HIDE DEF e, t
<1>4. \A i \in 1 .. seen + 1 : t[i].token = i
  BY <1>1, <1>2, <1>3 DEF Good
<1>5. \A i \in 1 .. seen + 1 : t[i].reason # "none" => i = out /\ IsTerminal(st)
  <2> SUFFICES ASSUME NEW i \in 1 .. seen + 1, t[i].reason # "none"
               PROVE  i = out /\ IsTerminal(st)
    OBVIOUS
  <2>1. CASE i = seen + 1
    BY <2>1, <1>2, <1>3
  <2>2. CASE i \in 1 .. seen
    BY <2>2, <1>1, <1>3 DEF Good
  <2> QED BY <2>1, <2>2
<1>6. st = "Completed" /\ seen + 1 = out => t[seen + 1].reason # "none"
  BY <1>2, <1>3 DEF IsTerminal, TerminalStates
<1>7. Good(t, seen + 1, out, st)
  BY <1>3, <1>4, <1>5, <1>6 DEF Good
<1> QED BY <1>7 DEF t, e

\* A request that is not terminal may emit a token, or move to another state
\* that is not Completed, without touching its stream.
LEMMA GoodMoves ==
  ASSUME NEW s, NEW seen \in Nat, NEW out \in Nat, NEW st, NEW to,
         Good(s, seen, out, st), ~IsTerminal(st)
  PROVE  /\ Good(s, seen, out + 1, to)
         /\ to # "Completed" => Good(s, seen, out, to)
BY LenProperties DEF Good

\* What pop() moves from the channel to its consumer stays in the stream.
LEMMA PopKeepsStream ==
  ASSUME NEW S, NEW s \in Seq(S), NEW b \in Seq(S), b # <<>>
  PROVE  /\ Append(s, Head(b)) \o Tail(b) = s \o b
         /\ Append(s, Head(b)) \in Seq(S) /\ Tail(b) \in Seq(S)
         /\ Len(Tail(b)) < Len(b)
<1>1. Len(b) \in Nat \ {0}
  BY EmptySeq
<1>2. Head(b) \in S /\ Tail(b) \in Seq(S) /\ Len(Tail(b)) = Len(b) - 1
  BY HeadTailProperties
<1>3. /\ Head(b) = b[1] /\ Tail(b) = SubSeq(b, 2, Len(b))
      /\ SubSeq(b, 1, Len(b)) = b
  BY TailIsSubSeq, SubSeqFull
<1>4. SubSeq(b, 1, Len(b)) = <<b[1]>> \o SubSeq(b, 1 + 1, Len(b))
  <2>1. 1 \in 1 .. Len(b) /\ Len(b) \in 1 .. Len(b)
    BY <1>1
  <2> QED BY Zenon, <2>1, SubSeqRecursiveFirst
<1> DEFINE h == Head(b)
           t == Tail(b)
<1>5. b = <<h>> \o t
  <2>1. 1 + 1 = 2
    OBVIOUS
  <2> QED BY Zenon, <2>1, <1>3, <1>4
<1>6. <<h>> \in Seq(S)
  BY <1>2
<1> HIDE DEF h, t
<1>7. Append(s, h) = s \o <<h>> /\ Append(s, h) \in Seq(S)
  BY <1>2, AppendIsConcat, AppendProperties DEF h
<1>8. (s \o <<h>>) \o t = s \o (<<h>> \o t)
  BY <1>2, <1>6, ConcatAssociative DEF t
<1>9. Append(s, h) \o t = s \o b
  BY Zenon, <1>5, <1>7, <1>8
<1>10. Len(Tail(b)) < Len(b)
  BY <1>1, <1>2
<1> QED BY Zenon, <1>2, <1>7, <1>9, <1>10 DEF h, t

\* A token that is pushed goes to the end of the stream.
LEMMA PushExtendsStream ==
  \A s, b \in Seq(Events), e \in Events : s \o Append(b, e) = Append(s \o b, e)
<1> SUFFICES ASSUME NEW s \in Seq(Events), NEW b \in Seq(Events), NEW e \in Events
             PROVE  s \o Append(b, e) = Append(s \o b, e)
  OBVIOUS
<1>1. <<e>> \in Seq(Events) /\ s \o b \in Seq(Events)
  BY ConcatProperties
<1>2. Append(b, e) = b \o <<e>> /\ Append(s \o b, e) = (s \o b) \o <<e>>
  BY <1>1, AppendIsConcat
<1>3. (s \o b) \o <<e>> = s \o (b \o <<e>>)
  BY <1>1, ConcatAssociative
<1> QED BY Zenon, <1>2, <1>3

-----------------------------------------------------------------------------
(* The inductive invariant.                                                *)

\* The engine thread's loops: what they have collected still holds when they
\* get to it, and a run that was joined is over.
LoopInv ==
  /\ owner = "out" => pc = "done"
  /\ pc \notin {"push", "backpressure", "reap"} => todo = {}
  /\ pc # "push" => cur = {}
  /\ pc = "backpressure" => \A r \in todo : since[r] = "old"
  /\ pc = "reap" => \A r \in todo : Finished(r)

\* Only a request whose cancel() was called is in the hands of drain_cancels().
CancelInv ==
  /\ \A i \in 1 .. Len(cancels) : cancelCall[cancels[i]] # "none"
  /\ \A i \in 1 .. Len(batch) : cancelCall[batch[i]] # "none"

\* The stream of r in its channel and with its consumer.
Streamed(r) == Good(Stream(r), lastSeen[r], emitted[r], state[r])

\* Where r stands with the scheduler, in active_ and with its channel.
Accounted(r) ==
  /\ state[r] \in {"Received", "WaitingPrefill", "Decoding", "Completed",
                   "Failed", "Cancelled"}
  /\ state[r] = "Received" => r \notin active /\ since[r] = "none"
  /\ state[r] = "Received" \/ r \in active => (r \in closed => r \in hungUp)
  /\ r \in active /\ since[r] # "none" => lastSeen[r] < emitted[r]
  /\ r \notin active /\ state[r] # "Received" =>
       IsTerminal(state[r]) /\ r \in closed
  /\ /\ r \notin active /\ state[r] = "Completed"
     /\ cancelCall[r] = "none" /\ since[r] # "old"
     => lastSeen[r] >= emitted[r]

RequestInv == \A r \in Requests : Streamed(r) /\ Accounted(r)

IInv == TypeOK /\ LoopInv /\ CancelInv /\ RequestInv

-----------------------------------------------------------------------------
(* Types.                                                                  *)

\* What a tick makes of one request.
LEMMA TickShape ==
  ASSUME TypeOK, Sched!Tick
  PROVE  /\ state' \in [Requests -> RequestStates]
         /\ emitted' \in [Requests -> Nat]
         /\ \A r \in Requests :
              IF state[r] \in {"WaitingPrefill", "Decoding"}
              THEN \/ /\ emitted'[r] = emitted[r] + 1
                      /\ state'[r] \in {"Decoding", "Completed"}
                   \/ emitted'[r] = emitted[r] /\ state'[r] = "Failed"
              ELSE emitted'[r] = emitted[r] /\ state'[r] = state[r]
<1>1. PICK outcome \in [{r \in Requests : Sched!Live(r)} -> Sched!Outcomes] :
        /\ state' = [r \in Requests |->
                       IF Sched!Live(r) THEN Sched!After(r, outcome[r])
                                        ELSE state[r]]
        /\ emitted' = [r \in Requests |->
                         IF Sched!Live(r) /\ outcome[r] # "failed"
                         THEN emitted[r] + 1 ELSE emitted[r]]
  BY DEF Sched!Tick
<1>2. state \in [Requests -> RequestStates] /\ emitted \in [Requests -> Nat]
  BY DEF TypeOK
<1>3. ASSUME NEW r \in Requests, Sched!Live(r)
      PROVE  \/ /\ outcome[r] # "failed"
                /\ Sched!After(r, outcome[r]) \in {"Decoding", "Completed"}
             \/ outcome[r] = "failed" /\ Sched!After(r, outcome[r]) = "Failed"
  BY <1>3 DEF Sched!After, Sched!Outcomes
<1>4. ASSUME NEW r \in Requests
      PROVE  /\ IF state[r] \in {"WaitingPrefill", "Decoding"}
                THEN \/ /\ emitted'[r] = emitted[r] + 1
                        /\ state'[r] \in {"Decoding", "Completed"}
                     \/ emitted'[r] = emitted[r] /\ state'[r] = "Failed"
                ELSE emitted'[r] = emitted[r] /\ state'[r] = state[r]
             /\ emitted'[r] \in Nat /\ state'[r] \in RequestStates
  <2>1. /\ state'[r] = IF Sched!Live(r) THEN Sched!After(r, outcome[r]) ELSE state[r]
        /\ emitted'[r] = IF Sched!Live(r) /\ outcome[r] # "failed"
                         THEN emitted[r] + 1 ELSE emitted[r]
        /\ state[r] \in RequestStates /\ emitted[r] \in Nat
        /\ Sched!Live(r) <=> state[r] \in {"WaitingPrefill", "Decoding"}
    BY <1>1, <1>2 DEF Sched!Live
  <2> QED BY <2>1, <1>3 DEF RequestStates
<1>5. /\ state' = [r \in Requests |-> state'[r]]
      /\ emitted' = [r \in Requests |-> emitted'[r]]
  BY <1>1, Zenon
<1> QED BY <1>4, <1>5

\* What Sched!Cancel leaves.
LEMMA CancelShape ==
  ASSUME TypeOK, NEW r \in Requests, Sched!Cancel(r)
  PROVE  /\ state' \in [Requests -> RequestStates] /\ emitted' = emitted
         /\ \A x \in Requests : x # r => state'[x] = state[x]
         /\ state'[r] = IF state[r] \in {"WaitingPrefill", "Decoding"}
                        THEN "Cancelled" ELSE state[r]
BY DEF TypeOK, Sched!Cancel, Sched!Live, RequestStates

\* What one step of push_tokens() does to the entry r.
LEMMA PushShape ==
  ASSUME TypeOK, NEW r \in todo, EntryDone(r) \/ PushToken(r) \/ PushRefused(r)
  PROVE  /\ r \in Requests /\ r \in active
         /\ cur' \subseteq todo' /\ todo' \subseteq todo
         /\ lastSeen' \in [Requests -> Nat]
         /\ since' \in [Requests -> {"none", "fresh", "old"}]
         /\ buffer' \in [Requests -> Seq(Events)]
         /\ \A x \in Requests : Len(buffer'[x]) <= Capacity[x]
         /\ \A x \in Requests : x # r =>
              /\ lastSeen'[x] = lastSeen[x] /\ since'[x] = since[x]
              /\ buffer'[x] = buffer[x]
         /\ \/ /\ lastSeen[r] >= emitted[r]
               /\ UNCHANGED <<lastSeen, since, buffer>>
            \/ /\ lastSeen[r] < emitted[r]
               /\ lastSeen'[r] = lastSeen[r] + 1 /\ since'[r] = "none"
               /\ \E reason \in {"none", "stop", "length"} :
                    /\ reason = "none" <=>
                         ~IsTerminal(state[r]) \/ lastSeen[r] + 1 < emitted[r]
                    /\ buffer'[r] = Append(buffer[r],
                                       [token |-> lastSeen[r] + 1, reason |-> reason])
            \/ /\ lastSeen[r] < emitted[r]
               /\ UNCHANGED <<lastSeen, buffer>>
<1>1. /\ r \in Requests /\ r \in active /\ cur \subseteq todo
      /\ lastSeen \in [Requests -> Nat] /\ emitted \in [Requests -> Nat]
      /\ since \in [Requests -> {"none", "fresh", "old"}]
      /\ buffer \in [Requests -> Seq(Events)] /\ Capacity \in [Requests -> Nat]
      /\ \A x \in Requests : Len(buffer[x]) <= Capacity[x]
  BY EngineAssumption DEF TypeOK
<1>2. CASE EntryDone(r)
  BY <1>1, <1>2 DEF EntryDone
<1>3. CASE PushToken(r)
  <2> DEFINE e == [token |-> lastSeen[r] + 1, reason |-> FinishReason(r)]
  <2>1. FinishReason(r) \in {"none", "stop", "length"}
    BY DEF FinishReason
  <2>2. FinishReason(r) = "none" <=>
          ~IsTerminal(state[r]) \/ lastSeen[r] + 1 < emitted[r]
    BY DEF FinishReason, IsTerminal
  <2>3. e \in Events
    BY <1>1, <2>1 DEF Events
  <2>4. /\ Append(buffer[r], e) \in Seq(Events) /\ Len(buffer[r]) \in Nat
        /\ Len(Append(buffer[r], e)) = Len(buffer[r]) + 1
    BY <1>1, <2>3, AppendProperties, LenProperties
  <2>5. /\ lastSeen[r] < emitted[r] /\ Len(buffer[r]) < Capacity[r]
        /\ buffer' = [buffer EXCEPT ![r] = Append(buffer[r], e)]
        /\ lastSeen' = [lastSeen EXCEPT ![r] = lastSeen[r] + 1]
        /\ since' = [since EXCEPT ![r] = "none"]
        /\ cur' = {r} /\ todo' = todo
    BY <1>3 DEF PushToken, HasRoom
  <2>6. buffer'[r] = Append(buffer[r], e)
    BY <1>1, <2>5
  <2>7. \E reason \in {"none", "stop", "length"} :
          /\ reason = "none" <=>
               ~IsTerminal(state[r]) \/ lastSeen[r] + 1 < emitted[r]
          /\ buffer'[r] = Append(buffer[r], [token |-> lastSeen[r] + 1, reason |-> reason])
    BY Zenon, <2>1, <2>2, <2>6
  <2> HIDE DEF e
  <2>8. \A x \in Requests : Len(buffer'[x]) <= Capacity[x]
    BY <1>1, <2>4, <2>5
  <2> QED BY <1>1, <2>4, <2>5, <2>7, <2>8
<1>4. CASE PushRefused(r)
  BY <1>1, <1>4 DEF PushRefused
<1> QED BY <1>2, <1>3, <1>4

\* The parts of TypeOK: the threads and the queues, the entries, the channels.
ControlOK ==
  /\ running \in BOOLEAN /\ owner \in {"out", "in", "notify", "join"}
  /\ starts \in 0 .. MaxStarts
  /\ submitCall \in
       [Requests -> {"none", "checked", "pushed", "accepted", "refused"}]
  /\ cancelCall \in [Requests -> {"none", "pushed", "done"}]
  /\ subs \in Seq(Requests) /\ cancels \in Seq(Requests) /\ batch \in Seq(Requests)
  /\ pc \in EnginePcs

EntriesOK ==
  /\ cur \subseteq todo /\ todo \subseteq active /\ active \subseteq Requests
  /\ state \in [Requests -> RequestStates]
  /\ emitted \in [Requests -> Nat] /\ lastSeen \in [Requests -> Nat]
  /\ since \in [Requests -> {"none", "fresh", "old"}]

ChannelsOK ==
  /\ hungUp \subseteq closed /\ closed \subseteq Requests
  /\ received \in [Requests -> Seq(Events)]
  /\ buffer \in [Requests -> Seq(Events)]
  /\ \A r \in Requests : Len(buffer[r]) <= Capacity[r]

\* The parts make up the whole.
LEMMA TypeParts == TypeOK <=> ControlOK /\ EntriesOK /\ ChannelsOK
BY Zenon DEF TypeOK, ControlOK, EntriesOK, ChannelsOK

\* The types of what the threads share and where they are.
LEMMA ControlStep ==
  ASSUME TypeOK, Next
  PROVE  ControlOK'
<1> USE DEF clients, queues, loop
<1>0. ControlOK
  BY Zenon, TypeParts
<1>1. CASE Start
  <2>1. running' \in BOOLEAN /\ UNCHANGED <<clients, queues, batch>>
    BY Zenon, <1>1 DEF Start
  <2>2. starts' = starts + 1 /\ starts < MaxStarts /\ owner' = "in" /\ pc' = "check"
    BY Zenon, <1>1 DEF Start
  <2> QED BY <1>0, <2>1, <2>2, EngineAssumption DEF ControlOK, EnginePcs
<1>2. CASE Stop
  <2>1. running' \in BOOLEAN /\ owner' = "notify"
    BY Zenon, <1>2 DEF Stop
  <2>2. UNCHANGED <<starts, clients, queues, pc, batch>>
    BY Zenon, <1>2 DEF Stop
  <2> QED BY <1>0, <2>1, <2>2 DEF ControlOK
<1>3. CASE StopNotify \/ Join
  BY <1>0, <1>3 DEF ControlOK, StopNotify, Join, Notify, EnginePcs
<1>4. CASE CheckRunning \/ LookForWork \/ Block \/ Timeout \/ CancelsDone
  <2>1. UNCHANGED <<running, owner, starts, clients, queues, batch>>
    BY Zenon, <1>4 DEF CheckRunning, LookForWork, Block, Timeout, CancelsDone
  <2>2. pc' \in EnginePcs
    BY <1>4 DEF CheckRunning, LookForWork, Block, Timeout, CancelsDone, EnginePcs
  <2> QED BY Zenon, <1>0, <2>1, <2>2 DEF ControlOK
<1>5. CASE \/ Tick \/ Push \/ CollectStuck \/ CancelStuck
           \/ CollectFinished \/ Reap \/ ReapDone
  <2>1. UNCHANGED <<running, owner, starts, clients, queues, batch>>
    BY Zenon, <1>5 DEF Tick, Push, CollectStuck, CancelStuck, CollectFinished,
                       Reap, ReapDone
  <2>2. pc' = pc \/ pc' \in {"push", "backpressure", "reap", "check"}
    BY <1>5 DEF Tick, Push, CollectStuck, CancelStuck, CollectFinished,
                Reap, ReapDone
  <2> QED BY <1>0, <2>1, <2>2 DEF ControlOK, EnginePcs
<1>6. CASE DrainSubmissions \/ DrainCancels
  <2>1. UNCHANGED <<running, owner, starts, clients>>
    BY Zenon, <1>6 DEF DrainSubmissions, DrainCancels
  <2>2. pc' \in EnginePcs
    BY <1>6 DEF DrainSubmissions, DrainCancels, EnginePcs
  <2>3. /\ subs' = subs \/ subs' = <<>>
        /\ cancels' = cancels \/ cancels' = <<>>
        /\ batch' = batch \/ batch' = cancels
    BY Zenon, <1>6 DEF DrainSubmissions, DrainCancels
  <2>4. <<>> \in Seq(Requests)
    BY EmptySeq
  <2> QED BY Zenon, <1>0, <2>1, <2>2, <2>3, <2>4 DEF ControlOK
<1>7. CASE CancelOne
  <2>1. batch # <<>> /\ batch' = Tail(batch)
    BY Zenon, <1>7 DEF CancelOne
  <2>2. UNCHANGED <<running, owner, starts, clients, queues, pc>>
    BY Zenon, <1>7 DEF CancelOne
  <2>3. Tail(batch) \in Seq(Requests)
    BY <1>0, <2>1, HeadTailProperties DEF ControlOK
  <2> QED BY Zenon, <1>0, <2>1, <2>2, <2>3 DEF ControlOK
<1>8. ASSUME NEW r \in Requests, ClientStep(r)
      PROVE  ControlOK'
  <2>1. UNCHANGED <<running, owner, starts, batch>>
    BY Zenon, <1>8 DEF ClientStep, SubmitCheck, SubmitPush, SubmitNotify,
                       CancelPush, CancelNotify
  <2>2. pc' \in EnginePcs
    BY <1>0, <1>8 DEF ControlOK, ClientStep, SubmitCheck, SubmitPush, SubmitNotify,
                      CancelPush, CancelNotify, Notify, EnginePcs
  <2>3. subs' \in {subs, Append(subs, r)} /\ cancels' \in {cancels, Append(cancels, r)}
    BY <1>8 DEF ClientStep, SubmitCheck, SubmitPush, SubmitNotify,
                CancelPush, CancelNotify
  <2>4. /\ \/ submitCall' = submitCall
           \/ submitCall' = [submitCall EXCEPT ![r] = IF running THEN "checked"
                                                                 ELSE "refused"]
           \/ submitCall' = [submitCall EXCEPT ![r] = "pushed"]
           \/ submitCall' = [submitCall EXCEPT ![r] = "accepted"]
        /\ \/ cancelCall' = cancelCall
           \/ cancelCall' = [cancelCall EXCEPT ![r] = "pushed"]
           \/ cancelCall' = [cancelCall EXCEPT ![r] = "done"]
    BY Zenon, <1>8 DEF ClientStep, SubmitCheck, SubmitPush, SubmitNotify,
                       CancelPush, CancelNotify
  <2>5. subs' \in Seq(Requests) /\ cancels' \in Seq(Requests)
    <3>1. subs \in Seq(Requests) /\ cancels \in Seq(Requests)
      BY Zenon, <1>0 DEF ControlOK
    <3>2. Append(subs, r) \in Seq(Requests) /\ Append(cancels, r) \in Seq(Requests)
      BY <3>1, AppendProperties
    <3> QED BY Zenon, <2>3, <3>1, <3>2
  <2>6. submitCall' \in
          [Requests -> {"none", "checked", "pushed", "accepted", "refused"}]
    <3>1. submitCall \in
            [Requests -> {"none", "checked", "pushed", "accepted", "refused"}]
      BY Zenon, <1>0 DEF ControlOK
    <3> QED BY <2>4, <3>1
  <2>7. cancelCall' \in [Requests -> {"none", "pushed", "done"}]
    <3>1. cancelCall \in [Requests -> {"none", "pushed", "done"}]
      BY Zenon, <1>0 DEF ControlOK
    <3> QED BY <2>4, <3>1
  <2> QED BY Zenon, <1>0, <2>1, <2>2, <2>5, <2>6, <2>7 DEF ControlOK
<1>9. ASSUME NEW r \in Requests, Pop(r) \/ HangUp(r) \/ Age(r)
      PROVE  ControlOK'
  <2>1. UNCHANGED <<running, owner, starts, clients, queues, batch, pc>>
    BY Zenon, <1>9 DEF Pop, HangUp, Age
  <2> QED BY Zenon, <1>0, <2>1 DEF ControlOK
<1> QED
  BY ZenonT(30), <1>1, <1>2, <1>3, <1>4, <1>5, <1>6, <1>7, <1>8, <1>9
     DEF Next, EngineStep

\* The entries: what the loops hold is in active_.
LEMMA EntriesStep ==
  ASSUME TypeOK, LoopInv, Next
  PROVE  EntriesOK'
<1> USE DEF loop, sched, entries
<1>0. ControlOK /\ EntriesOK
  BY Zenon, TypeParts
<1>1. ASSUME UNCHANGED <<todo, cur, sched, entries>>
      PROVE  EntriesOK'
  BY Zenon, <1>0, <1>1 DEF EntriesOK
<1>2. CASE \/ Start \/ Stop \/ StopNotify \/ Join \/ CheckRunning \/ LookForWork
           \/ Block \/ Timeout \/ DrainCancels \/ CancelsDone \/ ReapDone
  <2>1. UNCHANGED <<todo, cur, sched, entries>>
    BY Zenon, <1>2 DEF Start, Stop, StopNotify, Join, CheckRunning, LookForWork,
                       Block, Timeout, DrainCancels, CancelsDone, ReapDone
  <2> QED BY Zenon, <1>1, <2>1
<1>3. CASE DrainSubmissions
  <2>1. Range(subs) \subseteq Requests
    BY <1>0, LenProperties DEF ControlOK, Range
  <2>2. state' \in [Requests -> RequestStates] /\ emitted' = emitted
    BY <1>0, <1>3 DEF EntriesOK, DrainSubmissions, Sched!SubmitAll, RequestStates
  <2>3. active' = active \cup Range(subs) /\ UNCHANGED <<todo, cur, lastSeen, since>>
    BY Zenon, <1>3 DEF DrainSubmissions
  <2> QED BY <1>0, <2>1, <2>2, <2>3 DEF EntriesOK
<1>4. CASE CancelOne
  <2>1. /\ batch # <<>> /\ Sched!Cancel(Head(batch)) /\ UNCHANGED <<todo, cur>>
        /\ pc = "cancel"
    BY Zenon, <1>4 DEF CancelOne
  <2>2. Head(batch) \in Requests
    BY <1>0, <2>1, HeadTailProperties DEF ControlOK
  <2>3. state' \in [Requests -> RequestStates] /\ emitted' = emitted
    BY Zenon, <2>1, <2>2, CancelShape
  <2>4. /\ active' = active \ {Head(batch)} \/ active' = active
        /\ lastSeen' = lastSeen /\ since' = since
    BY Zenon, <1>4 DEF CancelOne, Forget
  <2>5. todo = {} /\ cur = {}
    BY <2>1 DEF LoopInv
  <2> QED BY <1>0, <2>1, <2>3, <2>4, <2>5 DEF EntriesOK
<1>5. CASE Tick
  <2>1. Sched!Tick /\ pc = "tick" /\ todo' = active /\ cur' = cur /\ UNCHANGED entries
    BY Zenon, <1>5 DEF Tick
  <2>2. state' \in [Requests -> RequestStates] /\ emitted' \in [Requests -> Nat]
    BY Zenon, <2>1, TickShape
  <2>3. cur = {}
    BY <2>1 DEF LoopInv
  <2> QED BY <1>0, <2>1, <2>2, <2>3 DEF EntriesOK
<1>6. CASE Push
  <2>1. PICK r \in todo : EntryDone(r) \/ PushToken(r) \/ PushRefused(r)
    BY Zenon, <1>6 DEF Push
  <2>2. /\ cur' \subseteq todo' /\ todo' \subseteq todo
        /\ lastSeen' \in [Requests -> Nat]
        /\ since' \in [Requests -> {"none", "fresh", "old"}]
    BY Zenon, <2>1, PushShape
  <2>3. UNCHANGED <<state, emitted, active>>
    BY Zenon, <1>6 DEF Push
  <2> QED BY <1>0, <2>2, <2>3 DEF EntriesOK
<1>7. CASE CollectStuck \/ CollectFinished
  <2>1. todo = {} /\ todo' \subseteq active /\ cur' = cur /\ UNCHANGED <<sched, entries>>
    BY <1>7 DEF CollectStuck, CollectFinished
  <2> QED BY <1>0, <2>1 DEF EntriesOK
<1>8. CASE CancelStuck \/ Reap
  <2>1. PICK r \in todo : /\ Forget(r) /\ todo' = todo \ {r}
                          /\ Sched!Cancel(r) \/ UNCHANGED <<state, emitted>>
    BY Zenon, <1>8 DEF CancelStuck, Reap
  <2>2. /\ active' = active \ {r} /\ lastSeen' = lastSeen /\ since' = since
        /\ r \in Requests
    BY <1>0, <2>1 DEF Forget, EntriesOK
  <2>3. cur = {} /\ cur' = cur
    BY <1>8 DEF CancelStuck, Reap, LoopInv
  <2>4. state' \in [Requests -> RequestStates] /\ emitted' = emitted
    BY Zenon, <1>0, <2>1, <2>2, CancelShape DEF EntriesOK
  <2> QED BY <1>0, <2>1, <2>2, <2>3, <2>4 DEF EntriesOK
<1>9. ASSUME NEW r \in Requests, ClientStep(r) \/ Pop(r) \/ HangUp(r)
      PROVE  EntriesOK'
  <2>1. UNCHANGED <<todo, cur, sched, entries>>
    BY Zenon, <1>9 DEF ClientStep, SubmitCheck, SubmitPush, SubmitNotify,
                       CancelPush, CancelNotify, Pop, HangUp
  <2> QED BY Zenon, <1>1, <2>1
<1>10. ASSUME NEW r \in Requests, Age(r)
       PROVE  EntriesOK'
  <2>1. UNCHANGED <<todo, cur, sched, active, lastSeen>>
    BY Zenon, <1>10 DEF Age
  <2>2. since' \in [Requests -> {"none", "fresh", "old"}]
    BY <1>0, <1>10 DEF Age, EntriesOK
  <2> QED BY Zenon, <1>0, <2>1, <2>2 DEF EntriesOK
<1> QED
  BY ZenonT(30), <1>2, <1>3, <1>4, <1>5, <1>6, <1>7, <1>8, <1>9, <1>10
     DEF Next, EngineStep

\* The channels: none grows beyond its capacity.
LEMMA ChannelsStep ==
  ASSUME TypeOK, Next
  PROVE  ChannelsOK'
<1> USE DEF channels
<1>0. ControlOK /\ EntriesOK /\ ChannelsOK
  BY Zenon, TypeParts
<1>1. ASSUME UNCHANGED channels
      PROVE  ChannelsOK'
  BY Zenon, <1>0, <1>1 DEF ChannelsOK
<1>2. CASE \/ Start \/ Stop \/ StopNotify \/ Join \/ CheckRunning \/ LookForWork
           \/ Block \/ Timeout \/ DrainCancels \/ CancelsDone \/ ReapDone
           \/ DrainSubmissions \/ Tick \/ CollectStuck \/ CollectFinished
  <2>1. UNCHANGED channels
    BY Zenon, <1>2 DEF Start, Stop, StopNotify, Join, CheckRunning, LookForWork,
                       Block, Timeout, DrainCancels, CancelsDone, ReapDone,
                       DrainSubmissions, Tick, CollectStuck, CollectFinished
  <2> QED BY Zenon, <1>1, <2>1
<1>3. ASSUME NEW r \in Requests, Forget(r)
      PROVE  ChannelsOK'
  <2>1. closed' = closed \cup {r} /\ UNCHANGED <<buffer, hungUp, received>>
    BY Zenon, <1>3 DEF Forget
  <2> QED BY <1>0, <2>1 DEF ChannelsOK
<1>4. CASE CancelOne
  <2>1. batch # <<>> /\ (Forget(Head(batch)) \/ UNCHANGED channels)
    BY Zenon, <1>4 DEF CancelOne
  <2>2. Head(batch) \in Requests
    BY <1>0, <2>1, HeadTailProperties DEF ControlOK
  <2> QED BY Zenon, <1>1, <1>3, <2>1, <2>2
<1>5. CASE CancelStuck \/ Reap
  <2>1. PICK r \in todo : Forget(r)
    BY Zenon, <1>5 DEF CancelStuck, Reap
  <2>2. r \in Requests
    BY <1>0 DEF EntriesOK
  <2> QED BY Zenon, <1>3, <2>1, <2>2
<1>6. CASE Push
  <2>1. PICK r \in todo : EntryDone(r) \/ PushToken(r) \/ PushRefused(r)
    BY Zenon, <1>6 DEF Push
  <2>2. /\ buffer' \in [Requests -> Seq(Events)]
        /\ \A x \in Requests : Len(buffer'[x]) <= Capacity[x]
    BY Zenon, <2>1, PushShape
  <2>3. UNCHANGED <<closed, hungUp, received>>
    BY Zenon, <1>6 DEF Push
  <2> QED BY Zenon, <1>0, <2>2, <2>3 DEF ChannelsOK
<1>7. ASSUME NEW r \in Requests, ClientStep(r) \/ Age(r)
      PROVE  ChannelsOK'
  <2>1. UNCHANGED channels
    BY Zenon, <1>7 DEF ClientStep, SubmitCheck, SubmitPush, SubmitNotify,
                       CancelPush, CancelNotify, Age
  <2> QED BY Zenon, <1>1, <2>1
<1>8. ASSUME NEW r \in Requests, Pop(r)
      PROVE  ChannelsOK'
  <2>1. /\ received[r] \in Seq(Events) /\ buffer[r] \in Seq(Events)
        /\ Len(buffer[r]) <= Capacity[r] /\ Capacity[r] \in Nat
    BY <1>0, EngineAssumption DEF ChannelsOK
  <2>0. buffer[r] # <<>>
    BY Zenon, <1>8 DEF Pop
  <2> DEFINE taken == Append(received[r], Head(buffer[r]))
             rest == Tail(buffer[r])
  <2>2. taken \in Seq(Events) /\ rest \in Seq(Events) /\ Len(rest) <= Capacity[r]
    BY <2>0, <2>1, PopKeepsStream, LenProperties
  <2>3. /\ received' = [received EXCEPT ![r] = taken]
        /\ buffer' = [buffer EXCEPT ![r] = rest]
        /\ UNCHANGED <<closed, hungUp>>
    BY <1>8 DEF Pop
  <2> HIDE DEF taken, rest
  <2> QED BY <1>0, <2>2, <2>3 DEF ChannelsOK
<1>9. ASSUME NEW r \in Requests, HangUp(r)
      PROVE  ChannelsOK'
  <2>1. /\ closed' = closed \cup {r} /\ hungUp' = hungUp \cup {r}
        /\ UNCHANGED <<buffer, received>>
    BY Zenon, <1>9 DEF HangUp
  <2> QED BY <1>0, <2>1 DEF ChannelsOK
<1> QED
  BY ZenonT(30), <1>2, <1>4, <1>5, <1>6, <1>7, <1>8, <1>9 DEF Next, EngineStep

\* Every step keeps the types.
LEMMA TypeStep ==
  ASSUME TypeOK, LoopInv, Next
  PROVE  TypeOK'
<1>1. ControlOK' /\ EntriesOK' /\ ChannelsOK'
  BY Zenon, ControlStep, EntriesStep, ChannelsStep
<1> QED BY Zenon, <1>1 DEF TypeOK, ControlOK, EntriesOK, ChannelsOK

-----------------------------------------------------------------------------
(* The loops and the cancels.                                              *)

\* A step of the owner, a client, a consumer or the clock leaves what the
\* engine thread's loops have collected as it is.
LEMMA LoopStep ==
  ASSUME TypeOK, LoopInv, Next
  PROVE  LoopInv'
<1> USE DEF clients, queues, loop, sched, entries, channels, Finished
<1>1. CASE Start
  BY <1>1 DEF LoopInv, Start
<1>2. CASE Stop
  BY <1>2 DEF LoopInv, Stop
<1>3. CASE StopNotify
  BY <1>3 DEF LoopInv, StopNotify, Notify
<1>4. CASE Join
  BY <1>4 DEF LoopInv, Join
<1>5. CASE CheckRunning
  BY <1>5 DEF LoopInv, CheckRunning
<1>6. CASE LookForWork
  BY <1>6 DEF LoopInv, LookForWork
<1>7. CASE Block \/ Timeout
  BY <1>7 DEF LoopInv, Block, Timeout
<1>8. CASE DrainSubmissions
  BY <1>8 DEF LoopInv, DrainSubmissions
<1>9. CASE DrainCancels
  BY <1>9 DEF LoopInv, DrainCancels
<1>10. CASE CancelOne
  BY <1>10 DEF LoopInv, CancelOne
<1>11. CASE CancelsDone
  BY <1>11 DEF LoopInv, CancelsDone
<1>12. CASE Tick
  BY <1>12 DEF LoopInv, Tick
<1>13. CASE Push
  <2>1. pc = "push" /\ pc' = pc /\ owner' = owner
    BY Zenon, <1>13 DEF Push
  <2> QED BY <2>1 DEF LoopInv
<1>14. CASE CollectStuck
  <2>1. cur = {}
    BY <1>14 DEF CollectStuck, TypeOK
  <2> QED BY <1>14, <2>1 DEF LoopInv, CollectStuck, Stuck
<1>15. CASE CollectFinished
  BY <1>15 DEF LoopInv, CollectFinished
<1>16. CASE CancelStuck
  BY <1>16 DEF LoopInv, CancelStuck, Forget
<1>17. CASE Reap
  BY <1>17 DEF LoopInv, Reap, Forget
<1>18. CASE ReapDone
  BY <1>18 DEF LoopInv, ReapDone
<1>19. ASSUME NEW r \in Requests, SubmitCheck(r) \/ SubmitPush(r) \/ CancelPush(r)
       PROVE  LoopInv'
  <2>1. UNCHANGED <<owner, pc, loop, sched, entries>>
    BY Zenon, <1>19 DEF SubmitCheck, SubmitPush, CancelPush
  <2> QED BY <2>1 DEF LoopInv
<1>20. ASSUME NEW r \in Requests, SubmitNotify(r) \/ CancelNotify(r)
       PROVE  LoopInv'
  <2>1. Notify /\ UNCHANGED <<owner, loop, sched, entries>>
    BY Zenon, <1>20 DEF SubmitNotify, CancelNotify
  <2> QED BY <2>1 DEF LoopInv, Notify
<1>21. ASSUME NEW r \in Requests, Pop(r) \/ HangUp(r)
       PROVE  LoopInv'
  <2>1. UNCHANGED <<owner, pc, loop, sched, entries>>
    BY Zenon, <1>21 DEF Pop, HangUp
  <2> QED BY <2>1 DEF LoopInv
<1>22. ASSUME NEW r \in Requests, Age(r)
       PROVE  LoopInv'
  BY <1>22 DEF LoopInv, Age, TypeOK
<1> QED
  BY <1>1, <1>2, <1>3, <1>4, <1>5, <1>6, <1>7, <1>8, <1>9, <1>10, <1>11, <1>12,
     <1>13, <1>14, <1>15, <1>16, <1>17, <1>18, <1>19, <1>20, <1>21, <1>22
     DEF Next, EngineStep, ClientStep

\* An id is queued by cancel() only, and swapped out and dropped as it is.
LEMMA CancelStep ==
  ASSUME TypeOK, CancelInv, Next
  PROVE  /\ CancelInv'
         /\ \A x \in Requests : cancelCall'[x] = "none" => cancelCall[x] = "none"
<1> USE DEF clients, queues, loop
<1>0. /\ cancels \in Seq(Requests) /\ batch \in Seq(Requests)
      /\ cancelCall \in [Requests -> {"none", "pushed", "done"}]
  BY Zenon DEF TypeOK
<1> DEFINE Kept == UNCHANGED <<cancelCall, cancels, batch>>
<1>1. ASSUME Kept
      PROVE  /\ CancelInv'
             /\ \A x \in Requests : cancelCall'[x] = "none" => cancelCall[x] = "none"
  BY <1>1 DEF CancelInv
<1>2. CASE Start \/ Stop \/ StopNotify \/ Join
  <2>1. Kept
    BY Zenon, <1>2 DEF Start, Stop, StopNotify, Join
  <2> QED BY Zenon, <1>1, <2>1
<1>3. CASE CheckRunning \/ LookForWork \/ Block \/ Timeout \/ DrainSubmissions
  <2>1. Kept
    BY Zenon, <1>3 DEF CheckRunning, LookForWork, Block, Timeout, DrainSubmissions
  <2> QED BY Zenon, <1>1, <2>1
<1>4. CASE CancelsDone \/ Tick \/ Push \/ CollectStuck \/ CancelStuck
  <2>1. Kept
    BY Zenon, <1>4 DEF CancelsDone, Tick, Push, CollectStuck, CancelStuck
  <2> QED BY Zenon, <1>1, <2>1
<1>5. CASE CollectFinished \/ Reap \/ ReapDone
  <2>1. Kept
    BY Zenon, <1>5 DEF CollectFinished, Reap, ReapDone
  <2> QED BY Zenon, <1>1, <2>1
<1>6. CASE DrainCancels
  <2>1. batch' = cancels /\ cancels' = <<>> /\ cancelCall' = cancelCall
    BY Zenon, <1>6 DEF DrainCancels
  <2> QED BY <2>1 DEF CancelInv
<1>7. CASE CancelOne
  <2>1. /\ batch # <<>> /\ batch' = Tail(batch)
        /\ UNCHANGED <<cancelCall, cancels>>
    BY Zenon, <1>7 DEF CancelOne
  <2>2. /\ batch \in Seq(Requests) /\ Len(batch) \in Nat /\ Len(batch') = Len(batch) - 1
        /\ \A i \in 1 .. Len(batch') : batch'[i] = batch[i + 1]
    BY <1>0, <2>1, HeadTailProperties, LenProperties
  <2>3. \A i \in 1 .. Len(batch') : cancelCall[batch'[i]] # "none"
    BY <2>2 DEF CancelInv
  <2> QED BY <2>1, <2>3 DEF CancelInv
<1>8. ASSUME NEW r \in Requests, SubmitCheck(r) \/ SubmitPush(r) \/ SubmitNotify(r)
      PROVE  Kept
  BY Zenon, <1>8 DEF SubmitCheck, SubmitPush, SubmitNotify
<1>9. ASSUME NEW r \in Requests, Pop(r) \/ HangUp(r) \/ Age(r)
      PROVE  Kept
  BY Zenon, <1>9 DEF Pop, HangUp, Age
<1>10. ASSUME NEW r \in Requests, CancelPush(r)
       PROVE  /\ CancelInv'
              /\ \A x \in Requests : cancelCall'[x] = "none" => cancelCall[x] = "none"
  <2>1. /\ cancels' = Append(cancels, r) /\ batch' = batch
        /\ cancelCall' = [cancelCall EXCEPT ![r] = "pushed"]
    BY Zenon, <1>10 DEF CancelPush
  <2>2. /\ cancelCall'[r] # "none"
        /\ \A x \in Requests : cancelCall[x] # "none" => cancelCall'[x] # "none"
    BY <1>0, <2>1
  <2>3. /\ Len(cancels) \in Nat /\ Len(cancels') = Len(cancels) + 1
        /\ \A i \in 1 .. Len(cancels) : cancels'[i] = cancels[i] /\ cancels[i] \in Requests
        /\ cancels'[Len(cancels) + 1] = r
    BY <1>0, <2>1, AppendProperties, LenProperties, ElementOfSeq
  <2>4. ASSUME NEW i \in 1 .. Len(cancels') PROVE cancelCall'[cancels'[i]] # "none"
    BY <2>2, <2>3 DEF CancelInv
  <2>5. ASSUME NEW i \in 1 .. Len(batch) PROVE cancelCall'[batch[i]] # "none"
    BY <1>0, <2>2, ElementOfSeq DEF CancelInv
  <2> QED BY <2>1, <2>2, <2>4, <2>5 DEF CancelInv
<1>11. ASSUME NEW r \in Requests, CancelNotify(r)
       PROVE  /\ CancelInv'
              /\ \A x \in Requests : cancelCall'[x] = "none" => cancelCall[x] = "none"
  <2>1. UNCHANGED <<cancels, batch>> /\ cancelCall' = [cancelCall EXCEPT ![r] = "done"]
    BY Zenon, <1>11 DEF CancelNotify
  <2>2. \A x \in Requests : cancelCall[x] # "none" => cancelCall'[x] # "none"
    BY <1>0, <2>1
  <2>3. ASSUME NEW i \in 1 .. Len(cancels) PROVE cancelCall'[cancels[i]] # "none"
    BY <1>0, <2>2, ElementOfSeq DEF CancelInv
  <2>4. ASSUME NEW i \in 1 .. Len(batch) PROVE cancelCall'[batch[i]] # "none"
    BY <1>0, <2>2, ElementOfSeq DEF CancelInv
  <2> QED BY <2>1, <2>2, <2>3, <2>4 DEF CancelInv
<1> HIDE DEF Kept
<1> QED
  BY <1>1, <1>2, <1>3, <1>4, <1>5, <1>6, <1>7, <1>8, <1>9, <1>10, <1>11
     DEF Next, EngineStep, ClientStep

-----------------------------------------------------------------------------
(* The requests.                                                           *)

\* A step that leaves r alone, or only moves an event of r from its channel to
\* its consumer, keeps what is known of r.
LEMMA Frame ==
  ASSUME NEW r, Streamed(r), Accounted(r), Stream(r)' = Stream(r),
         state'[r] = state[r], emitted'[r] = emitted[r],
         lastSeen'[r] = lastSeen[r], since'[r] = since[r],
         r \in active' <=> r \in active, r \in closed' <=> r \in closed,
         r \in hungUp' <=> r \in hungUp,
         cancelCall'[r] = "none" => cancelCall[r] = "none"
  PROVE  Streamed(r)' /\ Accounted(r)'
<1>1. Streamed(r)'
  BY Zenon DEF Streamed
<1>2. Accounted(r)'
  BY DEF Accounted, IsTerminal
<1> QED BY <1>1, <1>2

\* The step of one entry in push_tokens().
LEMMA PushStep ==
  ASSUME TypeOK, RequestInv, Push
  PROVE  RequestInv'
<1>1. PICK r \in todo : EntryDone(r) \/ PushToken(r) \/ PushRefused(r)
  BY Zenon DEF Push
<1>2. /\ r \in Requests /\ r \in active
      /\ since' \in [Requests -> {"none", "fresh", "old"}]
      /\ \A x \in Requests : x # r =>
           /\ lastSeen'[x] = lastSeen[x] /\ since'[x] = since[x]
           /\ buffer'[x] = buffer[x]
      /\ \/ /\ lastSeen[r] >= emitted[r]
            /\ UNCHANGED <<lastSeen, since, buffer>>
         \/ /\ lastSeen[r] < emitted[r]
            /\ lastSeen'[r] = lastSeen[r] + 1 /\ since'[r] = "none"
            /\ \E reason \in {"none", "stop", "length"} :
                 /\ reason = "none" <=>
                      ~IsTerminal(state[r]) \/ lastSeen[r] + 1 < emitted[r]
                 /\ buffer'[r] = Append(buffer[r],
                                    [token |-> lastSeen[r] + 1, reason |-> reason])
         \/ /\ lastSeen[r] < emitted[r]
            /\ UNCHANGED <<lastSeen, buffer>>
  BY Zenon, <1>1, PushShape
<1>3. /\ state' = state /\ emitted' = emitted /\ active' = active
      /\ closed' = closed /\ hungUp' = hungUp /\ received' = received
      /\ cancelCall' = cancelCall
  BY Zenon DEF Push, sched, clients
<1>4. /\ Streamed(r) /\ Accounted(r) /\ lastSeen[r] \in Nat /\ emitted[r] \in Nat
      /\ received[r] \in Seq(Events) /\ buffer[r] \in Seq(Events)
  BY <1>2 DEF RequestInv, TypeOK
<1>5. ASSUME NEW x \in Requests, x # r
      PROVE  Streamed(x)' /\ Accounted(x)'
  <2>1. Stream(x)' = Stream(x)
    BY Zenon, <1>2, <1>3, <1>5 DEF Stream
  <2> QED BY <2>1, <1>2, <1>3, <1>5, Frame DEF RequestInv
<1>6. CASE lastSeen[r] >= emitted[r] /\ UNCHANGED <<lastSeen, since, buffer>>
  <2>1. Stream(r)' = Stream(r)
    BY Zenon, <1>3, <1>6 DEF Stream
  <2>2. Streamed(r)' /\ Accounted(r)'
    BY <2>1, <1>3, <1>4, <1>6, Frame
  <2> QED BY Zenon, <2>2, <1>5 DEF RequestInv
<1>7. CASE /\ lastSeen[r] < emitted[r] /\ lastSeen'[r] = lastSeen[r] + 1
           /\ since'[r] = "none"
           /\ \E reason \in {"none", "stop", "length"} :
                /\ reason = "none" <=>
                     ~IsTerminal(state[r]) \/ lastSeen[r] + 1 < emitted[r]
                /\ buffer'[r] = Append(buffer[r],
                                   [token |-> lastSeen[r] + 1, reason |-> reason])
  <2>1. PICK reason \in {"none", "stop", "length"} :
          /\ reason = "none" <=>
               ~IsTerminal(state[r]) \/ lastSeen[r] + 1 < emitted[r]
          /\ buffer'[r] = Append(buffer[r],
                             [token |-> lastSeen[r] + 1, reason |-> reason])
    BY Zenon, <1>7
  <2> DEFINE e == [token |-> lastSeen[r] + 1, reason |-> reason]
  <2>2. e \in Events
    BY <1>4 DEF Events
  <2>3. Good(Append(Stream(r), e), lastSeen[r] + 1, emitted[r], state[r])
    <3>1. Good(Stream(r), lastSeen[r], emitted[r], state[r])
      BY Zenon, <1>4 DEF Streamed
    <3>2. lastSeen[r] < emitted[r]
      BY Zenon, <1>7
    <3> QED BY Zenon, <3>1, <3>2, <2>1, <1>4, GoodPush
  <2>4. buffer'[r] = Append(buffer[r], e)
    BY Zenon, <2>1
  <2> HIDE DEF e
  <2>5. Stream(r)' = Append(Stream(r), e)
    <3>1. received[r] \o Append(buffer[r], e) = Append(received[r] \o buffer[r], e)
      <4>1. received[r] \in Seq(Events) /\ buffer[r] \in Seq(Events)
        BY Zenon, <1>4
      <4> QED BY Zenon, <4>1, <2>2, PushExtendsStream
    <3> QED BY Zenon, <3>1, <2>4, <1>3 DEF Stream
  <2>6. Streamed(r)'
    BY Zenon, <2>3, <2>5, <1>3, <1>7 DEF Streamed
  <2>7. Accounted(r)'
    BY <1>2, <1>3, <1>4, <1>7 DEF Accounted, IsTerminal
  <2> QED BY Zenon, <2>6, <2>7, <1>5 DEF RequestInv
<1>8. CASE lastSeen[r] < emitted[r] /\ UNCHANGED <<lastSeen, buffer>>
  <2>1. Stream(r)' = Stream(r)
    BY Zenon, <1>3, <1>8 DEF Stream
  <2>2. Streamed(r)'
    BY Zenon, <2>1, <1>3, <1>4, <1>8 DEF Streamed
  <2>3. state[r] # "Received"
    BY Zenon, <1>2, <1>4 DEF Accounted
  <2>4. Accounted(r)'
    BY <1>2, <1>3, <1>4, <1>8, <2>3 DEF Accounted, IsTerminal
  <2> QED BY Zenon, <2>2, <2>4, <1>5 DEF RequestInv
<1> QED BY Zenon, <1>2, <1>6, <1>7, <1>8

\* Closing a channel and erasing its entry, when the scheduler has heard of it.
LEMMA ForgetStep ==
  ASSUME TypeOK, RequestInv, NEW r \in active, Forget(r),
         Sched!Cancel(r) \/ (UNCHANGED <<state, emitted>> /\ Finished(r)),
         UNCHANGED cancelCall,
         Finished(r) \/ since[r] = "old" \/ cancelCall[r] # "none"
  PROVE  RequestInv'
<1>1. /\ r \in Requests /\ closed' = closed \cup {r} /\ active' = active \ {r}
      /\ UNCHANGED <<lastSeen, since, buffer, hungUp, received>>
  BY Zenon DEF Forget, TypeOK
<1>2. /\ emitted' = emitted
      /\ \A x \in Requests : x # r => state'[x] = state[x]
      /\ \/ state'[r] = state[r] /\ IsTerminal(state[r])
         \/ state[r] \in {"WaitingPrefill", "Decoding"} /\ state'[r] = "Cancelled"
  <2>1. CASE UNCHANGED <<state, emitted>> /\ Finished(r)
    BY <2>1 DEF Finished
  <2>2. CASE Sched!Cancel(r)
    <3>1. Accounted(r)
      BY <1>1 DEF RequestInv
    <3> QED BY <1>1, <2>2, <3>1, CancelShape DEF Accounted, IsTerminal, TerminalStates
  <2> QED BY <2>1, <2>2
<1>3. \A x \in Requests : Stream(x)' = Stream(x)
  BY Zenon, <1>1 DEF Stream
<1>4. ASSUME NEW x \in Requests, x # r
      PROVE  Streamed(x)' /\ Accounted(x)'
  BY <1>1, <1>2, <1>3, <1>4, Frame DEF RequestInv
<1>5. /\ Streamed(r) /\ Accounted(r) /\ lastSeen[r] \in Nat /\ emitted[r] \in Nat
  BY <1>1 DEF RequestInv, TypeOK
<1>6. Streamed(r)'
  <2>1. Good(Stream(r), lastSeen[r], emitted[r], state'[r])
    <3>1. Good(Stream(r), lastSeen[r], emitted[r], state[r])
      BY Zenon, <1>5 DEF Streamed
    <3>2. \/ state'[r] = state[r]
          \/ ~IsTerminal(state[r]) /\ state'[r] # "Completed"
      BY <1>2 DEF IsTerminal, TerminalStates
    <3> QED BY Zenon, <3>1, <3>2, <1>5, GoodMoves
  <2> QED BY Zenon, <2>1, <1>1, <1>2, <1>3 DEF Streamed
<1>7. Accounted(r)'
  <2>1. IsTerminal(state'[r]) /\ state'[r] # "Received"
    BY <1>2 DEF IsTerminal, TerminalStates
  <2>2. state'[r] = "Completed" => state'[r] = state[r]
    BY <1>2
  <2>3. /\ cancelCall'[r] = "none" /\ since'[r] # "old" /\ state'[r] = "Completed"
        => lastSeen[r] >= emitted[r]
    BY <1>1 DEF Finished
  <2> QED BY <2>1, <2>2, <2>3, <1>1, <1>2, <1>5 DEF Accounted, IsTerminal
<1> QED BY Zenon, <1>4, <1>6, <1>7 DEF RequestInv

\* The scheduler's tick: it moves live requests only, and those are active.
LEMMA TickStep ==
  ASSUME TypeOK, RequestInv, Sched!Tick, UNCHANGED <<entries, channels, cancelCall>>
  PROVE  RequestInv'
<1> SUFFICES ASSUME NEW r \in Requests
             PROVE  Streamed(r)' /\ Accounted(r)'
  BY Zenon DEF RequestInv
<1>1. /\ Streamed(r) /\ Accounted(r) /\ lastSeen[r] \in Nat /\ emitted[r] \in Nat
  BY DEF RequestInv, TypeOK
<1>2. /\ Stream(r)' = Stream(r) /\ lastSeen' = lastSeen /\ since' = since
      /\ active' = active /\ closed' = closed /\ hungUp' = hungUp
      /\ cancelCall' = cancelCall
  BY Zenon DEF entries, channels, Stream
<1>3. IF state[r] \in {"WaitingPrefill", "Decoding"}
      THEN \/ /\ emitted'[r] = emitted[r] + 1
              /\ state'[r] \in {"Decoding", "Completed"}
           \/ emitted'[r] = emitted[r] /\ state'[r] = "Failed"
      ELSE emitted'[r] = emitted[r] /\ state'[r] = state[r]
  BY Zenon, TickShape
<1>4. CASE state[r] \in {"WaitingPrefill", "Decoding"}
  <2>1. ~IsTerminal(state[r]) /\ Good(Stream(r), lastSeen[r], emitted[r], state[r])
    BY <1>1, <1>4 DEF Streamed, IsTerminal, TerminalStates
  <2>2. lastSeen[r] <= emitted[r]
    BY <2>1 DEF Good
  <2>3. \/ emitted'[r] = emitted[r] + 1 /\ state'[r] \in {"Decoding", "Completed"}
        \/ emitted'[r] = emitted[r] /\ state'[r] = "Failed"
    BY <1>3, <1>4
  <2>4. Good(Stream(r), lastSeen[r], emitted'[r], state'[r])
    <3>1. "Failed" # "Completed"
      OBVIOUS
    <3> QED BY Zenon, <1>1, <2>1, <2>3, <3>1, GoodMoves
  <2>5. Streamed(r)'
    BY Zenon, <2>4, <1>2 DEF Streamed
  <2>6. r \in active
    BY <1>1, <2>1, <1>4 DEF Accounted
  <2>7. Accounted(r)'
    BY <1>1, <1>2, <1>4, <2>2, <2>3, <2>6 DEF Accounted, IsTerminal
  <2> QED BY <2>5, <2>7
<1>5. CASE ~(state[r] \in {"WaitingPrefill", "Decoding"})
  BY <1>1, <1>2, <1>3, <1>5, Frame
<1> QED BY <1>4, <1>5

\* drain_submissions() hands over requests that no one else has touched.
LEMMA SubmitStep ==
  ASSUME TypeOK, RequestInv, DrainSubmissions
  PROVE  RequestInv'
<1> SUFFICES ASSUME NEW r \in Requests
             PROVE  Streamed(r)' /\ Accounted(r)'
  BY Zenon DEF RequestInv
<1>1. /\ Streamed(r) /\ Accounted(r) /\ lastSeen[r] \in Nat /\ emitted[r] \in Nat
  BY DEF RequestInv, TypeOK
<1>2. /\ Stream(r)' = Stream(r) /\ lastSeen' = lastSeen /\ since' = since
      /\ active' = active \cup Range(subs) /\ closed' = closed /\ hungUp' = hungUp
      /\ cancelCall' = cancelCall /\ emitted' = emitted
  BY Zenon DEF DrainSubmissions, Sched!SubmitAll, channels, clients, Stream
<1>3. /\ r \in Range(subs) => state[r] = "Received"
      /\ state'[r] = IF r \in Range(subs) THEN "WaitingPrefill" ELSE state[r]
  BY Zenon DEF DrainSubmissions, Sched!SubmitAll
<1>4. CASE r \in Range(subs)
  <2>1. state[r] = "Received" /\ state'[r] = "WaitingPrefill"
    BY <1>3, <1>4
  <2>2. ~IsTerminal(state[r]) /\ Good(Stream(r), lastSeen[r], emitted[r], state[r])
    BY <1>1, <2>1 DEF Streamed, IsTerminal, TerminalStates
  <2>3. Good(Stream(r), lastSeen[r], emitted[r], state'[r])
    <3>1. state'[r] # "Completed"
      BY <2>1
    <3> QED BY Zenon, <1>1, <2>2, <3>1, GoodMoves
  <2>4. Streamed(r)'
    BY Zenon, <2>3, <1>2 DEF Streamed
  <2>5. Accounted(r)'
    BY <1>1, <1>2, <1>4, <2>1 DEF Accounted, IsTerminal
  <2> QED BY <2>4, <2>5
<1>5. CASE r \notin Range(subs)
  BY <1>1, <1>2, <1>3, <1>5, Frame
<1> QED BY <1>4, <1>5

\* A step that touches neither the scheduler, active_ nor a channel.
LEMMA QuietStep ==
  ASSUME RequestInv, UNCHANGED <<sched, entries, channels>>,
         \A x \in Requests : cancelCall'[x] = "none" => cancelCall[x] = "none"
  PROVE  RequestInv'
<1> SUFFICES ASSUME NEW r \in Requests
             PROVE  Streamed(r)' /\ Accounted(r)'
  BY Zenon DEF RequestInv
<1>1. /\ Streamed(r) /\ Accounted(r)
      /\ cancelCall'[r] = "none" => cancelCall[r] = "none"
  BY Zenon DEF RequestInv
<1>2. /\ Stream(r)' = Stream(r) /\ state' = state /\ emitted' = emitted
      /\ lastSeen' = lastSeen /\ since' = since
      /\ active' = active /\ closed' = closed /\ hungUp' = hungUp
  BY Zenon DEF sched, entries, channels, Stream
<1> QED BY <1>1, <1>2, Frame

\* Every step keeps what is known of every request.
LEMMA RequestStep ==
  ASSUME TypeOK, LoopInv, CancelInv, RequestInv, Next
  PROVE  RequestInv'
<1>0. \A x \in Requests : cancelCall'[x] = "none" => cancelCall[x] = "none"
  BY Zenon, CancelStep
<1>1. CASE Start \/ Stop \/ StopNotify \/ Join
  <2>1. UNCHANGED <<sched, entries, channels>>
    BY Zenon, <1>1 DEF Start, Stop, StopNotify, Join
  <2> QED BY Zenon, <1>0, <2>1, QuietStep
<1>2. CASE CheckRunning \/ LookForWork \/ Block \/ Timeout
  <2>1. UNCHANGED <<sched, entries, channels>>
    BY Zenon, <1>2 DEF CheckRunning, LookForWork, Block, Timeout
  <2> QED BY Zenon, <1>0, <2>1, QuietStep
<1>3. CASE \/ DrainCancels \/ CancelsDone \/ CollectStuck \/ CollectFinished
           \/ ReapDone
  <2>1. UNCHANGED <<sched, entries, channels>>
    BY Zenon, <1>3 DEF DrainCancels, CancelsDone, CollectStuck, CollectFinished,
                       ReapDone
  <2> QED BY Zenon, <1>0, <2>1, QuietStep
<1>4. CASE DrainSubmissions
  BY Zenon, <1>4, SubmitStep
<1>5. CASE Tick
  <2>1. Sched!Tick /\ UNCHANGED <<entries, channels, cancelCall>>
    BY Zenon, <1>5 DEF Tick, clients
  <2> QED BY Zenon, <2>1, TickStep
<1>6. CASE Push
  BY Zenon, <1>6, PushStep
<1>7. CASE CancelOne
  <2> DEFINE r == Head(batch)
  <2>1. /\ batch # <<>> /\ Sched!Cancel(r) /\ cancelCall' = cancelCall
        /\ IF r \in active THEN Forget(r) ELSE UNCHANGED <<entries, channels>>
    BY Zenon, <1>7 DEF CancelOne, clients
  <2>2. r \in Requests /\ cancelCall[r] # "none"
    <3>1. batch \in Seq(Requests) /\ Len(batch) \in Nat \ {0} /\ r = batch[1]
      BY <2>1, EmptySeq DEF TypeOK
    <3> QED BY <3>1, ElementOfSeq DEF CancelInv
  <2> HIDE DEF r
  <2>3. CASE r \in active
    BY Zenon, <2>1, <2>2, <2>3, ForgetStep
  <2>4. CASE r \notin active
    <3>1. Accounted(r)
      BY <2>2 DEF RequestInv
    <3>2. ~(state[r] \in {"WaitingPrefill", "Decoding"})
      BY <2>4, <3>1 DEF Accounted, IsTerminal, TerminalStates
    <3>3. /\ emitted' = emitted
          /\ \A x \in Requests : state'[x] = state[x]
      BY <2>1, <2>2, <3>2, CancelShape
    <3>4. /\ \A x \in Requests : Stream(x)' = Stream(x)
          /\ lastSeen' = lastSeen /\ since' = since
          /\ active' = active /\ closed' = closed /\ hungUp' = hungUp
      BY Zenon, <2>1, <2>4 DEF entries, channels, Stream
    <3>5. ASSUME NEW x \in Requests PROVE Streamed(x)' /\ Accounted(x)'
      <4>1. Streamed(x) /\ Accounted(x)
        BY Zenon DEF RequestInv
      <4> QED BY <4>1, <1>0, <3>3, <3>4, Frame
    <3> QED BY Zenon, <3>5 DEF RequestInv
  <2> QED BY <2>3, <2>4
<1>8. CASE CancelStuck
  <2>1. PICK r \in todo : Sched!Cancel(r) /\ Forget(r)
    BY Zenon, <1>8 DEF CancelStuck
  <2>2. r \in active /\ since[r] = "old" /\ cancelCall' = cancelCall
    BY <1>8 DEF CancelStuck, LoopInv, TypeOK, clients
  <2> QED BY Zenon, <2>1, <2>2, ForgetStep
<1>9. CASE Reap
  <2>1. PICK r \in todo : Forget(r)
    BY Zenon, <1>9 DEF Reap
  <2>2. r \in active /\ Finished(r) /\ cancelCall' = cancelCall
    BY <1>9 DEF Reap, LoopInv, TypeOK, clients
  <2>3. UNCHANGED <<state, emitted>>
    BY <1>9 DEF Reap, sched
  <2> QED BY Zenon, <2>1, <2>2, <2>3, ForgetStep
<1>10. ASSUME NEW r \in Requests, ClientStep(r)
       PROVE  RequestInv'
  <2>1. UNCHANGED <<sched, entries, channels>>
    BY Zenon, <1>10 DEF ClientStep, SubmitCheck, SubmitPush, SubmitNotify,
                        CancelPush, CancelNotify
  <2> QED BY Zenon, <1>0, <2>1, QuietStep
<1>11. ASSUME NEW r \in Requests, Pop(r)
       PROVE  RequestInv'
  <2>1. /\ state' = state /\ emitted' = emitted /\ lastSeen' = lastSeen
        /\ since' = since /\ active' = active /\ closed' = closed /\ hungUp' = hungUp
    BY Zenon, <1>11 DEF Pop, sched, entries
  <2>2. /\ received[r] \in Seq(Events) /\ buffer[r] \in Seq(Events) /\ buffer[r] # <<>>
    BY <1>11 DEF Pop, TypeOK
  <2>3. Append(received[r], Head(buffer[r])) \o Tail(buffer[r]) = received[r] \o buffer[r]
    BY Zenon, <2>2, PopKeepsStream
  <2>4. /\ received'[r] = Append(received[r], Head(buffer[r]))
        /\ buffer'[r] = Tail(buffer[r])
        /\ \A x \in Requests : x # r => received'[x] = received[x] /\ buffer'[x] = buffer[x]
    BY <1>11 DEF Pop, TypeOK
  <2>5. ASSUME NEW x \in Requests PROVE Stream(x)' = Stream(x)
    BY Zenon, <2>3, <2>4 DEF Stream
  <2>6. ASSUME NEW x \in Requests PROVE Streamed(x)' /\ Accounted(x)'
    <3>1. Streamed(x) /\ Accounted(x)
      BY Zenon DEF RequestInv
    <3> QED BY <3>1, <1>0, <2>1, <2>5, Frame
  <2> QED BY Zenon, <2>6 DEF RequestInv
<1>12. ASSUME NEW r \in Requests, HangUp(r)
       PROVE  RequestInv'
  <2>1. /\ state' = state /\ emitted' = emitted /\ lastSeen' = lastSeen
        /\ since' = since /\ active' = active /\ buffer' = buffer
        /\ received' = received /\ cancelCall' = cancelCall
        /\ closed' = closed \cup {r} /\ hungUp' = hungUp \cup {r}
    BY Zenon, <1>12 DEF HangUp, sched, entries, clients
  <2>2. ASSUME NEW x \in Requests PROVE Streamed(x)' /\ Accounted(x)'
    <3>1. Streamed(x) /\ Accounted(x)
      BY Zenon DEF RequestInv
    <3>2. Streamed(x)'
      BY Zenon, <3>1, <2>1 DEF Streamed, Stream
    <3>3. Accounted(x)'
      BY <3>1, <2>1 DEF Accounted, IsTerminal
    <3> QED BY <3>2, <3>3
  <2> QED BY Zenon, <2>2 DEF RequestInv
<1>13. ASSUME NEW r \in Requests, Age(r)
       PROVE  RequestInv'
  <2>1. /\ r \in active /\ since[r] = "fresh" /\ since'[r] = "old"
        /\ \A x \in Requests : x # r => since'[x] = since[x]
    BY <1>13 DEF Age, TypeOK
  <2>2. /\ state' = state /\ emitted' = emitted /\ lastSeen' = lastSeen
        /\ active' = active /\ closed' = closed /\ hungUp' = hungUp
        /\ cancelCall' = cancelCall /\ buffer' = buffer /\ received' = received
    BY Zenon, <1>13 DEF Age, sched, channels, clients
  <2>3. ASSUME NEW x \in Requests PROVE Streamed(x)' /\ Accounted(x)'
    <3>1. Streamed(x) /\ Accounted(x)
      BY Zenon DEF RequestInv
    <3>2. Streamed(x)'
      BY Zenon, <3>1, <2>2 DEF Streamed, Stream
    <3>3. Accounted(x)'
      BY <3>1, <2>1, <2>2 DEF Accounted, IsTerminal
    <3> QED BY <3>2, <3>3
  <2> QED BY Zenon, <2>3 DEF RequestInv
<1> QED
  BY ZenonT(30), <1>1, <1>2, <1>3, <1>4, <1>5, <1>6, <1>7, <1>8, <1>9, <1>10,
     <1>11, <1>12, <1>13 DEF Next, EngineStep

-----------------------------------------------------------------------------
(* The theorems.                                                           *)

\* Before the first start() nothing is submitted and every channel is empty.
LEMMA InitIInv == Init => IInv
<1> SUFFICES ASSUME Init
             PROVE  IInv
  OBVIOUS
<1> USE EngineAssumption
<1>1. <<>> \in Seq(Requests) /\ <<>> \in Seq(Events) /\ Len(<<>>) = 0
  BY EmptySeq
<1>2. running \in BOOLEAN
  BY Zenon DEF Init
<1>3. /\ owner = "out" /\ starts = 0
      /\ submitCall = [r \in Requests |-> "none"]
      /\ cancelCall = [r \in Requests |-> "none"]
      /\ subs = <<>> /\ cancels = <<>>
      /\ pc = "done" /\ batch = <<>> /\ todo = {} /\ cur = {}
      /\ state = [r \in Requests |-> "Received"]
      /\ emitted = [r \in Requests |-> 0]
      /\ active = {}
      /\ lastSeen = [r \in Requests |-> 0]
      /\ since = [r \in Requests |-> "none"]
      /\ buffer = [r \in Requests |-> <<>>]
      /\ closed = {} /\ hungUp = {}
      /\ received = [r \in Requests |-> <<>>]
  BY Zenon DEF Init, Sched!Init
<1>4. TypeOK
  BY <1>1, <1>2, <1>3 DEF TypeOK, EnginePcs, RequestStates
<1>5. LoopInv /\ CancelInv
  BY <1>1, <1>3 DEF LoopInv, CancelInv
<1>6. ASSUME NEW r \in Requests PROVE Streamed(r) /\ Accounted(r)
  <2>1. Stream(r) = <<>> \o <<>>
    BY <1>3 DEF Stream
  <2>2. <<>> \o <<>> = <<>>
    BY <1>1, ConcatEmptySeq
  <2>3. Good(<<>>, 0, 0, "Received")
    BY GoodEmpty
  <2>4. Streamed(r)
    BY <1>3, <2>1, <2>2, <2>3 DEF Streamed
  <2>5. Accounted(r)
    BY <1>3 DEF Accounted
  <2> QED BY <2>4, <2>5
<1> QED BY <1>4, <1>5, <1>6 DEF IInv, RequestInv

\* Every step keeps the inductive invariant.
LEMMA NextIInv == IInv /\ [Next]_vars => IInv'
<1> SUFFICES ASSUME IInv, [Next]_vars
             PROVE  IInv'
  OBVIOUS
<1>1. CASE Next
  BY Zenon, <1>1, TypeStep, LoopStep, CancelStep, RequestStep DEF IInv
<1>2. CASE UNCHANGED vars
  <2> USE DEF vars, clients, queues, loop, sched, entries, channels
  <2>1. TypeOK'
    BY Zenon, <1>2 DEF IInv, TypeOK
  <2>2. LoopInv' /\ CancelInv'
    BY Zenon, <1>2 DEF IInv, LoopInv, CancelInv, Finished
  <2>3. cancelCall' = cancelCall /\ UNCHANGED <<sched, entries, channels>>
    BY Zenon, <1>2
  <2>4. RequestInv'
    BY Zenon, <2>3, QuietStep DEF IInv
  <2> QED BY <2>1, <2>2, <2>4 DEF IInv
<1> QED BY <1>1, <1>2

\* The inductive invariant holds in every reachable state of the engine.
LEMMA Inductive == Spec => []IInv
BY InitIInv, NextIInv, PTL DEF Spec

\* What the inductive invariant says of one request's stream.
LEMMA StreamFacts ==
  ASSUME IInv, NEW r \in Requests
  PROVE  /\ lastSeen[r] \in Nat /\ emitted[r] \in Nat /\ lastSeen[r] <= emitted[r]
         /\ Len(Stream(r)) = lastSeen[r] /\ DOMAIN Stream(r) = 1 .. lastSeen[r]
         /\ \A i \in 1 .. lastSeen[r] : Stream(r)[i].token = i
         /\ \A i \in 1 .. lastSeen[r] : Stream(r)[i].reason # "none" =>
              i = emitted[r] /\ IsTerminal(state[r])
         /\ state[r] = "Completed" /\ lastSeen[r] = emitted[r] =>
              Stream(r)[Len(Stream(r))].reason # "none"
<1>1. Good(Stream(r), lastSeen[r], emitted[r], state[r])
  BY Zenon DEF IInv, RequestInv, Streamed
<1>2. lastSeen[r] \in Nat /\ emitted[r] \in Nat
  BY DEF IInv, TypeOK
<1> QED BY <1>1, <1>2, LenProperties DEF Good

\* Whatever the capacities, no channel ever holds more events than its
\* capacity, and the entries of the engine thread's loops are those of active_.
THEOREM BoundedChannels == Spec => []TypeOK
<1>1. IInv => TypeOK
  BY DEF IInv
<1> QED BY <1>1, Inductive, PTL

\* Every consumer gets its request's tokens in order and without a gap, for any
\* interleaving of pops, refusals by a full channel, cancels and restarts.
THEOREM TokensInOrder == Spec => []StreamInOrder
<1>1. IInv => StreamInOrder
  BY StreamFacts DEF StreamInOrder
<1> QED BY <1>1, Inductive, PTL

\* A finish reason is on the last token of a terminal request and on no other.
THEOREM ReasonIsLast == Spec => []FinishOnlyLast
<1>1. IInv => FinishOnlyLast
  BY StreamFacts DEF FinishOnlyLast
<1> QED BY <1>1, Inductive, PTL

\* A completed request that was neither cancelled nor cut off by backpressure is
\* reaped with all its tokens and a finish reason in its stream.
THEOREM ReapedInFull == Spec => []CompletedIsDelivered
<1>1. ASSUME IInv, NEW r \in Requests \ active, state[r] = "Completed",
             cancelCall[r] = "none", since[r] # "old"
      PROVE  lastSeen[r] = emitted[r] /\ Stream(r)[Len(Stream(r))].reason # "none"
  <2>1. lastSeen[r] >= emitted[r]
    BY <1>1 DEF IInv, RequestInv, Accounted
  <2>2. lastSeen[r] = emitted[r]
    BY <1>1, <2>1, StreamFacts
  <2> QED BY <1>1, <2>2, StreamFacts
<1>2. IInv => CompletedIsDelivered
  BY Zenon, <1>1 DEF CompletedIsDelivered
<1> QED BY <1>2, Inductive, PTL

\* A request the engine has erased from active_ is over in the scheduler and its
\* channel is closed.
THEOREM ErasedIsOver == Spec => []ForgottenIsOver
<1>1. IInv => ForgottenIsOver
  BY DEF IInv, RequestInv, Accounted, ForgottenIsOver, IsTerminal
<1> QED BY <1>1, Inductive, PTL

\* The engine keeps no entry whose channel it has closed, so it never touches a
\* channel its caller may already have destroyed.
THEOREM ClosedIsErased == Spec => []NoTouchAfterClose
<1>1. IInv => NoTouchAfterClose
  BY DEF IInv, TypeOK, RequestInv, Accounted, NoTouchAfterClose
<1> QED BY <1>1, Inductive, PTL

\* The backpressure timer runs only for an entry that has a token to push: a
\* consumer that keeps up is never cancelled by check_backpressure().
THEOREM TimerMeansBehind == Spec => []TimerOnlyWhenBehind
<1>1. IInv => TimerOnlyWhenBehind
  BY DEF IInv, TypeOK, RequestInv, Accounted, TimerOnlyWhenBehind
<1> QED BY <1>1, Inductive, PTL
=============================================================================
