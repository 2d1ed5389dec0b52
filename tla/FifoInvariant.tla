---------------------------- MODULE FifoInvariant ---------------------------
(***************************************************************************)
(* The inductive invariant of FifoScheduler under the two duties of its    *)
(* callers (ids are unique among live requests, and every request may emit *)
(* at least one token), and that the phases of tick() keep it.             *)
(***************************************************************************)
EXTENDS FifoScheduler, SequenceTheorems, TLAPS

USE SMTT(30)

CallerDuties == ~SharedIds /\ \A r \in Requests : MaxOutput[r] > 0

\* No two queued requests have the same id, so handles_ can tell them apart.
UniqueIds == \A p, q \in Queued : IdOf[p] = IdOf[q] => p = q

\* A request that is not terminal may still emit a token.
OutputLeft ==
  \A r \in Requests : ~IsTerminal(state[r]) => emitted[r] < MaxOutput[r]

\* What the running loop of tick() relies on: the snapshot it walks through is
\* still what is queued, and the outcomes line up with the requests.
LoopInv ==
  /\ pc \in {"idle", "expire"} => pending = <<>>
  /\ pc \in {"prefill", "prefilled"} =>
       /\ pending = waiting
       /\ \A i \in DOMAIN results : results[i] # NoHandle =>
            /\ i \in DOMAIN pending
            /\ results[i] \in DOMAIN minted
            /\ minted[results[i]] = pending[i]
  /\ pc = "prefill" => Len(results) < Len(pending)
  /\ pc = "prefilled" => Len(results) = Len(pending)
  /\ pc = "decode" => /\ waiting = <<>>
                      /\ IsInjective(pending)
                      /\ Range(pending) \subseteq Range(decoding)
                      /\ Len(results) = Len(pending)

IInv ==
  /\ TypeOK /\ NoPanic /\ QueuesMatchState /\ UniqueIds /\ OutputLeft
  /\ HandlesExact /\ LoopInv

-----------------------------------------------------------------------------
(* Sequences with distinct elements: erasing one, taking the head,         *)
(* appending a new one.                                                    *)

\* What remains after the element at position k is erased: the elements before
\* it keep their places and those after it move up by one.
LEMMA RemoveAtFacts ==
  ASSUME NEW S, NEW s \in Seq(S), NEW k \in 1 .. Len(s)
  PROVE  /\ RemoveAt(s, k) \in Seq(S)
         /\ Len(RemoveAt(s, k)) = Len(s) - 1
         /\ \A j \in 1 .. Len(s) - 1 :
              RemoveAt(s, k)[j] = IF j < k THEN s[j] ELSE s[j + 1]
<1> DEFINE p == SubSeq(s, 1, k - 1)
           q == SubSeq(s, k + 1, Len(s))
<1>1. /\ p \in Seq(S) /\ Len(p) = k - 1
      /\ \A i \in 1 .. k - 1 : p[i] = s[i]
  BY SubSeqProperties, LenProperties, ElementOfSeq, Z3
<1>2. /\ q \in Seq(S) /\ Len(q) = Len(s) - k
      /\ \A i \in 1 .. Len(s) - k : q[i] = s[k + i]
  BY SubSeqProperties, LenProperties, ElementOfSeq, Z3
<1>3. /\ p \o q \in Seq(S) /\ Len(p \o q) = Len(p) + Len(q)
      /\ \A i \in 1 .. Len(p) + Len(q) :
           (p \o q)[i] = IF i <= Len(p) THEN p[i] ELSE q[i - Len(p)]
  BY ZenonT(30), <1>1, <1>2, ConcatProperties
<1>4. RemoveAt(s, k) = p \o q
  BY DEF RemoveAt
<1>5. Len(s) \in Nat
  BY LenProperties
<1> DEFINE t == RemoveAt(s, k)
<1>6. /\ t \in Seq(S) /\ Len(t) = Len(p) + Len(q)
      /\ \A i \in 1 .. Len(p) + Len(q) :
           t[i] = IF i <= Len(p) THEN p[i] ELSE q[i - Len(p)]
  BY ZenonT(30), <1>3, <1>4
<1> HIDE DEF p, q, t
<1>7. Len(t) = Len(s) - 1
  BY <1>1, <1>2, <1>5, <1>6
<1>8. ASSUME NEW j \in 1 .. Len(s) - 1
      PROVE  t[j] = IF j < k THEN s[j] ELSE s[j + 1]
  <2>1. CASE j < k
    BY <2>1, <1>1, <1>2, <1>5, <1>6
  <2>2. CASE ~(j < k)
    <3> DEFINE i == j - (k - 1)
    <3>1. i \in 1 .. Len(s) - k /\ k + i = j + 1
      BY <2>2, <1>5
    <3>2. j \in 1 .. Len(p) + Len(q) /\ ~(j <= Len(p)) /\ j - Len(p) = i
      BY <2>2, <1>1, <1>2, <1>5
    <3>3. t[j] = q[i]
      BY <3>2, <1>6
    <3>4. q[i] = s[k + i]
      BY <3>1, <1>2
    <3> QED BY <3>1, <3>3, <3>4, <2>2
  <2> QED BY <2>1, <2>2
<1> QED
  BY <1>6, <1>7, <1>8 DEF t

\* In a sequence whose elements are distinct, erasing at k drops s[k] only,
\* keeps the elements distinct, and keeps the order of the others.
LEMMA RemoveAtInjective ==
  ASSUME NEW S, NEW s \in Seq(S), NEW k \in 1 .. Len(s), IsInjective(s)
  PROVE  /\ IsInjective(RemoveAt(s, k))
         /\ Range(RemoveAt(s, k)) = Range(s) \ {s[k]}
         /\ \A i, j \in DOMAIN RemoveAt(s, k) : i < j =>
              \E m, n \in DOMAIN s : /\ m < n /\ s[m] = RemoveAt(s, k)[i]
                                     /\ s[n] = RemoveAt(s, k)[j]
<1> DEFINE t == RemoveAt(s, k)
<1>1. /\ t \in Seq(S) /\ Len(t) = Len(s) - 1
      /\ \A j \in 1 .. Len(s) - 1 : t[j] = IF j < k THEN s[j] ELSE s[j + 1]
  BY ZenonT(30), RemoveAtFacts
<1>2. /\ Len(s) \in Nat /\ DOMAIN s = 1 .. Len(s)
      /\ DOMAIN t = 1 .. Len(s) - 1
  BY <1>1, LenProperties
<1> HIDE DEF t
<1>3. IsInjective(t)
  <2> SUFFICES ASSUME NEW i \in DOMAIN t, NEW j \in DOMAIN t, t[i] = t[j]
               PROVE  i = j
    BY DEF IsInjective
  <2> DEFINE f(x) == IF x < k THEN x ELSE x + 1
  <2>1. f(i) \in DOMAIN s /\ f(j) \in DOMAIN s /\ s[f(i)] = t[i] /\ s[f(j)] = t[j]
    BY <1>1, <1>2
  <2>2. f(i) = f(j)
    BY <2>1 DEF IsInjective
  <2> QED BY <2>2, <1>2
<1>4. Range(t) = Range(s) \ {s[k]}
  <2>1. ASSUME NEW x \in Range(t) PROVE x \in Range(s) \ {s[k]}
    <3>1. PICK j \in DOMAIN t : x = t[j]
      BY DEF Range
    <3>2. CASE j < k
      BY <3>1, <3>2, <1>1, <1>2 DEF Range, IsInjective
    <3>3. CASE ~(j < k)
      <4>1. j + 1 \in DOMAIN s /\ j + 1 # k /\ x = s[j + 1]
        BY <3>1, <3>3, <1>1, <1>2
      <4> QED BY <4>1, <1>2 DEF Range, IsInjective
    <3> QED BY <3>2, <3>3
  <2>2. ASSUME NEW x \in Range(s) \ {s[k]} PROVE x \in Range(t)
    <3>1. PICK j \in DOMAIN s : x = s[j] /\ j # k
      BY DEF Range
    <3>2. CASE j < k
      BY <3>1, <3>2, <1>1, <1>2 DEF Range
    <3>3. CASE j > k
      <4>1. j - 1 \in DOMAIN t /\ t[j - 1] = s[j]
        BY <3>1, <3>3, <1>1, <1>2
      <4> QED BY <4>1, <3>1 DEF Range
    <3> QED BY <3>1, <3>2, <3>3, <1>2
  <2> QED BY <2>1, <2>2
<1>5. ASSUME NEW i \in DOMAIN t, NEW j \in DOMAIN t, i < j
      PROVE  \E m, n \in DOMAIN s : m < n /\ s[m] = t[i] /\ s[n] = t[j]
  <2> DEFINE m == IF i < k THEN i ELSE i + 1
             n == IF j < k THEN j ELSE j + 1
  <2>1. m \in DOMAIN s /\ n \in DOMAIN s /\ m < n /\ s[m] = t[i] /\ s[n] = t[j]
    BY <1>1, <1>2, <1>5
  <2> QED BY <2>1
<1> QED
  BY <1>3, <1>4, <1>5 DEF t

\* Erasing a request from a queue, as retire() does, when the queue holds no
\* request twice: the one position that holds it goes.
LEMMA RemoveFirstIsRemoveAt ==
  ASSUME NEW S, NEW s \in Seq(S), IsInjective(s), NEW e
  PROVE  /\ e \notin Range(s) => RemoveFirst(s, e) = s
         /\ \A k \in 1 .. Len(s) : s[k] = e => RemoveFirst(s, e) = RemoveAt(s, k)
<1>0. Len(s) \in Nat /\ DOMAIN s = 1 .. Len(s)
  BY LenProperties
<1>1. e \notin Range(s) => RemoveFirst(s, e) = s
  BY <1>0 DEF RemoveFirst, EraseFirst, Range
<1>2. ASSUME NEW k \in 1 .. Len(s), s[k] = e
      PROVE  RemoveFirst(s, e) = RemoveAt(s, k)
  <2>1. {i \in 1 .. Len(s) : s[i] = e} = {k}
    BY <1>0, <1>2 DEF IsInjective
  <2>2. Min({k}) = k
    BY <1>0 DEF Min
  <2> QED BY ZenonT(30), <2>1, <2>2 DEF RemoveFirst, EraseFirst
<1> QED BY <1>1, <1>2

\* RemoveFirst on distinct elements: std::erase() and the search loops of
\* retire() drop the request and nothing else, and reorder nothing.
LEMMA RemoveFirstFacts ==
  ASSUME NEW S, NEW s \in Seq(S), IsInjective(s), NEW e
  PROVE  /\ RemoveFirst(s, e) \in Seq(S)
         /\ IsInjective(RemoveFirst(s, e))
         /\ Range(RemoveFirst(s, e)) = Range(s) \ {e}
         /\ Len(RemoveFirst(s, e)) = IF e \in Range(s) THEN Len(s) - 1 ELSE Len(s)
         /\ \A i, j \in DOMAIN RemoveFirst(s, e) : i < j =>
              \E m, n \in DOMAIN s : /\ m < n /\ s[m] = RemoveFirst(s, e)[i]
                                     /\ s[n] = RemoveFirst(s, e)[j]
<1>0. Len(s) \in Nat /\ DOMAIN s = 1 .. Len(s)
  BY LenProperties
<1>1. CASE e \notin Range(s)
  BY <1>1, RemoveFirstIsRemoveAt
<1>2. CASE e \in Range(s)
  <2>1. PICK k \in 1 .. Len(s) : s[k] = e
    BY <1>0, <1>2 DEF Range
  <2>2. RemoveFirst(s, e) = RemoveAt(s, k)
    BY <2>1, RemoveFirstIsRemoveAt
  <2> QED BY <2>1, <2>2, <1>2, RemoveAtFacts, RemoveAtInjective
<1> QED BY <1>1, <1>2

\* The head and the rest of a sequence of distinct elements.
LEMMA TailFacts ==
  ASSUME NEW S, NEW s \in Seq(S), s # <<>>, IsInjective(s)
  PROVE  /\ Head(s) \in S /\ Head(s) \in Range(s) /\ Head(s) = s[1]
         /\ Tail(s) \in Seq(S) /\ IsInjective(Tail(s))
         /\ Len(Tail(s)) = Len(s) - 1
         /\ Range(Tail(s)) = Range(s) \ {Head(s)}
         /\ RemoveFirst(s, Head(s)) = Tail(s)
<1>0. Len(s) \in Nat \ {0} /\ DOMAIN s = 1 .. Len(s)
  BY LenProperties, EmptySeq
<1>1. /\ Head(s) = s[1] /\ 1 \in DOMAIN s
      /\ Head(s) \in S /\ Tail(s) \in Seq(S) /\ Len(Tail(s)) = Len(s) - 1
      /\ \A i \in 1 .. Len(Tail(s)) : Tail(s)[i] = s[i + 1]
  BY <1>0, HeadTailProperties
<1> DEFINE t == Tail(s)
           u == RemoveAt(s, 1)
<1>2. /\ u \in Seq(S) /\ Len(u) = Len(s) - 1
      /\ \A j \in 1 .. Len(s) - 1 : u[j] = IF j < 1 THEN s[j] ELSE s[j + 1]
  <2>1. 1 \in 1 .. Len(s)
    BY <1>0
  <2> QED BY <2>1, RemoveAtFacts, Zenon
<1>3. \A j \in 1 .. Len(s) - 1 : u[j] = t[j]
  BY <1>0, <1>1, <1>2
<1> HIDE DEF t, u
<1>4. u = t
  BY <1>0, <1>1, <1>2, <1>3, SeqEqual DEF t
<1>5. RemoveFirst(s, Head(s)) = u
  BY <1>0, <1>1, RemoveFirstIsRemoveAt DEF u
<1>6. IsInjective(u) /\ Range(u) = Range(s) \ {s[1]}
  BY <1>0, RemoveAtInjective DEF u
<1> QED
  BY <1>0, <1>1, <1>4, <1>5, <1>6 DEF t, Range

\* Appending adds one element at the end.
LEMMA AppendFacts ==
  ASSUME NEW S, NEW s \in Seq(S), NEW e \in S
  PROVE  /\ Append(s, e) \in Seq(S) /\ Len(Append(s, e)) = Len(s) + 1
         /\ DOMAIN Append(s, e) = 1 .. Len(s) + 1
         /\ \A i \in 1 .. Len(s) : Append(s, e)[i] = s[i]
         /\ Append(s, e)[Len(s) + 1] = e
         /\ Range(Append(s, e)) = Range(s) \cup {e}
         /\ e \notin Range(s) /\ IsInjective(s) => IsInjective(Append(s, e))
<1> DEFINE t == Append(s, e)
<1>1. /\ t \in Seq(S) /\ Len(t) = Len(s) + 1
      /\ \A i \in 1 .. Len(s) : t[i] = s[i]
      /\ t[Len(s) + 1] = e
  BY AppendProperties
<1>2. /\ Len(s) \in Nat /\ DOMAIN s = 1 .. Len(s)
      /\ DOMAIN t = 1 .. Len(s) + 1
  BY <1>1, LenProperties
<1> HIDE DEF t
<1>3. Range(t) = Range(s) \cup {e}
  <2>1. ASSUME NEW x \in Range(t) PROVE x \in Range(s) \cup {e}
    <3>1. PICK i \in DOMAIN t : x = t[i]
      BY DEF Range
    <3>2. i = Len(s) + 1 \/ i \in 1 .. Len(s)
      BY <1>2
    <3> QED BY <3>1, <3>2, <1>1, <1>2 DEF Range
  <2>2. ASSUME NEW x \in Range(s) \cup {e} PROVE x \in Range(t)
    <3>1. CASE x = e
      <4>1. Len(s) + 1 \in DOMAIN t
        BY <1>2
      <4> QED BY <3>1, <4>1, <1>1 DEF Range
    <3>2. CASE x \in Range(s)
      <4>1. PICK i \in DOMAIN s : x = s[i]
        BY <3>2 DEF Range
      <4>2. i \in DOMAIN t /\ t[i] = x
        BY <4>1, <1>1, <1>2
      <4> QED BY <4>2 DEF Range
    <3> QED BY <3>1, <3>2
  <2> QED BY <2>1, <2>2
<1>4. ASSUME e \notin Range(s), IsInjective(s) PROVE IsInjective(t)
  <2> SUFFICES ASSUME NEW i \in DOMAIN t, NEW j \in DOMAIN t, t[i] = t[j]
               PROVE  i = j
    BY DEF IsInjective
  <2>1. \A x \in DOMAIN t : x = Len(s) + 1 \/ x \in DOMAIN s
    BY <1>2
  <2>2. \A x \in DOMAIN s : s[x] # e
    BY <1>4 DEF Range
  <2> QED BY <2>1, <2>2, <1>1, <1>2, <1>4 DEF IsInjective
<1> QED BY <1>1, <1>2, <1>3, <1>4 DEF t

-----------------------------------------------------------------------------
(* The lifecycle paths the scheduler takes.                                *)

\* Every chain of transition_to() calls in fifo_scheduler.cpp follows legal
\* edges when it starts where the scheduler expects.
LEMMA LegalPaths ==
  /\ LegalPath(<<"Received", "Admitted", "WaitingPrefill">>)
  /\ LegalPath(<<"WaitingPrefill", "Prefilling", "WaitingDecode", "Decoding">>)
  /\ LegalPath(<<"WaitingPrefill", "Prefilling", "Failed">>)
  /\ LegalPath(<<"WaitingPrefill", "Cancelled">>)
  /\ LegalPath(<<"Decoding", "Cancelled">>)
  /\ LegalPath(<<"Decoding", "Failed">>)
  /\ LegalPath(<<"Decoding", "Completed">>)
BY DEF LegalPath, IsValidTransition

\* Erasing by an id that at most one request of the queue carries is erasing
\* that request.
LEMMA WithoutIdFacts ==
  ASSUME NEW S, NEW s \in Seq(S), NEW id
  PROVE  /\ (\A x \in Range(s) : IdOf[x] # id) =>
              WithoutId(s, id) = s
         /\ \A e \in Range(s) :
              IsInjective(s) /\ (\A x \in Range(s) : IdOf[x] = id <=> x = e) =>
                WithoutId(s, id) = RemoveFirst(s, e)
<1>0. Len(s) \in Nat /\ DOMAIN s = 1 .. Len(s)
  BY LenProperties
<1>1. (\A x \in Range(s) : IdOf[x] # id) =>
         WithoutId(s, id) = s
  BY <1>0 DEF WithoutId, EraseFirst, Range
<1>2. ASSUME NEW e \in Range(s), IsInjective(s),
             \A x \in Range(s) : IdOf[x] = id <=> x = e
      PROVE  WithoutId(s, id) = RemoveFirst(s, e)
  <2>1. PICK k \in 1 .. Len(s) : s[k] = e
    BY <1>0 DEF Range
  <2>2. {i \in 1 .. Len(s) : IdOf[s[i]] = id} = {k}
    BY <1>0, <1>2, <2>1 DEF IsInjective, Range
  <2>3. Min({k}) = k
    BY <1>0 DEF Min
  <2>4. WithoutId(s, id) = RemoveAt(s, k)
    BY ZenonT(30), <2>2, <2>3 DEF WithoutId, EraseFirst
  <2> QED BY <2>1, <2>4, <1>2, RemoveFirstIsRemoveAt
<1> QED BY <1>1, <1>2

\* Counting keeps the report a record of natural numbers.
LEMMA CountType ==
  /\ DOMAIN EmptyReport =
       {"expired_count", "prefill_attempted", "prefill_succeeded",
        "prefill_failed", "decode_attempted", "decode_completed", "decode_failed"}
  /\ \A f \in DOMAIN EmptyReport :
       report \in [DOMAIN EmptyReport -> Nat] /\ Count(f) =>
         report' \in [DOMAIN EmptyReport -> Nat]
<1>1. \A D : \A f \in D : report \in [D -> Nat] /\ Count(f) => report' \in [D -> Nat]
  BY DEF Count
<1>2. DOMAIN EmptyReport =
       {"expired_count", "prefill_attempted", "prefill_succeeded",
        "prefill_failed", "decode_attempted", "decode_completed", "decode_failed"}
  BY DEF EmptyReport
<1> QED BY <1>1, <1>2

\* A queued request is known and in the state its queue stands for.
LEMMA QueuedState ==
  ASSUME TypeOK, QueuesMatchState
  PROVE  /\ Queued \subseteq Requests
         /\ \A r \in Range(waiting) : state[r] = "WaitingPrefill"
         /\ \A r \in Range(decoding) : state[r] = "Decoding"
         /\ Range(waiting) \cap Range(decoding) = {}
         /\ \A r \in Queued : ~IsTerminal(state[r])
<1>1. Queued \subseteq Requests
  BY LenProperties DEF TypeOK, Queued, Range
<1>2. /\ \A r \in Range(waiting) : state[r] = "WaitingPrefill"
      /\ \A r \in Range(decoding) : state[r] = "Decoding"
  BY <1>1 DEF QueuesMatchState, Queued
<1> QED
  BY <1>1, <1>2 DEF Queued, IsTerminal, TerminalStates

-----------------------------------------------------------------------------
(* Retirement.                                                             *)

\* The handle stored under a queued request's id belongs to it: there is one
\* exactly when the request is decoding, and the backend knows it.
LEMMA HandleOfQueued ==
  ASSUME IInv, NEW r \in Queued
  PROVE  /\ HandlesOf(r) = IF r \in Range(decoding) THEN {handles[IdOf[r]]} ELSE {}
         /\ CanRelease(r)
         /\ r \in Range(decoding) => handles[IdOf[r]] # NoHandle
<1>1. r \in Requests /\ IdOf[r] \in Ids
  BY QueuedState, ConstantsAssumption DEF IInv
<1>2. CASE r \in Range(decoding)
  <2>1. handles[IdOf[r]] \in DOMAIN minted /\ DOMAIN minted = 1 .. Len(minted)
    BY <1>2, LenProperties DEF IInv, TypeOK, HandlesExact
  <2>2. handles[IdOf[r]] # NoHandle
    BY <2>1 DEF NoHandle
  <2>3. handles[IdOf[r]] \in sequences
    BY <1>2 DEF IInv, HandlesExact
  <2> QED BY <1>2, <2>2, <2>3 DEF HandlesOf, CanRelease
<1>3. CASE r \notin Range(decoding)
  <2>1. handles[IdOf[r]] = NoHandle
    BY <1>1, <1>3 DEF IInv, HandlesExact, UniqueIds, Queued
  <2> QED BY <1>3, <2>1 DEF HandlesOf, CanRelease
<1> QED BY <1>2, <1>3

\* What retire() does to the scheduler's tables when the request is queued.
LEMMA RetireFacts ==
  ASSUME IInv, NEW r \in Queued, NEW to \in TerminalStates, Retire(r, to)
  PROVE  /\ waiting' \in Seq(Requests) /\ decoding' \in Seq(Requests)
         /\ state' \in [Requests -> RequestStates]
         /\ handles' \in [Ids -> Nat] /\ sequences' \subseteq Nat
         /\ QueuesMatchState' /\ UniqueIds'
         /\ Range(waiting') = Range(waiting) \ {r}
         /\ Range(decoding') = Range(decoding) \ {r}
         /\ \A q \in Requests : state'[q] = IF q = r THEN to ELSE state[q]
<1>1. r \in Requests /\ IdOf[r] \in Ids /\ to \in RequestStates
  BY QueuedState, ConstantsAssumption DEF IInv, TerminalStates, RequestStates
<1>2. /\ waiting' \in Seq(Requests) /\ IsInjective(waiting')
      /\ Range(waiting') = Range(waiting) \ {r}
  BY RemoveFirstFacts DEF Retire, IInv, TypeOK, QueuesMatchState
<1>3. /\ decoding' \in Seq(Requests) /\ IsInjective(decoding')
      /\ Range(decoding') = Range(decoding) \ {r}
  BY RemoveFirstFacts DEF Retire, IInv, TypeOK, QueuesMatchState
<1>4. /\ state' \in [Requests -> RequestStates]
      /\ \A q \in Requests : state'[q] = IF q = r THEN to ELSE state[q]
  BY <1>1 DEF Retire, IInv, TypeOK
<1>5. handles' \in [Ids -> Nat] /\ sequences' \subseteq Nat
  BY ZenonT(30), <1>1 DEF Retire, IInv, TypeOK, NoHandle
<1>6. QueuesMatchState'
  BY <1>2, <1>3, <1>4 DEF QueuesMatchState, IInv, TerminalStates
<1>7. UniqueIds'
  BY <1>2, <1>3 DEF UniqueIds, Queued, IInv
<1> QED BY <1>2, <1>3, <1>4, <1>5, <1>6, <1>7

\* retire() keeps the handle table exact: it frees the request's own handle
\* and no other, whatever the loop still holds in flight.
LEMMA RetireKeepsHandles ==
  ASSUME IInv, NEW r \in Queued, NEW to \in TerminalStates, Retire(r, to),
         minted' = minted, InFlight' = InFlight
  PROVE  HandlesExact'
<1>1. r \in Requests /\ IdOf[r] \in Ids /\ Queued \subseteq Requests
  BY QueuedState, ConstantsAssumption DEF IInv
<1>2. /\ Range(waiting') = Range(waiting) \ {r}
      /\ Range(decoding') = Range(decoding) \ {r}
  BY RetireFacts
<1>3. /\ handles' = [handles EXCEPT ![IdOf[r]] = NoHandle]
      /\ sequences' = sequences \ HandlesOf(r)
      /\ handles \in [Ids -> Nat]
  BY DEF Retire, IInv, TypeOK
<1>4. \A q \in Range(decoding') : q \in Range(decoding) /\ q # r
                                  /\ handles'[IdOf[q]] = handles[IdOf[q]]
  BY <1>1, <1>2, <1>3, ConstantsAssumption DEF IInv, UniqueIds, Queued
<1>5. \A q \in Range(decoding') : /\ handles'[IdOf[q]] \in DOMAIN minted'
                                  /\ minted'[handles'[IdOf[q]]] = q
  BY <1>4 DEF IInv, HandlesExact
<1>6. ASSUME NEW id \in Ids, handles'[id] # NoHandle
      PROVE  \E q \in Range(decoding') : IdOf[q] = id
  <2>1. id # IdOf[r] /\ handles'[id] = handles[id]
    BY <1>1, <1>3, <1>6
  <2> QED BY <1>2, <1>6, <2>1 DEF IInv, HandlesExact
<1> DEFINE H == {handles[IdOf[q]] : q \in Range(decoding)}
           H1 == {handles'[IdOf[q]] : q \in Range(decoding')}
<1>7. H1 = H \ HandlesOf(r)
  <2>1. CASE r \in Range(decoding)
    <3>1. HandlesOf(r) = {handles[IdOf[r]]}
      BY <2>1, HandleOfQueued
    <3>2. \A q \in Range(decoding) \ {r} : handles[IdOf[q]] # handles[IdOf[r]]
      BY <2>1 DEF IInv, HandlesExact
    <3> QED BY <1>2, <1>4, <3>1, <3>2
  <2>2. CASE r \notin Range(decoding)
    BY <2>2, <1>2, <1>4, HandleOfQueued
  <2> QED BY <2>1, <2>2
<1>8. HandlesOf(r) \cap InFlight = {}
  <2>1. CASE r \in Range(decoding)
    <3>1. HandlesOf(r) = {handles[IdOf[r]]} /\ minted[handles[IdOf[r]]] = r
      BY <2>1, HandleOfQueued DEF IInv, HandlesExact
    <3>2. \A h \in InFlight : minted[h] \in Range(waiting)
      BY DEF InFlight, IInv, LoopInv, Range
    <3> QED BY <2>1, <3>1, <3>2, QueuedState DEF IInv
  <2>2. CASE r \notin Range(decoding)
    BY <2>2, HandleOfQueued
  <2> QED BY <2>1, <2>2
<1>9. sequences' = H1 \cup InFlight'
  <2>1. sequences = H \cup InFlight
    BY DEF IInv, HandlesExact
  <2> QED BY <1>3, <1>7, <1>8, <2>1
<1> QED BY <1>5, <1>6, <1>9 DEF HandlesExact

\* The steps of tick() that retire request r and change no other request.
LEMMA RetireStepInv ==
  ASSUME IInv, NEW r \in Queued, NEW to \in TerminalStates, Retire(r, to),
         UNCHANGED <<requests, overdue, minted, expired, late>>,
         emitted' \in [Requests -> Nat],
         \A q \in Requests : q # r => emitted'[q] = emitted[q],
         InFlight' = InFlight
  PROVE  /\ QueuesMatchState' /\ UniqueIds' /\ OutputLeft' /\ HandlesExact'
         /\ requests' \in Seq(Requests) /\ minted' \in Seq(Requests)
         /\ waiting' \in Seq(Requests) /\ decoding' \in Seq(Requests)
         /\ state' \in [Requests -> RequestStates]
         /\ emitted' \in [Requests -> Nat]
         /\ handles' \in [Ids -> Nat] /\ sequences' \subseteq Nat
         /\ overdue' \subseteq Requests /\ expired' \subseteq Requests
         /\ late' \subseteq Requests
         /\ Range(waiting') = Range(waiting) \ {r}
         /\ Range(decoding') = Range(decoding) \ {r}
<1>1. /\ waiting' \in Seq(Requests) /\ decoding' \in Seq(Requests)
      /\ state' \in [Requests -> RequestStates]
      /\ handles' \in [Ids -> Nat] /\ sequences' \subseteq Nat
      /\ QueuesMatchState' /\ UniqueIds'
      /\ Range(waiting') = Range(waiting) \ {r}
      /\ Range(decoding') = Range(decoding) \ {r}
      /\ \A q \in Requests : state'[q] = IF q = r THEN to ELSE state[q]
  BY RetireFacts
<1>2. OutputLeft'
  BY <1>1 DEF IInv, OutputLeft, IsTerminal
<1>3. HandlesExact'
  BY RetireKeepsHandles
<1> QED
  BY <1>1, <1>2, <1>3 DEF IInv, TypeOK

-----------------------------------------------------------------------------
(* prefill_phase() keeps the invariant.                                    *)

\* The snapshot prefill_phase() takes of waiting_ starts its loop invariant.
LEMMA BeginPrefillInv ==
  ASSUME IInv, BeginPrefill
  PROVE  IInv'
<1>1. /\ pc = "expire" /\ pending' = waiting /\ results' = <<>>
      /\ pc' = IF waiting = <<>> THEN "prefilled" ELSE "prefill"
      /\ UNCHANGED <<requests, state, emitted, overdue, waiting, decoding,
                     handles, sequences, minted, expired, late>>
      /\ report' = [report EXCEPT !.prefill_attempted = Len(waiting)]
  BY DEF BeginPrefill
<1>2. Len(waiting) \in Nat /\ (waiting # <<>> => Len(waiting) > 0)
      /\ (waiting = <<>> => Len(waiting) = 0)
  BY LenProperties, EmptySeq DEF IInv, TypeOK
<1>3. TypeOK'
  <2>1. report' \in [DOMAIN EmptyReport -> Nat]
    BY ZenonT(30), <1>1, <1>2 DEF IInv, TypeOK
  <2>2. results' \in Seq(Nat) /\ pc' \in PcValues /\ pc' # "decode"
    BY <1>1, EmptySeq DEF PcValues
  <2> QED BY ZenonT(30), <1>1, <2>1, <2>2 DEF IInv, TypeOK
<1>4. InFlight' = InFlight
  BY <1>1 DEF InFlight, Range
<1>5. HandlesExact'
  BY <1>1, <1>4 DEF IInv, HandlesExact
<1>6. LoopInv'
  BY <1>1, <1>2 DEF LoopInv
<1> QED
  BY <1>1, <1>3, <1>5, <1>6 DEF IInv, NoPanic, QueuesMatchState, UniqueIds,
     Queued, OutputLeft

\* Each handle that MockBackend::prefill() makes is new, and lines up with the
\* request it was made for.
LEMMA BackendPrefillInv ==
  ASSUME IInv, NEW ok \in BOOLEAN, BackendPrefill(ok)
  PROVE  IInv'
<1> DEFINE n == Len(results) + 1
           h == Len(minted) + 1
<1>1. /\ pc = "prefill" /\ Len(results) < Len(pending)
      /\ pc' = IF Len(results') = Len(pending) THEN "prefilled" ELSE "prefill"
      /\ UNCHANGED <<requests, state, emitted, overdue, waiting, decoding,
                     handles, expired, late, pending, report>>
  BY DEF BackendPrefill
<1>2. /\ results \in Seq(Nat) /\ Len(results) \in Nat
      /\ DOMAIN results = 1 .. Len(results)
      /\ pending = waiting /\ pending \in Seq(Requests) /\ Len(pending) \in Nat
      /\ DOMAIN pending = 1 .. Len(pending)
      /\ minted \in Seq(Requests) /\ Len(minted) \in Nat
      /\ DOMAIN minted = 1 .. Len(minted)
  BY <1>1, LenProperties DEF IInv, TypeOK, LoopInv
<1>3. n \in DOMAIN pending /\ pending[n] \in Requests
  BY <1>1, <1>2, ElementOfSeq
<1>4. \A id \in Ids : handles[id] # h
  <2>1. ASSUME NEW id \in Ids, handles[id] # NoHandle
        PROVE  handles[id] \in DOMAIN minted
    BY <2>1 DEF IInv, HandlesExact
  <2> QED BY <2>1, <1>2 DEF NoHandle
<1> DEFINE Facts ==
      /\ results' \in Seq(Nat) /\ Len(results') = Len(results) + 1
      /\ minted' \in Seq(Requests) /\ sequences' \subseteq Nat
      /\ \A x \in DOMAIN minted : x \in DOMAIN minted' /\ minted'[x] = minted[x]
      /\ \A i \in DOMAIN results' : results'[i] # NoHandle =>
           /\ i \in DOMAIN pending
           /\ results'[i] \in DOMAIN minted'
           /\ minted'[results'[i]] = pending[i]
      /\ sequences' = sequences \cup (Range(results') \ {NoHandle})
      /\ Range(results) \subseteq Range(results')
<1>5. ASSUME ok PROVE Facts
  <2>1. /\ minted' = Append(minted, pending[n]) /\ results' = Append(results, h)
        /\ sequences' = sequences \cup {h}
    BY <1>5 DEF BackendPrefill
  <2>2. /\ results' \in Seq(Nat) /\ Len(results') = Len(results) + 1
        /\ DOMAIN results' = 1 .. n
        /\ \A i \in 1 .. Len(results) : results'[i] = results[i]
        /\ results'[n] = h /\ Range(results') = Range(results) \cup {h}
    BY <1>2, <2>1, AppendFacts
  <2>3. /\ minted' \in Seq(Requests) /\ DOMAIN minted' = 1 .. h
        /\ \A i \in 1 .. Len(minted) : minted'[i] = minted[i]
        /\ minted'[h] = pending[n]
    BY <1>2, <1>3, <2>1, AppendFacts
  <2>4. \A x \in DOMAIN minted : x \in DOMAIN minted' /\ minted'[x] = minted[x]
    BY <1>2, <2>3
  <2>5. ASSUME NEW i \in DOMAIN results', results'[i] # NoHandle
        PROVE  /\ i \in DOMAIN pending
               /\ results'[i] \in DOMAIN minted'
               /\ minted'[results'[i]] = pending[i]
    <3>1. CASE i = n
      <4>1. h \in DOMAIN minted'
        BY <1>2, <2>3
      <4> QED BY <3>1, <4>1, <1>3, <2>2, <2>3
    <3>2. CASE i # n
      <4>1. i \in DOMAIN results /\ results'[i] = results[i]
        BY <3>2, <1>2, <2>2
      <4> QED BY <4>1, <2>4, <2>5, <1>1 DEF IInv, LoopInv
    <3> QED BY <3>1, <3>2
  <2>6. sequences' = sequences \cup (Range(results') \ {NoHandle})
    <3>1. Range(results) \ {NoHandle} \subseteq sequences
      BY <1>1 DEF IInv, HandlesExact, InFlight
    <3>2. h # NoHandle
      BY <1>2 DEF NoHandle
    <3> QED BY <2>1, <2>2, <3>1, <3>2
  <2>7. sequences' \subseteq Nat
    <3>1. sequences \subseteq Nat /\ h \in Nat
      BY <1>2 DEF IInv, TypeOK
    <3> QED BY ZenonT(30), <2>1, <3>1
  <2> QED BY <2>2, <2>3, <2>4, <2>5, <2>6, <2>7
<1>6. ASSUME ~ok PROVE Facts
  <2>1. /\ UNCHANGED <<minted, sequences>> /\ results' = Append(results, NoHandle)
    BY <1>6 DEF BackendPrefill
  <2>2. /\ results' \in Seq(Nat) /\ Len(results') = Len(results) + 1
        /\ DOMAIN results' = 1 .. n
        /\ \A i \in 1 .. Len(results) : results'[i] = results[i]
        /\ results'[n] = NoHandle /\ Range(results') = Range(results) \cup {NoHandle}
    BY <1>2, <2>1, AppendFacts DEF NoHandle
  <2>3. ASSUME NEW i \in DOMAIN results', results'[i] # NoHandle
        PROVE  /\ i \in DOMAIN pending
               /\ results'[i] \in DOMAIN minted'
               /\ minted'[results'[i]] = pending[i]
    <3>1. i \in DOMAIN results /\ results'[i] = results[i]
      BY <1>2, <2>2, <2>3
    <3> QED BY <3>1, <2>1, <2>3, <1>1 DEF IInv, LoopInv
  <2>4. sequences' = sequences \cup (Range(results') \ {NoHandle})
    BY <1>1, <2>1, <2>2 DEF IInv, HandlesExact, InFlight
  <2> QED BY ZenonT(30), <2>1, <2>2, <2>3, <2>4 DEF IInv, TypeOK
<1>7. Facts
  BY <1>5, <1>6
<1> HIDE DEF Facts, n, h
<1>8. pc' \in {"prefill", "prefilled"}
  BY <1>1
<1>9. TypeOK'
  BY <1>1, <1>7, <1>8 DEF IInv, TypeOK, PcValues, Facts
<1>10. HandlesExact'
  <2>1. \A r \in Range(decoding') : /\ handles'[IdOf[r]] \in DOMAIN minted'
                                    /\ minted'[handles'[IdOf[r]]] = r
    BY <1>1, <1>7 DEF IInv, HandlesExact, Facts
  <2>2. \A id \in Ids : handles'[id] # NoHandle =>
          \E r \in Range(decoding') : IdOf[r] = id
    BY <1>1 DEF IInv, HandlesExact
  <2>3. InFlight' = Range(results') \ {NoHandle}
    BY <1>8 DEF InFlight
  <2>4. sequences = {handles[IdOf[r]] : r \in Range(decoding)}
                      \cup (Range(results) \ {NoHandle})
    BY <1>1 DEF IInv, HandlesExact, InFlight
  <2>5. sequences' = {handles'[IdOf[r]] : r \in Range(decoding')} \cup InFlight'
    BY <1>1, <1>7, <2>3, <2>4 DEF Facts
  <2> QED BY <2>1, <2>2, <2>5 DEF HandlesExact
<1>11. LoopInv'
  <2>1. pending' = waiting'
    BY <1>1, <1>2
  <2>2. pc' = "prefill" => Len(results') < Len(pending')
    <3>1. Len(results') = Len(results) + 1
      BY <1>7 DEF Facts
    <3>2. pending' = pending
      BY <1>1
    <3>3. pc' = "prefill" => Len(results') # Len(pending)
      BY <1>1
    <3>4. Len(results) \in Nat /\ Len(pending) \in Nat /\ Len(results) < Len(pending)
      BY <1>1, <1>2
    <3> QED BY <3>1, <3>2, <3>3, <3>4
  <2>3. pc' = "prefilled" => Len(results') = Len(pending')
    BY <1>1
  <2> QED BY <1>1, <1>7, <1>8, <2>1, <2>2, <2>3 DEF LoopInv, Facts
<1> QED
  BY <1>1, <1>8, <1>9, <1>10, <1>11 DEF IInv, NoPanic, QueuesMatchState,
     UniqueIds, Queued, OutputLeft

\* The outcome loops drop the first outcome together with the first request.
LEMMA OutcomeLoop ==
  ASSUME IInv, pc = "prefilled", pending # <<>>
  PROVE  /\ Head(pending) = Head(waiting) /\ Tail(pending) = Tail(waiting)
         /\ waiting # <<>> /\ Head(pending) \in Range(waiting)
         /\ RemoveFirst(waiting, Head(pending)) = Tail(waiting)
         /\ Head(results) = results[1] /\ 1 \in DOMAIN results
         /\ Head(results) \in Nat /\ Tail(results) \in Seq(Nat)
         /\ Len(Tail(results)) = Len(Tail(pending))
         /\ \A i \in DOMAIN Tail(results) :
              /\ i + 1 \in DOMAIN results /\ Tail(results)[i] = results[i + 1]
              /\ i \in DOMAIN Tail(pending) /\ Tail(pending)[i] = pending[i + 1]
         /\ Range(results) = Range(Tail(results)) \cup {Head(results)}
<1>1. /\ pending = waiting /\ waiting \in Seq(Requests) /\ IsInjective(waiting)
      /\ results \in Seq(Nat) /\ Len(results) = Len(pending)
  BY DEF IInv, TypeOK, LoopInv, QueuesMatchState
<1>2. results # <<>> /\ Len(pending) \in Nat \ {0}
  BY <1>1, EmptySeq, LenProperties
<1>3. /\ Head(waiting) \in Range(waiting)
      /\ RemoveFirst(waiting, Head(waiting)) = Tail(waiting)
      /\ Tail(waiting) \in Seq(Requests) /\ Len(Tail(waiting)) = Len(waiting) - 1
      /\ \A i \in 1 .. Len(Tail(waiting)) : Tail(waiting)[i] = waiting[i + 1]
  BY <1>1, TailFacts, HeadTailProperties
<1>4. /\ Head(results) \in Nat /\ Tail(results) \in Seq(Nat)
      /\ Len(Tail(results)) = Len(results) - 1
      /\ \A i \in 1 .. Len(Tail(results)) : Tail(results)[i] = results[i + 1]
      /\ Head(results) = results[1]
  BY <1>1, <1>2, HeadTailProperties
<1>5. /\ DOMAIN results = 1 .. Len(results)
      /\ DOMAIN Tail(results) = 1 .. Len(results) - 1
      /\ DOMAIN Tail(waiting) = 1 .. Len(results) - 1
      /\ Len(results) \in Nat \ {0}
  BY <1>1, <1>2, <1>3, <1>4, LenProperties
<1> DEFINE t == Tail(results)
<1> HIDE DEF t
<1>6. \A i \in DOMAIN t : i + 1 \in DOMAIN results /\ t[i] = results[i + 1]
  BY <1>4, <1>5 DEF t
<1>7. Range(results) = Range(t) \cup {results[1]}
  <2>1. Range(t) \subseteq Range(results) /\ results[1] \in Range(results)
    BY <1>5, <1>6 DEF Range
  <2>2. ASSUME NEW x \in Range(results) PROVE x \in Range(t) \cup {results[1]}
    <3>1. PICK i \in DOMAIN results : x = results[i]
      BY DEF Range
    <3>2. CASE i = 1
      BY <3>1, <3>2
    <3>3. CASE i # 1
      <4>1. i - 1 \in DOMAIN t /\ (i - 1) + 1 = i
        BY <3>3, <1>5 DEF t
      <4>2. t[i - 1] = x
        BY <3>1, <4>1, <1>6
      <4> QED BY <4>1, <4>2 DEF Range
    <3> QED BY <3>2, <3>3
  <2> QED BY <2>1, <2>2
<1> QED
  BY <1>1, <1>2, <1>3, <1>4, <1>5, <1>6, <1>7 DEF t

\* A failed outcome of prefill_phase() retires the head of waiting_, which has
\* no handle, and keeps the invariant.
LEMMA PrefillFailedInv ==
  ASSUME IInv, PrefillFailed
  PROVE  IInv' /\ \E r \in Queued : r \in Range(waiting) /\ Retire(r, "Failed")
<1> DEFINE r == Head(pending)
<1>1. /\ pc = "prefilled" /\ pending # <<>> /\ Head(results) = NoHandle
      /\ Retire(r, "Failed") /\ "Failed" \in TerminalStates
      /\ pending' = Tail(pending) /\ results' = Tail(results)
      /\ UNCHANGED <<requests, emitted, overdue, minted, expired, late>>
  BY DEF PrefillFailed, TerminalStates
<1>2. /\ r \in Range(waiting) /\ r \in Queued /\ waiting' = Tail(waiting)
      /\ pending' = waiting'
  BY <1>1, OutcomeLoop DEF Queued, Retire
<1>3. pc' = "prefilled"
  <2>1. LegalPath(<<state[r], "Prefilling", "Failed">>)
    BY <1>2, LegalPaths, QueuedState DEF IInv
  <2>2. CanRelease(r)
    BY <1>2, HandleOfQueued
  <2> QED BY <2>1, <2>2 DEF PrefillFailed, Proceed
<1>4. InFlight' = InFlight
  BY <1>1, <1>3, OutcomeLoop DEF InFlight
<1>5. emitted' \in [Requests -> Nat] /\ emitted' = emitted
  BY <1>1 DEF IInv, TypeOK
<1>6. /\ QueuesMatchState' /\ UniqueIds' /\ OutputLeft' /\ HandlesExact'
      /\ requests' \in Seq(Requests) /\ minted' \in Seq(Requests)
      /\ waiting' \in Seq(Requests) /\ decoding' \in Seq(Requests)
      /\ state' \in [Requests -> RequestStates]
      /\ handles' \in [Ids -> Nat] /\ sequences' \subseteq Nat
      /\ overdue' \subseteq Requests /\ expired' \subseteq Requests
      /\ late' \subseteq Requests
  BY <1>1, <1>2, <1>4, <1>5, RetireStepInv
<1>7. TypeOK'
  <2>1. report' \in [DOMAIN EmptyReport -> Nat]
    BY CountType DEF PrefillFailed, IInv, TypeOK
  <2>2. pending' \in Seq(Requests) /\ results' \in Seq(Nat)
    BY ZenonT(30), <1>1, <1>2, <1>6, OutcomeLoop
  <2> QED BY <1>3, <1>5, <1>6, <2>1, <2>2 DEF TypeOK, PcValues
<1>8. LoopInv'
  <2>1. \A i \in DOMAIN results' : results'[i] # NoHandle =>
          /\ i \in DOMAIN pending' /\ results'[i] \in DOMAIN minted'
          /\ minted'[results'[i]] = pending'[i]
    BY <1>1, OutcomeLoop DEF IInv, LoopInv
  <2>2. Len(results') = Len(pending')
    BY <1>1, OutcomeLoop
  <2> QED BY <1>2, <1>3, <2>1, <2>2 DEF LoopInv
<1> QED
  BY <1>1, <1>2, <1>3, <1>6, <1>7, <1>8 DEF IInv, NoPanic

\* A successful outcome of prefill_phase() stores the handle under an id that
\* has none, moves the head of waiting_ to decoding_ and keeps the invariant.
LEMMA PrefillSucceededInv ==
  ASSUME IInv, PrefillSucceeded
  PROVE  IInv'
<1> DEFINE r == Head(pending)
           h == Head(results)
<1>1. /\ pc = "prefilled" /\ pending # <<>> /\ h # NoHandle
      /\ handles' = [handles EXCEPT ![IdOf[r]] = IF @ = NoHandle THEN h ELSE @]
      /\ state' = [state EXCEPT ![r] = "Decoding"]
      /\ decoding' = Append(decoding, r)
      /\ pending' = Tail(pending) /\ results' = Tail(results)
      /\ UNCHANGED <<requests, emitted, overdue, sequences, minted, expired, late>>
  BY DEF PrefillSucceeded
<1>2. /\ r \in Range(waiting) /\ r \in Queued /\ waiting # <<>>
      /\ waiting' = Tail(waiting) /\ pending' = waiting' /\ r = Head(waiting)
  BY <1>1, OutcomeLoop DEF Queued, PrefillSucceeded
<1>3. /\ r \in Requests /\ IdOf[r] \in Ids /\ r \notin Range(decoding)
      /\ state[r] = "WaitingPrefill" /\ Queued \subseteq Requests
  BY <1>2, QueuedState, ConstantsAssumption DEF IInv
<1>4. pc' = "prefilled"
  BY <1>3, LegalPaths DEF PrefillSucceeded, Proceed
<1>5. handles' = [handles EXCEPT ![IdOf[r]] = h]
  <2>1. handles[IdOf[r]] = NoHandle
    BY <1>2, <1>3 DEF IInv, HandlesExact, UniqueIds, Queued
  <2> QED BY <1>1, <2>1
<1>6. /\ waiting' \in Seq(Requests) /\ IsInjective(waiting')
      /\ Range(waiting') = Range(waiting) \ {r}
  BY <1>2, TailFacts DEF IInv, TypeOK, QueuesMatchState
<1>7. /\ decoding' \in Seq(Requests) /\ IsInjective(decoding')
      /\ Range(decoding') = Range(decoding) \cup {r}
  BY <1>1, <1>3, AppendFacts DEF IInv, TypeOK, QueuesMatchState
<1>8. /\ 1 \in DOMAIN results /\ h = results[1] /\ h \in Nat
      /\ h \in DOMAIN minted /\ minted[h] = r
      /\ results' \in Seq(Nat) /\ Len(results') = Len(pending')
  <2>1. /\ 1 \in DOMAIN results /\ h = results[1] /\ h \in Nat
        /\ results' \in Seq(Nat) /\ Len(results') = Len(pending')
    BY <1>1, OutcomeLoop
  <2>2. h \in DOMAIN minted /\ minted[h] = pending[1]
    BY <1>1, <2>1 DEF IInv, LoopInv
  <2>3. pending[1] = r
    BY <1>1, HeadTailProperties DEF IInv, TypeOK
  <2> QED BY <2>1, <2>2, <2>3
<1> HIDE DEF r, h
<1>9. state' \in [Requests -> RequestStates]
  BY <1>1, <1>3 DEF IInv, TypeOK, RequestStates
<1>10. TypeOK'
  <2>1. report' \in [DOMAIN EmptyReport -> Nat]
    BY CountType DEF PrefillSucceeded, IInv, TypeOK
  <2>2. handles' \in [Ids -> Nat]
    BY ZenonT(30), <1>5, <1>8 DEF IInv, TypeOK
  <2> QED BY ZenonT(30), <1>1, <1>2, <1>4, <1>6, <1>7, <1>8, <1>9, <2>1, <2>2
          DEF IInv, TypeOK, PcValues
<1>11. QueuesMatchState'
  BY <1>1, <1>3, <1>6, <1>7 DEF IInv, TypeOK, QueuesMatchState
<1>12. UniqueIds'
  BY <1>2, <1>6, <1>7 DEF IInv, UniqueIds, Queued
<1>13. OutputLeft'
  BY <1>1, <1>3 DEF IInv, TypeOK, OutputLeft, IsTerminal, TerminalStates
<1>14. HandlesExact'
  <2>1. \A q \in Range(decoding) : IdOf[q] \in Ids /\ IdOf[q] # IdOf[r]
    BY <1>2, <1>3, ConstantsAssumption DEF IInv, UniqueIds, Queued
  <2>2. /\ handles'[IdOf[r]] = h
        /\ \A q \in Range(decoding) : handles'[IdOf[q]] = handles[IdOf[q]]
    BY <1>3, <1>5, <2>1 DEF IInv, TypeOK
  <2>3. \A q \in Range(decoding') : /\ handles'[IdOf[q]] \in DOMAIN minted'
                                    /\ minted'[handles'[IdOf[q]]] = q
    BY <1>1, <1>7, <1>8, <2>2 DEF IInv, HandlesExact
  <2>4. ASSUME NEW id \in Ids, handles'[id] # NoHandle
        PROVE  \E q \in Range(decoding') : IdOf[q] = id
    <3>1. CASE id = IdOf[r]
      BY <3>1, <1>7
    <3>2. CASE id # IdOf[r]
      <4>1. handles'[id] = handles[id]
        BY <3>2, <1>5 DEF IInv, TypeOK
      <4> QED BY <4>1, <2>4, <1>7 DEF IInv, HandlesExact
    <3> QED BY <3>1, <3>2
  <2>5. h \notin Range(results')
    <3> SUFFICES ASSUME NEW i \in DOMAIN results', results'[i] = h
                 PROVE  FALSE
      BY DEF Range
    <3>1. /\ i + 1 \in DOMAIN results /\ results[i + 1] = h
          /\ i \in DOMAIN Tail(pending) /\ Tail(pending)[i] = pending[i + 1]
      BY <1>1, OutcomeLoop
    <3>2. minted[h] = pending[i + 1]
      BY <3>1, <1>1 DEF IInv, LoopInv
    <3>3. r \in Range(waiting')
      BY <3>1, <3>2, <1>1, <1>2, <1>8 DEF Range
    <3> QED BY <3>3, <1>6
  <2>6. InFlight = InFlight' \cup {h}
    BY <1>1, <1>4, OutcomeLoop DEF InFlight, h
  <2>7. sequences' = {handles'[IdOf[q]] : q \in Range(decoding')} \cup InFlight'
    <3>1. sequences' = {handles[IdOf[q]] : q \in Range(decoding)} \cup InFlight
      BY <1>1 DEF IInv, HandlesExact
    <3>2. {handles'[IdOf[q]] : q \in Range(decoding')}
            = {handles[IdOf[q]] : q \in Range(decoding)} \cup {h}
      BY <1>7, <2>2
    <3> QED BY ZenonT(30), <2>6, <3>1, <3>2
  <2> QED BY <2>3, <2>4, <2>7 DEF HandlesExact
<1>15. LoopInv'
  <2>1. \A i \in DOMAIN results' : results'[i] # NoHandle =>
          /\ i \in DOMAIN pending' /\ results'[i] \in DOMAIN minted'
          /\ minted'[results'[i]] = pending'[i]
    BY <1>1, OutcomeLoop DEF IInv, LoopInv
  <2> QED BY <1>2, <1>4, <1>8, <2>1 DEF LoopInv
<1> QED
  BY <1>4, <1>10, <1>11, <1>12, <1>13, <1>14, <1>15 DEF IInv, NoPanic

-----------------------------------------------------------------------------
(* decode_phase() and the end of a tick keep IInv.                         *)

\* Every request in decoding_ has a live handle when decode_phase() builds its
\* batch: handles_.at() does not throw and decode() does not panic.
LEMMA BackendDecodeInv ==
  ASSUME IInv, BackendDecode
  PROVE  IInv'
<1>1. /\ pc = "prefilled" /\ pending = <<>> /\ pending' = decoding
      /\ results' \in [1 .. Len(decoding) -> DecodeOutcomes]
      /\ report' = [report EXCEPT !.decode_attempted = Len(decoding)]
      /\ UNCHANGED <<requests, state, emitted, overdue, waiting, decoding,
                     handles, sequences, minted, expired, late>>
  BY DEF BackendDecode
<1>2. /\ decoding \in Seq(Requests) /\ Len(decoding) \in Nat
      /\ DOMAIN decoding = 1 .. Len(decoding)
  BY LenProperties DEF IInv, TypeOK
<1>3. pc' = "decode"
  <2>1. \A i \in DOMAIN decoding : /\ handles[IdOf[decoding[i]]] # NoHandle
                                   /\ handles[IdOf[decoding[i]]] \in sequences
    <3>1. \A q \in Range(decoding) : /\ handles[IdOf[q]] # NoHandle
                                     /\ handles[IdOf[q]] \in sequences
      BY HandleOfQueued DEF IInv, HandlesExact, Queued
    <3> QED BY <3>1 DEF Range
  <2> QED BY <2>1 DEF BackendDecode, Proceed
<1>4. results' \in Seq(DecodeOutcomes) /\ Len(results') = Len(decoding)
  BY <1>1, <1>2, SeqDef
<1>5. TypeOK'
  <2>1. report' \in [DOMAIN EmptyReport -> Nat]
    BY ZenonT(30), <1>1, <1>2 DEF IInv, TypeOK
  <2> QED BY ZenonT(30), <1>1, <1>3, <1>4, <2>1 DEF IInv, TypeOK, PcValues
<1>6. InFlight' = InFlight
  <2>1. results = <<>>
    <3>1. Len(results) = Len(pending) /\ results \in Seq(Nat)
      BY <1>1 DEF IInv, LoopInv, TypeOK
    <3>2. Len(pending) = 0
      BY <1>1
    <3> QED BY <3>1, <3>2, EmptySeq
  <2> QED BY <1>1, <1>3, <2>1 DEF InFlight, Range
<1>7. HandlesExact'
  BY <1>1, <1>6 DEF IInv, HandlesExact
<1>8. LoopInv'
  BY <1>1, <1>3, <1>4 DEF IInv, LoopInv, QueuesMatchState
<1> QED
  BY <1>1, <1>3, <1>5, <1>7, <1>8 DEF IInv, NoPanic, QueuesMatchState,
     UniqueIds, Queued, OutputLeft

\* The decode loop: the request at hand is decoding, and dropping it from
\* pending and, if retired, from decoding_ keeps pending inside decoding_.
LEMMA DecodeLoop ==
  ASSUME IInv, pc = "decode", pending # <<>>
  PROVE  /\ Head(pending) \in Range(decoding) /\ Head(pending) \in Queued
         /\ Head(pending) \in Requests
         /\ Tail(pending) \in Seq(Requests) /\ IsInjective(Tail(pending))
         /\ Range(Tail(pending)) \subseteq Range(decoding) \ {Head(pending)}
         /\ Tail(results) \in Seq(DecodeOutcomes)
         /\ Len(Tail(results)) = Len(Tail(pending))
         /\ RemoveFirst(waiting, Head(pending)) = <<>>
<1>1. /\ pending \in Seq(Requests) /\ IsInjective(pending)
      /\ Range(pending) \subseteq Range(decoding) /\ waiting = <<>>
      /\ results \in Seq(DecodeOutcomes) /\ Len(results) = Len(pending)
  BY DEF IInv, TypeOK, LoopInv
<1>2. /\ Head(pending) \in Range(pending) /\ Head(pending) \in Requests
      /\ Tail(pending) \in Seq(Requests) /\ IsInjective(Tail(pending))
      /\ Len(Tail(pending)) = Len(pending) - 1
      /\ Range(Tail(pending)) = Range(pending) \ {Head(pending)}
  BY <1>1, TailFacts
<1>3. results # <<>>
  BY <1>1, EmptySeq, LenProperties
<1>4. Tail(results) \in Seq(DecodeOutcomes) /\ Len(Tail(results)) = Len(results) - 1
  BY <1>1, <1>3, HeadTailProperties
<1>5. RemoveFirst(waiting, Head(pending)) = <<>>
  <2>1. Head(pending) \notin Range(waiting) /\ waiting \in Seq(Requests)
    BY <1>1 DEF Range, IInv, TypeOK
  <2> QED BY ZenonT(30), <1>1, <2>1, RemoveFirstIsRemoveAt DEF IInv, QueuesMatchState
<1> QED
  BY <1>1, <1>2, <1>4, <1>5 DEF Queued

\* Retiring the request at hand in the decode loop.
LEMMA DecodeRetireInv ==
  ASSUME IInv, pc = "decode", pending # <<>>, pc' = "decode",
         NEW to \in {"Completed", "Failed"}, Retire(Head(pending), to),
         NEW f \in {"decode_completed", "decode_failed"}, Count(f),
         pending' = Tail(pending), results' = Tail(results),
         UNCHANGED <<requests, overdue, minted, expired, late>>,
         emitted' \in [Requests -> Nat],
         \A q \in Requests : q # Head(pending) => emitted'[q] = emitted[q]
  PROVE  IInv'
<1> DEFINE r == Head(pending)
<1>1. r \in Queued /\ r \in Range(decoding) /\ to \in TerminalStates
  BY DecodeLoop DEF TerminalStates
<1>2. InFlight' = InFlight
  BY DEF InFlight
<1>3. /\ QueuesMatchState' /\ UniqueIds' /\ OutputLeft' /\ HandlesExact'
      /\ requests' \in Seq(Requests) /\ minted' \in Seq(Requests)
      /\ waiting' \in Seq(Requests) /\ decoding' \in Seq(Requests)
      /\ state' \in [Requests -> RequestStates]
      /\ handles' \in [Ids -> Nat] /\ sequences' \subseteq Nat
      /\ overdue' \subseteq Requests /\ expired' \subseteq Requests
      /\ late' \subseteq Requests
      /\ Range(decoding') = Range(decoding) \ {r}
  BY <1>1, <1>2, RetireStepInv
<1>4. /\ pending' \in Seq(Requests) /\ IsInjective(pending')
      /\ Range(pending') \subseteq Range(decoding')
      /\ results' \in Seq(DecodeOutcomes) /\ Len(results') = Len(pending')
      /\ waiting' = <<>>
  BY <1>3, DecodeLoop DEF Retire
<1>5. TypeOK'
  <2>1. report' \in [DOMAIN EmptyReport -> Nat]
    BY ZenonT(30), CountType DEF IInv, TypeOK
  <2> QED BY <1>3, <1>4, <2>1 DEF TypeOK, PcValues
<1>6. LoopInv'
  BY <1>4 DEF LoopInv
<1> QED
  BY <1>3, <1>5, <1>6 DEF IInv, NoPanic

\* A token in decode_phase() is emitted within the limit, and the last one
\* retires its request; both keep the invariant.
LEMMA DecodeTokenInv ==
  ASSUME IInv, DecodeToken
  PROVE  IInv'
<1> DEFINE r == Head(pending)
           done == IsLast(r, Head(results))
<1>1. /\ pc = "decode" /\ pending # <<>>
      /\ emitted' = [emitted EXCEPT ![r] = @ + 1]
      /\ pending' = Tail(pending) /\ results' = Tail(results)
      /\ UNCHANGED <<requests, overdue, minted, expired, late>>
  BY DEF DecodeToken
<1>2. /\ r \in Range(decoding) /\ r \in Queued /\ r \in Requests
      /\ state[r] = "Decoding"
  BY <1>1, DecodeLoop, QueuedState DEF IInv
<1>3. /\ emitted[r] < MaxOutput[r] /\ emitted[r] \in Nat /\ MaxOutput[r] \in Nat
      /\ emitted' \in [Requests -> Nat] /\ emitted'[r] = emitted[r] + 1
      /\ \A q \in Requests : q # r => emitted'[q] = emitted[q]
  <2>1. emitted \in [Requests -> Nat]
    BY DEF IInv, TypeOK
  <2>2. emitted[r] < MaxOutput[r]
    BY <1>2 DEF IInv, OutputLeft, IsTerminal, TerminalStates
  <2> QED BY <1>1, <1>2, <2>1, <2>2, ConstantsAssumption
<1>4. pc' = "decode"
  <2>1. CanEmit(r) /\ LegalPath(<<state[r], "Completed">>) /\ CanRelease(r)
    BY <1>2, <1>3, HandleOfQueued, LegalPaths DEF CanEmit
  <2> QED BY <2>1 DEF DecodeToken, Proceed
<1>5. CASE done
  <2>1. Retire(r, "Completed") /\ Count("decode_completed")
    BY <1>5 DEF DecodeToken
  <2> QED BY <1>1, <1>3, <1>4, <2>1, DecodeRetireInv
<1>6. CASE ~done
  <2>1. UNCHANGED <<state, waiting, decoding, handles, sequences, report>>
    BY <1>6 DEF DecodeToken
  <2>2. /\ pending' \in Seq(Requests) /\ IsInjective(pending')
        /\ Range(pending') \subseteq Range(decoding)
        /\ results' \in Seq(DecodeOutcomes) /\ Len(results') = Len(pending')
    BY <1>1, DecodeLoop
  <2>3. TypeOK'
    BY <1>1, <1>3, <1>4, <2>1, <2>2 DEF IInv, TypeOK
  <2>4. OutputLeft'
    <3>1. emitted'[r] < MaxOutput[r]
      BY <1>3, <1>6 DEF IsLast
    <3> QED BY <1>3, <2>1, <3>1 DEF IInv, OutputLeft
  <2>5. HandlesExact'
    BY <1>1, <1>4, <2>1 DEF IInv, HandlesExact, InFlight
  <2>6. LoopInv'
    BY <1>1, <1>4, <2>1, <2>2 DEF IInv, LoopInv
  <2> QED BY <1>4, <2>1, <2>3, <2>4, <2>5, <2>6
          DEF IInv, NoPanic, QueuesMatchState, UniqueIds, Queued
<1> QED BY <1>5, <1>6

\* A failed outcome of decode_phase() retires its request and keeps the
\* invariant.
LEMMA DecodeFailedInv ==
  ASSUME IInv, DecodeFailed
  PROVE  IInv'
<1> DEFINE r == Head(pending)
<1>1. /\ pc = "decode" /\ pending # <<>> /\ Retire(r, "Failed")
      /\ Count("decode_failed")
      /\ pending' = Tail(pending) /\ results' = Tail(results)
      /\ UNCHANGED <<requests, emitted, overdue, minted, expired, late>>
  BY DEF DecodeFailed
<1>2. r \in Queued /\ state[r] = "Decoding"
  BY <1>1, DecodeLoop, QueuedState DEF IInv
<1>3. pc' = "decode"
  BY <1>2, HandleOfQueued, LegalPaths DEF DecodeFailed, Proceed
<1>4. emitted' \in [Requests -> Nat] /\ emitted' = emitted
  BY <1>1 DEF IInv, TypeOK
<1> QED BY <1>1, <1>3, <1>4, DecodeRetireInv

\* The end of tick() keeps the invariant.
LEMMA EndTickInv ==
  ASSUME IInv, EndTick
  PROVE  IInv'
<1>1. /\ pc = "decode" /\ pending = <<>> /\ pc' = "idle"
      /\ expired' = {} /\ late' = {}
      /\ UNCHANGED <<requests, state, emitted, overdue, waiting, decoding,
                     handles, sequences, minted, pending, results, report>>
  BY DEF EndTick
<1>2. TypeOK'
  BY <1>1 DEF IInv, TypeOK, PcValues
<1>3. HandlesExact'
  BY <1>1 DEF IInv, HandlesExact, InFlight
<1> QED
  BY <1>1, <1>2, <1>3 DEF IInv, NoPanic, QueuesMatchState, UniqueIds, Queued,
     OutputLeft, LoopInv
=============================================================================
