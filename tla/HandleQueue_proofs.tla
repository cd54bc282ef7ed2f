-------------------------- MODULE HandleQueue_proofs --------------------------
(* Safety of HandleQueue, and that it implements HandleChannel. *)
EXTENDS HandleQueue, SequenceTheorems, TLAPS

-----------------------------------------------------------------------------
(* Lists without duplicates *)

LEMMA SeqRange ==
    ASSUME NEW S, NEW s \in Seq(S)
    PROVE  /\ Range(s) = {s[k] : k \in 1..Len(s)}
           /\ Range(s) \subseteq S
           /\ s = <<>> <=> Range(s) = {}
<1>1. Len(s) \in Nat /\ DOMAIN s = 1..Len(s) /\ \A k \in 1..Len(s) : s[k] \in S
  BY LenProperties, ElementOfSeq
<1>2. s = <<>> <=> Len(s) = 0
  BY EmptySeq
<1>3. Range(s) = {s[k] : k \in 1..Len(s)} /\ Range(s) \subseteq S
  BY <1>1 DEF Range
<1>4. Len(s) = 0 <=> Range(s) = {}
  <2>1. Len(s) # 0 => 1 \in 1..Len(s)
    BY <1>1
  <2>2. Len(s) = 0 => 1..Len(s) = {}
    BY <1>1
  <2>. QED BY <1>1, <2>1, <2>2 DEF Range
<1>. QED BY <1>2, <1>3, <1>4

LEMMA EmptyList == Range(<<>>) = {} /\ IsInjective(<<>>)
BY DEF Range, IsInjective

LEMMA AppendList ==
    ASSUME NEW S, NEW s \in Seq(S), NEW e \in S
    PROVE  /\ Append(s, e) \in Seq(S)
           /\ Range(Append(s, e)) = Range(s) \cup {e}
           /\ IsInjective(s) /\ e \notin Range(s) => IsInjective(Append(s, e))
<1>. DEFINE t == Append(s, e)
<1>1. /\ t \in Seq(S) /\ Len(t) = Len(s) + 1
      /\ \A k \in 1..Len(s) : t[k] = s[k]
      /\ t[Len(s) + 1] = e
  BY AppendProperties
<1>2. /\ Len(s) \in Nat /\ DOMAIN s = 1..Len(s)
      /\ DOMAIN t = 1..(Len(s) + 1)
  BY <1>1, LenProperties
<1>3. \A k \in DOMAIN t : k \in 1..Len(s) \/ k = Len(s) + 1
  BY <1>2
<1>4. Range(t) = Range(s) \cup {e}
  <2>1. Range(t) \subseteq Range(s) \cup {e}
    BY <1>1, <1>2, <1>3 DEF Range
  <2>2. Range(s) \cup {e} \subseteq Range(t)
    <3>1. \A k \in 1..Len(s) : k \in DOMAIN t
      BY <1>2
    <3>2. Len(s) + 1 \in DOMAIN t
      BY <1>2
    <3>. QED BY <1>1, <1>2, <3>1, <3>2 DEF Range
  <2>. QED BY <2>1, <2>2
<1>5. ASSUME IsInjective(s), e \notin Range(s) PROVE IsInjective(t)
  <2>. SUFFICES ASSUME NEW a \in DOMAIN t, NEW b \in DOMAIN t, t[a] = t[b]
                PROVE  a = b
    BY DEF IsInjective
  <2>1. \A k \in 1..Len(s) : t[k] # e
    BY <1>1, <1>2, <1>5 DEF Range
  <2>2. CASE a \in 1..Len(s) /\ b \in 1..Len(s)
    BY <1>1, <1>2, <1>5, <2>2 DEF IsInjective
  <2>3. CASE a = Len(s) + 1 \/ b = Len(s) + 1
    BY <1>1, <1>3, <2>1, <2>3
  <2>. QED BY <1>3, <2>2, <2>3
<1>. QED BY <1>1, <1>4, <1>5

LEMMA TailList ==
    ASSUME NEW S, NEW s \in Seq(S), s # <<>>, IsInjective(s)
    PROVE  /\ Head(s) \in Range(s) /\ Head(s) \in S
           /\ Tail(s) \in Seq(S)
           /\ Range(Tail(s)) = Range(s) \ {Head(s)}
           /\ IsInjective(Tail(s))
<1>1. /\ Len(s) \in Nat /\ Len(s) > 0 /\ DOMAIN s = 1..Len(s)
      /\ Head(s) = s[1]
  BY LenProperties, EmptySeq
<1>2. /\ Head(s) \in S /\ Tail(s) \in Seq(S)
      /\ Len(Tail(s)) = Len(s) - 1
      /\ \A k \in 1..Len(Tail(s)) : Tail(s)[k] = s[k + 1]
  BY HeadTailProperties
<1>3. DOMAIN Tail(s) = 1..(Len(s) - 1)
  BY <1>2, LenProperties
<1>4. \A k \in 1..(Len(s) - 1) : /\ k + 1 \in DOMAIN s /\ k + 1 # 1
                                 /\ Tail(s)[k] = s[k + 1]
  BY <1>1, <1>2
<1>5. \A k \in DOMAIN s : k # 1 => /\ k - 1 \in 1..(Len(s) - 1)
                                   /\ Tail(s)[k - 1] = s[k]
  BY <1>1, <1>2
<1>6. 1 \in DOMAIN s
  BY <1>1
<1>7. Range(Tail(s)) \subseteq Range(s) \ {Head(s)}
  BY <1>1, <1>3, <1>4, <1>6 DEF Range, IsInjective
<1>8. Range(s) \ {Head(s)} \subseteq Range(Tail(s))
  BY <1>1, <1>3, <1>5 DEF Range
<1>9. IsInjective(Tail(s))
  <2>. SUFFICES ASSUME NEW a \in 1..(Len(s) - 1), NEW b \in 1..(Len(s) - 1),
                       Tail(s)[a] = Tail(s)[b]
                PROVE  a = b
    BY <1>3 DEF IsInjective
  <2>1. a + 1 = b + 1
    BY <1>4 DEF IsInjective
  <2>. QED BY <2>1
<1>10. Head(s) \in Range(s)
  BY <1>1, <1>6 DEF Range
<1>. QED BY <1>2, <1>7, <1>8, <1>9, <1>10

LEMMA WithoutList ==
    ASSUME NEW S, NEW s \in Seq(S), IsInjective(s), NEW e \in Range(s)
    PROVE  /\ Without(s, e) \in Seq(S)
           /\ Range(Without(s, e)) = Range(s) \ {e}
           /\ IsInjective(Without(s, e))
<1>. DEFINE n == Len(s)
            k == CHOOSE j \in DOMAIN s : s[j] = e
            t == Without(s, e)
<1>1. n \in Nat /\ DOMAIN s = 1..n /\ \A j \in 1..n : s[j] \in S
  BY LenProperties, ElementOfSeq
<1>2. k \in 1..n /\ s[k] = e
  BY <1>1 DEF Range
<1>3. t = [j \in 1..(n - 1) |-> IF j < k THEN s[j] ELSE s[j + 1]]
  BY DEF Without
<1>. HIDE DEF k, t
<1>4. DOMAIN t = 1..(n - 1)
  BY <1>3
<1>5. \A j \in 1..(n - 1) : /\ j < k => j \in 1..n /\ t[j] = s[j]
                            /\ ~(j < k) => j + 1 \in 1..n /\ t[j] = s[j + 1]
  BY <1>1, <1>3
<1>6. n - 1 \in Nat
  BY <1>1, <1>2
<1>7. t \in Seq(S)
  <2>1. \A j \in 1..(n - 1) : t[j] \in S
    BY <1>1, <1>5
  <2>2. t \in [1..(n - 1) -> S]
    BY <1>3, <2>1
  <2>. QED BY <1>6, <2>2, SeqDef
<1>8. Range(t) \subseteq Range(s) \ {e}
  <2>. SUFFICES ASSUME NEW j \in 1..(n - 1) PROVE t[j] \in Range(s) \ {e}
    BY <1>4 DEF Range
  <2>1. CASE j < k
    BY <1>1, <1>2, <1>5, <2>1 DEF Range, IsInjective
  <2>2. CASE ~(j < k)
    <3>1. j + 1 # k /\ j + 1 \in 1..n
      BY <1>1, <1>2, <1>5, <2>2
    <3>. QED BY <1>1, <1>2, <1>5, <2>2, <3>1 DEF Range, IsInjective
  <2>. QED BY <2>1, <2>2
<1>9. Range(s) \ {e} \subseteq Range(t)
  <2>. SUFFICES ASSUME NEW j \in 1..n, j # k PROVE s[j] \in Range(t)
    BY <1>1, <1>2 DEF Range
  <2>1. CASE j < k
    <3>1. j \in 1..(n - 1)
      BY <1>1, <1>2, <2>1
    <3>. QED BY <1>4, <1>5, <2>1, <3>1 DEF Range
  <2>2. CASE j > k
    <3>1. j - 1 \in 1..(n - 1) /\ ~(j - 1 < k) /\ (j - 1) + 1 = j
      BY <1>1, <1>2, <2>2
    <3>2. t[j - 1] = s[j]
      BY <1>5, <3>1
    <3>. QED BY <1>4, <3>1, <3>2 DEF Range
  <2>. QED BY <1>1, <1>2, <2>1, <2>2
<1>10. IsInjective(t)
  <2>. SUFFICES ASSUME NEW a \in 1..(n - 1), NEW b \in 1..(n - 1), t[a] = t[b]
                PROVE  a = b
    BY <1>4 DEF IsInjective
  <2>1. CASE a < k /\ b < k
    BY <1>1, <1>5, <2>1 DEF IsInjective
  <2>2. CASE a < k /\ ~(b < k)
    <3>1. a = b + 1
      BY <1>1, <1>5, <2>2 DEF IsInjective
    <3>. QED BY <1>1, <1>2, <2>2, <3>1
  <2>3. CASE ~(a < k) /\ b < k
    <3>1. a + 1 = b
      BY <1>1, <1>5, <2>3 DEF IsInjective
    <3>. QED BY <1>1, <1>2, <2>3, <3>1
  <2>4. CASE ~(a < k) /\ ~(b < k)
    <3>1. a + 1 = b + 1
      BY <1>1, <1>5, <2>4 DEF IsInjective
    <3>. QED BY <3>1
  <2>. QED BY <2>1, <2>2, <2>3, <2>4
<1>. QED BY <1>7, <1>8, <1>9, <1>10 DEF t

\* What a slice of a list holds.
LEMMA SliceList ==
    ASSUME NEW S, NEW s \in Seq(S), NEW m \in 1..(Len(s) + 1), NEW n \in 0..Len(s)
    PROVE  /\ SubSeq(s, m, n) \in Seq(S)
           /\ Len(SubSeq(s, m, n)) = IF m <= n THEN n - m + 1 ELSE 0
           /\ Range(SubSeq(s, m, n)) \subseteq Range(s)
<1>1. Len(s) \in Nat /\ DOMAIN s = 1..Len(s) /\ \A k \in 1..Len(s) : s[k] \in S
  BY LenProperties, ElementOfSeq
<1>2. \A k \in m..n : k \in 1..Len(s)
  BY <1>1
<1>3. /\ SubSeq(s, m, n) \in Seq(S)
      /\ Len(SubSeq(s, m, n)) = IF m <= n THEN n - m + 1 ELSE 0
      /\ \A k \in 1..(n - m + 1) : SubSeq(s, m, n)[k] = s[m + k - 1]
  <2>1. m \in Int /\ n \in Int /\ \A k \in m..n : s[k] \in S
    BY <1>1, <1>2
  <2>. QED BY <2>1, SubSeqProperties
<1>4. \A k \in 1..Len(SubSeq(s, m, n)) :
         m + k - 1 \in 1..Len(s) /\ SubSeq(s, m, n)[k] = s[m + k - 1]
  BY <1>1, <1>3
<1>5. DOMAIN SubSeq(s, m, n) = 1..Len(SubSeq(s, m, n))
  BY <1>3, LenProperties
<1>6. Range(SubSeq(s, m, n)) \subseteq Range(s)
  BY <1>1, <1>4, <1>5 DEF Range
<1>. QED BY <1>3, <1>6

-----------------------------------------------------------------------------
(* The inductive invariant *)

LEMMA InitIInv == Init => IInv
<1>. SUFFICES ASSUME Init PROVE IInv
  OBVIOUS
<1>1. TypeOK
  <2>1. <<>> \in Seq(Handles) /\ <<>> \in Seq(Irps) /\ Len(<<>>) = 0
    BY EmptySeq
  <2>2. \A i \in Irps : Len(given[i]) <= MaxItems
    BY <2>1, QueueAssumption DEF Init
  <2>. QED BY <2>1, <2>2 DEF Init, TypeOK, NewPost, IrpStates, Results, CancelStates
<1>2. IrpInv
  <2>1. \A h \in Handles, i \in Irps : ~Claimed(h, i)
    BY DEF Init, NewPost, Claimed
  <2>. QED BY <2>1, EmptyList DEF Init, IrpInv, HeldOnce, HeldByPost
<1>3. QueueInv
  BY EmptyList DEF Init, QueueInv
<1>4. HandleInv
  BY EmptyList DEF Init, HandleInv, NewPost
<1>. QED BY <1>1, <1>2, <1>3, <1>4 DEF IInv

\* Steps that touch neither the lists nor a request.
LEMMA RegisterKeeps ==
    ASSUME IInv, NEW h \in Handles, RegisterNotificationEvent(h) \/ PostFails(h)
    PROVE  IInv'
<1>1. /\ post[h].pc \in {"new", "posting"}
      /\ \E pc \in {"posting", "done"} : post' = [post EXCEPT ![h].pc = pc]
      /\ UNCHANGED <<client, context, pendingItems, pendingIrps, irpsToCancel,
                     irp, result, cancelRoutine, given, canceller>>
  BY DEF RegisterNotificationEvent, PostFails, clientVars, queueVars, irpVars
<1>2. TypeOK'
  BY <1>1 DEF IInv, TypeOK
<1>3. \A g \in Handles, i \in Irps : Claimed(g, i)' <=> Claimed(g, i)
  BY <1>1 DEF IInv, TypeOK, Claimed
<1>4. IrpInv'
  BY <1>1, <1>3 DEF IInv, IrpInv, HeldOnce, HeldByPost
<1>5. QueueInv'
  BY <1>1 DEF IInv, QueueInv
<1>6. HandleInv'
  BY <1>1 DEF IInv, TypeOK, HandleInv
<1>. QED BY <1>2, <1>4, <1>5, <1>6 DEF IInv

LEMMA PostToWaitKeeps ==
    ASSUME IInv, NEW h \in Handles, PostToWait(h)
    PROVE  IInv'
<1>0. pendingIrps # <<>>
  BY DEF PostToWait
<1>. PICK i \in Irps : i = Head(pendingIrps)
  BY <1>0, TailList DEF IInv, TypeOK, QueueInv
<1>1. /\ post[h].pc = "posting" /\ pendingIrps # <<>>
      /\ given' = [given EXCEPT ![i] = <<h>>]
      /\ post' = [post EXCEPT ![h] = [pc |-> "claimed", irp |-> i]]
      /\ pendingIrps' = Tail(pendingIrps)
      /\ UNCHANGED <<client, context, pendingItems, irpsToCancel, irp, result,
                     cancelRoutine, canceller>>
  BY DEF PostToWait, ClaimWait, clientVars, irpVars
<1>2. /\ i \in Range(pendingIrps) /\ i \in Irps
      /\ Tail(pendingIrps) \in Seq(Irps)
      /\ Range(Tail(pendingIrps)) = Range(pendingIrps) \ {i}
      /\ IsInjective(Tail(pendingIrps))
  BY <1>1, TailList DEF IInv, TypeOK, QueueInv
<1>3. <<h>> \in Seq(Handles) /\ Len(<<h>>) = 1 /\ <<h>> # <<>> /\ Range(<<h>>) = {h}
  BY DEF Range
<1>4. TypeOK'
  BY <1>1, <1>2, <1>3, QueueAssumption DEF IInv, TypeOK
<1>5. /\ Claimed(h, i)'
      /\ \A j \in Irps : j # i => ~Claimed(h, j)' /\ ~Claimed(h, j)
      /\ \A g \in Handles, j \in Irps : g # h => (Claimed(g, j)' <=> Claimed(g, j))
  <2>1. \A g \in Handles : post'[g] = IF g = h THEN [pc |-> "claimed", irp |-> i]
                                               ELSE post[g]
    BY <1>1 DEF IInv, TypeOK
  <2>. QED BY <1>1, <2>1 DEF Claimed
<1>6. /\ irp[i] = "pending" /\ given[i] = <<>> /\ ~HeldByPost(i)
      /\ i \notin Range(irpsToCancel) /\ canceller[i] # "found"
  BY <1>2 DEF IInv, IrpInv, HeldOnce
<1>7. IrpInv'
  <2>. SUFFICES ASSUME NEW j \in Irps
                PROVE  /\ HeldOnce(j)'
                       /\ irp[j] # "completedTwice"
                       /\ result[j] = "none" <=> irp[j] \in {"new", "dispatched", "pending"}
                       /\ irp[j] = "new" \/ result[j] = "cancelled" => given'[j] = <<>>
                       /\ irp[j] = "dispatched" => given'[j] # <<>>
                       /\ irp[j] = "new" \/ j \in cancelRoutine => canceller[j] = "idle"
    BY <1>1 DEF IrpInv
  <2>1. CASE j = i
    <3>1. given'[i] = <<h>>
      BY <1>1, <1>2 DEF IInv, TypeOK
    <3>2. i \notin Range(pendingIrps')
      BY <1>1, <1>2
    <3>3. \A g \in Handles : Claimed(g, i)' => g = h
      BY <1>5, <1>6 DEF HeldByPost
    <3>4. HeldByPost(i)'
      BY <1>5 DEF HeldByPost
    <3>5. HeldOnce(i)'
      BY <1>1, <1>6, <3>1, <3>2, <3>3, <3>4 DEF HeldOnce
    <3>. QED BY <1>6, <2>1, <3>1, <3>5 DEF IInv, IrpInv
  <2>2. CASE j # i
    <3>1. given'[j] = given[j]
      BY <1>1, <2>2 DEF IInv, TypeOK
    <3>2. j \in Range(pendingIrps') <=> j \in Range(pendingIrps)
      BY <1>1, <1>2, <2>2
    <3>3. \A g \in Handles : Claimed(g, j)' <=> Claimed(g, j)
      BY <1>5, <2>2
    <3>4. HeldByPost(j)' <=> HeldByPost(j)
      BY <3>3 DEF HeldByPost
    <3>5. HeldOnce(j)
      BY DEF IInv, IrpInv
    <3>6. HeldOnce(j)'
      BY <1>1, <3>1, <3>2, <3>3, <3>4, <3>5 DEF HeldOnce
    <3>. QED BY <3>1, <3>6 DEF IInv, IrpInv
  <2>. QED BY <2>1, <2>2
<1>8. QueueInv'
  <2>1. context # "cancelled" /\ pendingItems = <<>>
    BY <1>1 DEF IInv, QueueInv
  <2>. QED BY <1>1, <1>2, <2>1 DEF IInv, QueueInv
<1>9. HandleInv'
  <2>1. \A g \in Handles : post'[g] = IF g = h THEN [pc |-> "claimed", irp |-> i]
                                               ELSE post[g]
    BY <1>1 DEF IInv, TypeOK
  <2>2. \A j \in Irps : given'[j] = IF j = i THEN <<h>> ELSE given[j]
    BY <1>1 DEF IInv, TypeOK
  <2>. QED BY <1>1, <1>3, <2>1, <2>2, QueueAssumption DEF IInv, HandleInv
<1>. QED BY <1>4, <1>7, <1>8, <1>9 DEF IInv

LEMMA PostToQueueKeeps ==
    ASSUME IInv, NEW h \in Handles, PostToQueue(h)
    PROVE  IInv'
<1>1. /\ post[h].pc = "posting" /\ pendingIrps = <<>>
      /\ pendingItems' = Append(pendingItems, h)
      /\ post' = [post EXCEPT ![h].pc = "done"]
      /\ UNCHANGED <<client, context, pendingIrps, irpsToCancel, irp, result,
                     cancelRoutine, given, canceller>>
  BY DEF PostToQueue, clientVars, irpVars
<1>2. /\ Append(pendingItems, h) \in Seq(Handles)
      /\ Range(Append(pendingItems, h)) = Range(pendingItems) \cup {h}
  BY AppendList DEF IInv, TypeOK
<1>3. TypeOK'
  BY <1>1, <1>2 DEF IInv, TypeOK
<1>4. \A g \in Handles, i \in Irps : Claimed(g, i)' <=> Claimed(g, i)
  BY <1>1 DEF IInv, TypeOK, Claimed
<1>5. IrpInv'
  BY <1>1, <1>4 DEF IInv, IrpInv, HeldOnce, HeldByPost
<1>6. QueueInv'
  BY <1>1 DEF IInv, QueueInv
<1>7. HandleInv'
  BY <1>1, <1>2 DEF IInv, TypeOK, HandleInv
<1>. QED BY <1>3, <1>5, <1>6, <1>7 DEF IInv

\* A request in the hands of a post, the cleanup, its cancel routine or the
\* dispatcher is completed, and nobody else has it.
LEMMA CompleteKeeps ==
    ASSUME IInv, NEW i \in Irps, NEW status \in {"success", "error", "cancelled"},
           irp[i] \in {"dispatched", "pending"}, Complete(i, status),
           status = "cancelled" => given[i] = <<>>,
           cancelRoutine' \subseteq cancelRoutine,
           canceller'[i] # "found",
           i \in cancelRoutine' => canceller'[i] = "idle",
           \A j \in Irps : j # i => canceller'[j] = canceller[j],
           pendingIrps' = pendingIrps, given' = given,
           Range(irpsToCancel') = Range(irpsToCancel) \ {i},
           i \notin Range(pendingIrps),
           \A g \in Handles : ~Claimed(g, i)',
           \A g \in Handles, j \in Irps : j # i => (Claimed(g, j)' <=> Claimed(g, j))
    PROVE  /\ irp' \in [Irps -> IrpStates] /\ result' \in [Irps -> Results]
           /\ IrpInv'
<1>1. /\ irp' = [irp EXCEPT ![i] = "completed"]
      /\ result' = [result EXCEPT ![i] = status]
  BY DEF Complete, IInv, TypeOK, IrpInv
<1>2. irp' \in [Irps -> IrpStates] /\ result' \in [Irps -> Results]
  BY <1>1 DEF IInv, TypeOK, IrpStates, Results
<1>3. /\ \A j \in Irps : irp'[j] = IF j = i THEN "completed" ELSE irp[j]
      /\ \A j \in Irps : result'[j] = IF j = i THEN status ELSE result[j]
  BY <1>1 DEF IInv, TypeOK
<1>4. ASSUME NEW j \in Irps PROVE HeldOnce(j)'
  <2>1. CASE j = i
    BY <1>3, <2>1 DEF HeldOnce, HeldByPost
  <2>2. CASE j # i
    <3>1. HeldOnce(j) /\ (HeldByPost(j)' <=> HeldByPost(j))
      BY <2>2 DEF IInv, IrpInv, HeldByPost
    <3>. QED BY <1>3, <2>2, <3>1 DEF HeldOnce
  <2>. QED BY <2>1, <2>2
<1>5. ASSUME NEW j \in Irps
      PROVE  /\ irp'[j] # "completedTwice"
             /\ result'[j] = "none" <=> irp'[j] \in {"new", "dispatched", "pending"}
             /\ irp'[j] = "new" \/ result'[j] = "cancelled" => given'[j] = <<>>
             /\ irp'[j] = "dispatched" => given'[j] # <<>>
             /\ irp'[j] = "new" \/ j \in cancelRoutine' => canceller'[j] = "idle"
  BY <1>3 DEF IInv, IrpInv
<1>. QED BY <1>2, <1>4, <1>5 DEF IrpInv

LEMMA CompletePostedKeeps ==
    ASSUME IInv, NEW h \in Handles, CompletePosted(h)
    PROVE  IInv'
<1>1. /\ post[h].pc = "claimed"
      /\ post' = [post EXCEPT ![h] = [pc |-> "done", irp |-> Null]]
      /\ \E status \in {"success", "error"} : Complete(post[h].irp, status)
      /\ cancelRoutine' = cancelRoutine \ {post[h].irp}
      /\ UNCHANGED <<client, context, pendingItems, pendingIrps, irpsToCancel,
                     given, canceller>>
  BY DEF CompletePosted, clientVars, queueVars
<1>2. PICK i \in Irps : i = post[h].irp
  BY <1>1 DEF IInv, TypeOK, HandleInv
<1>3. /\ Claimed(h, i) /\ HeldByPost(i)
      /\ irp[i] = "pending" /\ given[i] = <<h>>
      /\ i \notin Range(pendingIrps) /\ i \notin Range(irpsToCancel)
      /\ canceller[i] # "found"
  BY <1>1, <1>2 DEF IInv, IrpInv, HeldOnce, HeldByPost, Claimed
<1>4. \A g \in Handles : post'[g] = IF g = h THEN [pc |-> "done", irp |-> Null]
                                             ELSE post[g]
  BY <1>1 DEF IInv, TypeOK
<1>5. \A g \in Handles : Claimed(g, i) => g = h
  BY <1>3 DEF IInv, IrpInv, HeldOnce
<1>6. /\ \A g \in Handles : ~Claimed(g, i)'
      /\ \A g \in Handles, j \in Irps : j # i => (Claimed(g, j)' <=> Claimed(g, j))
  BY <1>2, <1>4, <1>5 DEF Claimed
<1>7. irp' \in [Irps -> IrpStates] /\ result' \in [Irps -> Results] /\ IrpInv'
  <2>1. PICK status \in {"success", "error"} : Complete(i, status)
    BY <1>1, <1>2
  <2>. QED BY <1>1, <1>2, <1>3, <1>6, <2>1, CompleteKeeps
<1>8. TypeOK'
  BY <1>1, <1>7 DEF IInv, TypeOK
<1>9. QueueInv'
  BY <1>1 DEF IInv, QueueInv
<1>10. HandleInv'
  BY <1>1, <1>4 DEF IInv, HandleInv
<1>. QED BY <1>7, <1>8, <1>9, <1>10 DEF IInv

LEMMA CompleteTakenKeeps ==
    ASSUME IInv, NEW i \in Irps, CompleteTaken(i)
    PROVE  IInv'
<1>1. /\ irp[i] = "dispatched"
      /\ \E status \in {"success", "error"} : Complete(i, status)
      /\ UNCHANGED <<client, context, pendingItems, pendingIrps, irpsToCancel,
                     post, given, cancelRoutine, canceller>>
  BY DEF CompleteTaken, clientVars, queueVars
<1>2. /\ i \notin Range(pendingIrps) /\ i \notin Range(irpsToCancel)
      /\ canceller[i] # "found"
      /\ \A g \in Handles : ~Claimed(g, i)
      /\ i \in cancelRoutine => canceller[i] = "idle"
  BY <1>1 DEF IInv, IrpInv, HeldOnce
<1>3. \A g \in Handles, j \in Irps : Claimed(g, j)' <=> Claimed(g, j)
  BY <1>1 DEF Claimed
<1>4. irp' \in [Irps -> IrpStates] /\ result' \in [Irps -> Results] /\ IrpInv'
  <2>1. PICK status \in {"success", "error"} : Complete(i, status)
    BY <1>1
  <2>. QED BY <1>1, <1>2, <1>3, <2>1, CompleteKeeps
<1>5. TypeOK' /\ QueueInv' /\ HandleInv'
  BY <1>1, <1>4 DEF IInv, TypeOK, QueueInv, HandleInv
<1>. QED BY <1>4, <1>5 DEF IInv

LEMMA CancelCompleteKeeps ==
    ASSUME IInv, NEW i \in Irps, CancelComplete(i)
    PROVE  IInv'
<1>1. /\ canceller[i] = "found"
      /\ Complete(i, "cancelled")
      /\ canceller' = [canceller EXCEPT ![i] = "idle"]
      /\ UNCHANGED <<client, context, pendingItems, pendingIrps, irpsToCancel,
                     post, given, cancelRoutine>>
  BY DEF CancelComplete, clientVars, queueVars
<1>2. /\ irp[i] = "pending" /\ given[i] = <<>>
      /\ i \notin Range(pendingIrps) /\ i \notin Range(irpsToCancel)
      /\ \A g \in Handles : ~Claimed(g, i)
  BY <1>1 DEF IInv, IrpInv, HeldOnce, HeldByPost
<1>3. \A g \in Handles, j \in Irps : Claimed(g, j)' <=> Claimed(g, j)
  BY <1>1 DEF Claimed
<1>4. /\ canceller' \in [Irps -> CancelStates]
      /\ \A j \in Irps : canceller'[j] = IF j = i THEN "idle" ELSE canceller[j]
  BY <1>1 DEF IInv, TypeOK, CancelStates
<1>5. irp' \in [Irps -> IrpStates] /\ result' \in [Irps -> Results] /\ IrpInv'
  BY <1>1, <1>2, <1>3, <1>4, CompleteKeeps
<1>6. TypeOK' /\ QueueInv' /\ HandleInv'
  BY <1>1, <1>4, <1>5 DEF IInv, TypeOK, QueueInv, HandleInv
<1>. QED BY <1>5, <1>6 DEF IInv

LEMMA CancelAllCompleteKeeps ==
    ASSUME IInv, CancelAllComplete
    PROVE  IInv'
<1>1. irpsToCancel # <<>>
  BY DEF CancelAllComplete
<1>2. PICK i \in Irps : i = Head(irpsToCancel)
  BY <1>1, TailList DEF IInv, TypeOK, QueueInv
<1>3. /\ Complete(i, "cancelled")
      /\ cancelRoutine' = cancelRoutine \ {i}
      /\ irpsToCancel' = Tail(irpsToCancel)
      /\ UNCHANGED <<client, context, pendingItems, pendingIrps, post, given,
                     canceller>>
  BY <1>2 DEF CancelAllComplete, clientVars
<1>4. /\ i \in Range(irpsToCancel)
      /\ irpsToCancel' \in Seq(Irps)
      /\ Range(irpsToCancel') = Range(irpsToCancel) \ {i}
      /\ IsInjective(irpsToCancel')
  BY <1>1, <1>2, <1>3, TailList DEF IInv, TypeOK, QueueInv
<1>5. /\ irp[i] = "pending" /\ given[i] = <<>>
      /\ i \notin Range(pendingIrps) /\ canceller[i] # "found"
      /\ \A g \in Handles : ~Claimed(g, i)
  BY <1>4 DEF IInv, IrpInv, HeldOnce, HeldByPost
<1>6. \A g \in Handles, j \in Irps : Claimed(g, j)' <=> Claimed(g, j)
  BY <1>3 DEF Claimed
<1>7. irp' \in [Irps -> IrpStates] /\ result' \in [Irps -> Results] /\ IrpInv'
  BY <1>3, <1>4, <1>5, <1>6, CompleteKeeps
<1>8. TypeOK' /\ QueueInv' /\ HandleInv'
  BY <1>1, <1>3, <1>4, <1>7 DEF IInv, TypeOK, QueueInv, HandleInv
<1>. QED BY <1>7, <1>8 DEF IInv

\* A batch is a prefix of the queued handles, as long as there are any.
LEMMA BatchIsPrefix ==
    ASSUME TypeOK, pendingItems # <<>>
    PROVE  \E n \in 1..Len(pendingItems) :
              n <= MaxItems /\ Batch = SubSeq(pendingItems, 1, n)
<1>. DEFINE n == IF MaxItems < Len(pendingItems) THEN MaxItems ELSE Len(pendingItems)
<1>1. Len(pendingItems) \in Nat /\ Len(pendingItems) > 0 /\ MaxItems \in Nat \ {0}
  BY LenProperties, EmptySeq, QueueAssumption DEF TypeOK
<1>2. n \in 1..Len(pendingItems) /\ n <= MaxItems
  BY <1>1
<1>3. Batch = SubSeq(pendingItems, 1, n)
  BY DEF Batch
<1>. QED BY <1>2, <1>3

LEMMA WaitTakesKeeps ==
    ASSUME IInv, NEW i \in Irps, WaitTakes(i)
    PROVE  IInv'
<1>1. /\ irp[i] = "new" /\ pendingItems # <<>>
      /\ irp' = [irp EXCEPT ![i] = "dispatched"]
      /\ given' = [given EXCEPT ![i] = Batch]
      /\ pendingItems' = SubSeq(pendingItems, Len(Batch) + 1, Len(pendingItems))
      /\ UNCHANGED <<client, context, pendingIrps, irpsToCancel, post, result,
                     cancelRoutine, canceller>>
  BY DEF WaitTakes, clientVars
<1>2. PICK n \in 1..Len(pendingItems) :
         n <= MaxItems /\ Batch = SubSeq(pendingItems, 1, n)
  BY <1>1, BatchIsPrefix DEF IInv
<1>3. /\ Batch \in Seq(Handles) /\ Len(Batch) = n /\ Batch # <<>>
      /\ Range(Batch) \subseteq Range(pendingItems)
      /\ pendingItems' \in Seq(Handles)
      /\ Range(pendingItems') \subseteq Range(pendingItems)
  <2>1. pendingItems \in Seq(Handles) /\ Len(pendingItems) \in Nat
    BY LenProperties DEF IInv, TypeOK
  <2>2. /\ Batch \in Seq(Handles) /\ Len(Batch) = n
        /\ Range(Batch) \subseteq Range(pendingItems)
    BY <1>2, <2>1, SliceList
  <2>3. Batch # <<>>
    BY <2>2, EmptySeq
  <2>4. n + 1 \in 1..(Len(pendingItems) + 1) /\ Len(pendingItems) \in 0..Len(pendingItems)
    BY <2>1
  <2>5. pendingItems' = SubSeq(pendingItems, n + 1, Len(pendingItems))
    BY <1>1, <2>2
  <2>. QED BY <2>1, <2>2, <2>3, <2>4, <2>5, SliceList
<1>4. /\ \A j \in Irps : irp'[j] = IF j = i THEN "dispatched" ELSE irp[j]
      /\ \A j \in Irps : given'[j] = IF j = i THEN Batch ELSE given[j]
  BY <1>1 DEF IInv, TypeOK
<1>5. TypeOK'
  <2>1. Len(Batch) <= MaxItems
    BY <1>2, <1>3
  <2>2. /\ irp' \in [Irps -> IrpStates] /\ given' \in [Irps -> Seq(Handles)]
        /\ \A j \in Irps : Len(given'[j]) <= MaxItems
    BY <1>1, <1>3, <1>4, <2>1 DEF IInv, TypeOK, IrpStates
  <2>. QED BY <1>1, <1>3, <2>2 DEF IInv, TypeOK
<1>6. \A g \in Handles, j \in Irps : Claimed(g, j)' <=> Claimed(g, j)
  BY <1>1 DEF Claimed
<1>7. \A j \in Irps : HeldByPost(j)' <=> HeldByPost(j)
  BY <1>6 DEF HeldByPost
<1>8. HeldOnce(i)'
  <2>. HeldOnce(i)
    BY DEF IInv, IrpInv
  <2>. QED BY <1>1, <1>4, <1>6, <1>7 DEF HeldOnce
<1>9. ASSUME NEW j \in Irps, j # i PROVE HeldOnce(j)'
  <2>. HeldOnce(j)
    BY DEF IInv, IrpInv
  <2>. QED BY <1>1, <1>4, <1>6, <1>7, <1>9 DEF HeldOnce
<1>10. IrpInv'
  BY <1>1, <1>3, <1>4, <1>8, <1>9 DEF IInv, IrpInv
<1>11. QueueInv'
  <2>1. pendingIrps = <<>>
    BY <1>1 DEF IInv, QueueInv
  <2>. QED BY <1>1, <2>1 DEF IInv, QueueInv
<1>12. HandleInv'
  BY <1>1, <1>3, <1>4 DEF IInv, HandleInv
<1>. QED BY <1>5, <1>10, <1>11, <1>12 DEF IInv

LEMMA WaitPendsKeeps ==
    ASSUME IInv, NEW i \in Irps, WaitPends(i)
    PROVE  IInv'
<1>1. /\ client = "open" /\ irp[i] = "new" /\ pendingItems = <<>>
      /\ irp' = [irp EXCEPT ![i] = "pending"]
      /\ cancelRoutine' = cancelRoutine \cup {i}
      /\ pendingIrps' = Append(pendingIrps, i)
      /\ UNCHANGED <<client, context, pendingItems, irpsToCancel, post, result,
                     given, canceller>>
  BY DEF WaitPends, MayPend, clientVars
<1>2. HeldOnce(i)
  BY DEF IInv, IrpInv
<1>3. /\ i \notin Range(pendingIrps) /\ i \notin Range(irpsToCancel)
      /\ ~HeldByPost(i) /\ given[i] = <<>> /\ result[i] = "none"
      /\ canceller[i] = "idle"
  BY <1>1, <1>2 DEF IInv, IrpInv, HeldOnce, HeldByPost
<1>4. /\ pendingIrps' \in Seq(Irps)
      /\ Range(pendingIrps') = Range(pendingIrps) \cup {i}
      /\ IsInjective(pendingIrps')
  BY <1>1, <1>3, AppendList DEF IInv, TypeOK, QueueInv
<1>5. \A j \in Irps : irp'[j] = IF j = i THEN "pending" ELSE irp[j]
  BY <1>1 DEF IInv, TypeOK
<1>6. TypeOK'
  BY <1>1, <1>4 DEF IInv, TypeOK, IrpStates
<1>7. \A g \in Handles, j \in Irps : Claimed(g, j)' <=> Claimed(g, j)
  BY <1>1 DEF Claimed
<1>8. \A j \in Irps : HeldByPost(j)' <=> HeldByPost(j)
  BY <1>7 DEF HeldByPost
<1>9. HeldOnce(i)'
  BY <1>1, <1>3, <1>4, <1>5, <1>8 DEF HeldOnce, HeldByPost
<1>10. ASSUME NEW j \in Irps, j # i PROVE HeldOnce(j)'
  <2>. HeldOnce(j)
    BY DEF IInv, IrpInv
  <2>. QED BY <1>1, <1>4, <1>5, <1>7, <1>8, <1>10 DEF HeldOnce
<1>11. IrpInv'
  BY <1>1, <1>3, <1>5, <1>9, <1>10 DEF IInv, IrpInv
<1>12. QueueInv'
  <2>1. context = "listed"
    BY <1>1 DEF IInv, QueueInv, TypeOK
  <2>. QED BY <1>1, <1>4, <2>1 DEF IInv, QueueInv
<1>13. HandleInv'
  BY <1>1 DEF IInv, HandleInv
<1>. QED BY <1>6, <1>11, <1>12, <1>13 DEF IInv

LEMMA WaitFailsKeeps ==
    ASSUME IInv, NEW i \in Irps, WaitFails(i)
    PROVE  IInv'
<1>1. /\ irp[i] = "new"
      /\ irp' = [irp EXCEPT ![i] = "completed"]
      /\ result' = [result EXCEPT ![i] = "error"]
      /\ UNCHANGED <<client, context, pendingItems, pendingIrps, irpsToCancel,
                     post, cancelRoutine, given, canceller>>
  BY DEF WaitFails, clientVars, queueVars
<1>2. /\ \A j \in Irps : irp'[j] = IF j = i THEN "completed" ELSE irp[j]
      /\ \A j \in Irps : result'[j] = IF j = i THEN "error" ELSE result[j]
  BY <1>1 DEF IInv, TypeOK
<1>3. TypeOK'
  BY <1>1 DEF IInv, TypeOK, IrpStates, Results
<1>4. \A g \in Handles, j \in Irps : Claimed(g, j)' <=> Claimed(g, j)
  BY <1>1 DEF Claimed
<1>5. \A j \in Irps : HeldByPost(j)' <=> HeldByPost(j)
  BY <1>4 DEF HeldByPost
<1>6. ASSUME NEW j \in Irps PROVE HeldOnce(j)'
  <2>. HeldOnce(j)
    BY DEF IInv, IrpInv
  <2>. QED BY <1>1, <1>2, <1>4, <1>5 DEF HeldOnce
<1>7. IrpInv'
  BY <1>1, <1>2, <1>6 DEF IInv, IrpInv
<1>8. QueueInv' /\ HandleInv'
  BY <1>1 DEF IInv, QueueInv, HandleInv
<1>. QED BY <1>3, <1>7, <1>8 DEF IInv

\* The client's steps, and a cancel routine's before it searches the list.
LEMMA ClientKeeps ==
    ASSUME IInv, Stop \/ Cleanup
    PROVE  IInv'
<1>1. /\ client' \in {"stopping", "closed"}
      /\ context' \in {"listed", "unlinked"}
      /\ client' = "closed" <=> context' # "listed"
      /\ UNCHANGED <<pendingItems, pendingIrps, irpsToCancel, post, irp, result,
                     cancelRoutine, given, canceller>>
      /\ context \in {"listed", "unlinked"}
  BY DEF Stop, Cleanup, queueVars, irpVars, IInv, QueueInv, TypeOK
<1>2. TypeOK'
  BY <1>1 DEF IInv, TypeOK
<1>3. \A g \in Handles, j \in Irps : Claimed(g, j)' <=> Claimed(g, j)
  BY <1>1 DEF Claimed
<1>4. IrpInv'
  BY <1>1, <1>3 DEF IInv, IrpInv, HeldOnce, HeldByPost
<1>5. QueueInv'
  BY <1>1 DEF IInv, QueueInv
<1>6. HandleInv'
  BY <1>1 DEF IInv, HandleInv
<1>. QED BY <1>2, <1>4, <1>5, <1>6 DEF IInv

LEMMA CancelEntryKeeps ==
    ASSUME IInv, NEW i \in Irps, IoCancelIrp(i) \/ CancelLookup(i)
    PROVE  IInv'
<1>1. /\ \E s \in {"entered", "searching", "idle"} : canceller' = [canceller EXCEPT ![i] = s]
      /\ cancelRoutine' \subseteq cancelRoutine
      /\ i \notin cancelRoutine'
      /\ irp[i] # "new"
      /\ canceller[i] # "found"
      /\ UNCHANGED <<client, context, pendingItems, pendingIrps, irpsToCancel,
                     post, irp, result, given>>
  <2>1. CASE IoCancelIrp(i)
    BY <2>1 DEF IoCancelIrp, clientVars, queueVars, IInv, IrpInv
  <2>2. CASE CancelLookup(i)
    BY <2>2 DEF CancelLookup, clientVars, queueVars, irpVars, IInv, IrpInv
  <2>. QED BY <2>1, <2>2
<1>2. /\ canceller' \in [Irps -> CancelStates]
      /\ canceller'[i] # "found"
      /\ \A j \in Irps : j # i => canceller'[j] = canceller[j]
  BY <1>1 DEF IInv, TypeOK, CancelStates
<1>3. TypeOK'
  BY <1>1, <1>2 DEF IInv, TypeOK
<1>4. \A g \in Handles, j \in Irps : Claimed(g, j)' <=> Claimed(g, j)
  BY <1>1 DEF Claimed
<1>5. \A j \in Irps : HeldByPost(j)' <=> HeldByPost(j)
  BY <1>4 DEF HeldByPost
<1>6. ASSUME NEW j \in Irps PROVE HeldOnce(j)'
  <2>. HeldOnce(j)
    BY DEF IInv, IrpInv
  <2>. QED BY <1>1, <1>2, <1>4, <1>5 DEF HeldOnce
<1>7. ASSUME NEW j \in Irps
      PROVE  irp[j] = "new" \/ j \in cancelRoutine' => canceller'[j] = "idle"
  BY <1>1, <1>2 DEF IInv, IrpInv
<1>8. IrpInv'
  BY <1>1, <1>6, <1>7 DEF IInv, IrpInv
<1>9. QueueInv' /\ HandleInv'
  BY <1>1 DEF IInv, QueueInv, HandleInv
<1>. QED BY <1>3, <1>8, <1>9 DEF IInv

LEMMA CancelSearchKeeps ==
    ASSUME IInv, NEW i \in Irps, CancelSearch(i)
    PROVE  IInv'
<1>. DEFINE listed == i \in Range(pendingIrps)
<1>1. /\ canceller[i] = "searching"
      /\ pendingIrps' = IF listed THEN Without(pendingIrps, i) ELSE pendingIrps
      /\ canceller' = [canceller EXCEPT ![i] = IF listed THEN "found" ELSE "idle"]
      /\ UNCHANGED <<client, context, pendingItems, irpsToCancel, post, irp,
                     result, cancelRoutine, given>>
  BY DEF CancelSearch, MayCancel, clientVars, irpVars
<1>2. /\ pendingIrps' \in Seq(Irps)
      /\ Range(pendingIrps') = Range(pendingIrps) \ {i}
      /\ IsInjective(pendingIrps')
  <2>1. CASE listed
    BY <1>1, <2>1, WithoutList DEF IInv, TypeOK, QueueInv
  <2>2. CASE ~listed
    BY <1>1, <2>2 DEF IInv, TypeOK, QueueInv
  <2>. QED BY <2>1, <2>2
<1>3. \A j \in Irps : canceller'[j] = IF j # i THEN canceller[j]
                                      ELSE IF listed THEN "found" ELSE "idle"
  BY <1>1 DEF IInv, TypeOK
<1>4. TypeOK'
  BY <1>1, <1>2 DEF IInv, TypeOK, CancelStates
<1>5. \A g \in Handles, j \in Irps : Claimed(g, j)' <=> Claimed(g, j)
  BY <1>1 DEF Claimed
<1>6. \A j \in Irps : HeldByPost(j)' <=> HeldByPost(j)
  BY <1>5 DEF HeldByPost
<1>7. ASSUME NEW j \in Irps PROVE HeldOnce(j)'
  <2>. HeldOnce(j)
    BY DEF IInv, IrpInv
  <2>1. CASE j = i
    BY <1>1, <1>2, <1>3, <1>5, <1>6, <2>1 DEF HeldOnce
  <2>2. CASE j # i
    BY <1>1, <1>2, <1>3, <1>5, <1>6, <2>2 DEF HeldOnce
  <2>. QED BY <2>1, <2>2
<1>8. irp[i] # "new" /\ i \notin cancelRoutine
  BY <1>1 DEF IInv, IrpInv
<1>9. IrpInv'
  BY <1>1, <1>3, <1>7, <1>8 DEF IInv, IrpInv
<1>10. QueueInv'
  <2>1. pendingIrps' # <<>> => pendingIrps # <<>>
    BY <1>2, SeqRange DEF IInv, TypeOK
  <2>. QED BY <1>1, <1>2, <2>1 DEF IInv, QueueInv
<1>11. HandleInv'
  BY <1>1 DEF IInv, HandleInv
<1>. QED BY <1>4, <1>9, <1>10, <1>11 DEF IInv

LEMMA CancelAllDetachKeeps ==
    ASSUME IInv, CancelAllDetach
    PROVE  IInv'
<1>1. /\ context = "unlinked" /\ context' = "cancelled"
      /\ irpsToCancel' = pendingIrps /\ pendingIrps' = <<>>
      /\ UNCHANGED <<client, pendingItems, post, irp, result, cancelRoutine,
                     given, canceller>>
  BY DEF CancelAllDetach, TakenByCleanup, irpVars
<1>2. Range(irpsToCancel) = {} /\ Range(pendingIrps') = {} /\ IsInjective(pendingIrps')
  BY <1>1, EmptyList DEF IInv, QueueInv
<1>3. TypeOK'
  <2>1. <<>> \in Seq(Irps)
    BY EmptySeq
  <2>. QED BY <1>1, <2>1 DEF IInv, TypeOK
<1>4. \A g \in Handles, j \in Irps : Claimed(g, j)' <=> Claimed(g, j)
  BY <1>1 DEF Claimed
<1>5. \A j \in Irps : HeldByPost(j)' <=> HeldByPost(j)
  BY <1>4 DEF HeldByPost
<1>6. ASSUME NEW j \in Irps PROVE HeldOnce(j)'
  <2>. HeldOnce(j)
    BY DEF IInv, IrpInv
  <2>. QED BY <1>1, <1>2, <1>4, <1>5 DEF HeldOnce
<1>7. IrpInv'
  BY <1>1, <1>6 DEF IInv, IrpInv
<1>8. QueueInv'
  BY <1>1, <1>2 DEF IInv, QueueInv
<1>9. HandleInv'
  BY <1>1 DEF IInv, HandleInv
<1>. QED BY <1>3, <1>7, <1>8, <1>9 DEF IInv

LEMMA NextKeepsIInv == IInv /\ [Next]_vars => IInv'
<1>. SUFFICES ASSUME IInv, [Next]_vars PROVE IInv'
  OBVIOUS
<1>1. CASE UNCHANGED vars
  <2>1. UNCHANGED <<client, context, pendingItems, pendingIrps, irpsToCancel,
                    post, irp, result, cancelRoutine, given, canceller>>
    BY <1>1 DEF vars, clientVars, queueVars, irpVars
  <2>2. \A g \in Handles, j \in Irps : Claimed(g, j)' <=> Claimed(g, j)
    BY <2>1 DEF Claimed
  <2>3. IrpInv'
    BY <2>1, <2>2 DEF IInv, IrpInv, HeldOnce, HeldByPost
  <2>4. TypeOK' /\ QueueInv' /\ HandleInv'
    BY <2>1 DEF IInv, TypeOK, QueueInv, HandleInv
  <2>. QED BY <2>3, <2>4 DEF IInv
<1>2. CASE \E h \in Handles : RegisterNotificationEvent(h) \/ Posting(h)
  BY <1>2, RegisterKeeps, PostToWaitKeeps, PostToQueueKeeps, CompletePostedKeeps
     DEF Posting
<1>3. CASE \E i \in Irps : Waiting(i) \/ CompleteTaken(i)
  BY <1>3, WaitTakesKeeps, WaitPendsKeeps, WaitFailsKeeps, CompleteTakenKeeps
     DEF Waiting
<1>4. CASE \E i \in Irps : IoCancelIrp(i) \/ Cancelling(i)
  BY <1>4, CancelEntryKeeps, CancelSearchKeeps, CancelCompleteKeeps DEF Cancelling
<1>5. CASE Stop \/ Cleanup \/ CancellingAll
  BY <1>5, ClientKeeps, CancelAllDetachKeeps, CancelAllCompleteKeeps
     DEF CancellingAll
<1>. QED BY <1>1, <1>2, <1>3, <1>4, <1>5 DEF Next

\* The inductive invariant holds throughout, for any sets of handles and
\* requests and any room for responses.
THEOREM Invariance == Spec => []IInv
<1>1. Init => IInv
  BY InitIInv
<1>2. IInv /\ [Next]_vars => IInv'
  BY NextKeepsIInv
<1>. QED BY <1>1, <1>2, PTL DEF Spec

\* The type invariant: in particular a request is never given more handles
\* than its buffer has room for.
THEOREM TypeCorrect == Spec => []TypeOK
<1>1. IInv => TypeOK
  BY DEF IInv
<1>. QED BY <1>1, Invariance, PTL

\* A wait is completed once, whoever is after it.
THEOREM CompletedOnce == Spec => []WaitCompletedOnce
<1>1. IInv => WaitCompletedOnce
  BY DEF IInv, IrpInv, WaitCompletedOnce
<1>. QED BY <1>1, Invariance, PTL

\* A cancelled wait takes no handle with it.
THEOREM CancelledEmpty == Spec => []CancelledWithoutHandles
<1>1. IInv => CancelledWithoutHandles
  BY DEF IInv, IrpInv, CancelledWithoutHandles
<1>. QED BY <1>1, Invariance, PTL

-----------------------------------------------------------------------------
(* HandleQueue implements HandleChannel *)

\* The phase of a wait, by what the invariant knows of it.
LEMMA PhaseOf ==
    ASSUME IInv, NEW i \in Irps
    PROVE  /\ Phase(i) = "new" <=> irp[i] = "new"
           /\ Phase(i) = "answered" <=> irp[i] = "completed"
           /\ Phase(i) = "parked" <=> i \in Range(pendingIrps)
           /\ Phase(i) = "served" <=> /\ irp[i] \in {"dispatched", "pending"}
                                      /\ given[i] # <<>>
           /\ Phase(i) = "cancelled" <=> /\ irp[i] \in {"dispatched", "pending"}
                                         /\ i \notin Range(pendingIrps)
                                         /\ given[i] = <<>>
           /\ Phase(i) \in {"new", "parked", "served", "cancelled", "answered"}
<1>1. irp[i] \in {"new", "dispatched", "pending", "completed"}
  BY DEF IInv, IrpInv, TypeOK, IrpStates
<1>2. i \in Range(pendingIrps) => irp[i] = "pending" /\ given[i] = <<>>
  BY DEF IInv, IrpInv, HeldOnce
<1>3. irp[i] = "new" => Phase(i) = "new"
  BY <1>2 DEF Phase
<1>4. irp[i] = "completed" => Phase(i) = "answered"
  BY <1>2 DEF Phase
<1>5. i \in Range(pendingIrps) => Phase(i) = "parked"
  BY <1>2 DEF Phase
<1>6. i \notin Range(pendingIrps) /\ irp[i] \in {"dispatched", "pending"}
      => Phase(i) = IF given[i] = <<>> THEN "cancelled" ELSE "served"
  BY DEF Phase
<1>. QED BY <1>1, <1>2, <1>3, <1>4, <1>5, <1>6

\* A wait that a step does not touch keeps its phase.
LEMMA SamePhase ==
    ASSUME IInv, IInv', NEW j \in Irps, irp'[j] = irp[j], given'[j] = given[j],
           j \in Range(pendingIrps') <=> j \in Range(pendingIrps)
    PROVE  Phase(j)' = Phase(j)
BY DEF Phase

\* The channel's sets, in terms of the queue's lists.
LEMMA ChannelSets ==
    ASSUME IInv
    PROVE  /\ Channel!Parked = {i \in Irps : i \in Range(pendingIrps)}
           /\ \A h \in Handles : post[h].pc \in {"new", "posting"} => h \notin Channel!Known
<1>1. Channel!Parked = {i \in Irps : i \in Range(pendingIrps)}
  BY PhaseOf DEF Channel!Parked
<1>2. ASSUME NEW s \in Seq(Handles) PROVE Channel!SeqElements(s) = Range(s)
  BY SeqRange DEF Channel!SeqElements
<1>3. Channel!Known = Range(pendingItems) \cup UNION {Range(given[i]) : i \in Irps}
  BY <1>2 DEF Channel!Known, IInv, TypeOK
<1>. QED BY <1>1, <1>3 DEF IInv, HandleInv

LEMMA InitSimulates == Init => Channel!ChannelInit
<1>. SUFFICES ASSUME Init PROVE Channel!ChannelInit
  OBVIOUS
<1>1. \A i \in Irps : Phase(i) = "new"
  BY InitIInv, PhaseOf DEF Init
<1>. QED BY <1>1 DEF Init, Channel!ChannelInit

\* Steps the channel does not see.
LEMMA StutterSimulates ==
    ASSUME IInv, IInv', UNCHANGED <<irp, given, pendingIrps, pendingItems>>
    PROVE  UNCHANGED Channel!channelVars
<1>1. \A i \in Irps : Phase(i)' = Phase(i)
  BY DEF Phase
<1>. QED BY <1>1 DEF Channel!channelVars

LEMMA PostSimulates ==
    ASSUME IInv, IInv', NEW h \in Handles, PostToWait(h) \/ PostToQueue(h)
    PROVE  Channel!PutAside(h) \/ \E i \in Irps : Channel!HandOver(h, i)
<1>1. post[h].pc = "posting" /\ h \notin Channel!Known
  BY ChannelSets DEF PostToWait, PostToQueue
<1>2. CASE PostToWait(h)
  <2>1. pendingIrps # <<>>
    BY <1>2 DEF PostToWait
  <2>2. PICK i \in Irps : i = Head(pendingIrps)
    BY <2>1, TailList DEF IInv, TypeOK, QueueInv
  <2>3. /\ given' = [given EXCEPT ![i] = <<h>>]
        /\ pendingIrps' = Tail(pendingIrps)
        /\ irp' = irp /\ pendingItems' = pendingItems
    BY <1>2, <2>2 DEF PostToWait, ClaimWait, irpVars
  <2>4. /\ i \in Range(pendingIrps) /\ i \notin Range(pendingIrps')
        /\ \A j \in Irps : j # i => (j \in Range(pendingIrps') <=> j \in Range(pendingIrps))
    BY <2>1, <2>2, <2>3, TailList DEF IInv, TypeOK, QueueInv
  <2>5. irp[i] = "pending"
    BY <2>4 DEF IInv, IrpInv, HeldOnce
  <2>6. \A j \in Irps : given'[j] = IF j = i THEN <<h>> ELSE given[j]
    BY <2>3 DEF IInv, TypeOK
  <2>7. Phase(i)' = "served"
    <3>1. irp'[i] = "pending" /\ given'[i] # <<>>
      BY <2>3, <2>5, <2>6
    <3>. QED BY <2>4, <3>1 DEF Phase
  <2>8. \A j \in Irps : j # i => Phase(j)' = Phase(j)
    BY <2>3, <2>4, <2>6, SamePhase
  <2>9. pendingItems = <<>>
    BY <2>1 DEF IInv, QueueInv
  <2>10. i \in Channel!Parked
    BY <2>4, ChannelSets
  <2>11. [j \in Irps |-> Phase(j)]'
         = [[j \in Irps |-> Phase(j)] EXCEPT ![i] = "served"]
    BY <2>7, <2>8
  <2>12. Channel!HandOver(h, i)
    BY <1>1, <2>3, <2>9, <2>10, <2>11 DEF Channel!HandOver
  <2>. QED BY <2>12
<1>3. CASE PostToQueue(h)
  <2>1. /\ pendingIrps = <<>>
        /\ pendingItems' = Append(pendingItems, h)
        /\ UNCHANGED <<irp, given, pendingIrps>>
    BY <1>3 DEF PostToQueue, irpVars
  <2>2. Channel!Parked = {}
    BY <2>1, ChannelSets, EmptyList
  <2>3. \A i \in Irps : Phase(i)' = Phase(i)
    BY <2>1 DEF Phase
  <2>4. Channel!PutAside(h)
    BY <1>1, <2>1, <2>2, <2>3 DEF Channel!PutAside
  <2>. QED BY <2>4
<1>. QED BY <1>2, <1>3

\* A request that has been completed is answered, and no other is concerned.
LEMMA AnswerSimulates ==
    ASSUME IInv, IInv', NEW i \in Irps,
           Phase(i) \in {"new", "served", "cancelled"},
           irp'[i] = "completed",
           \A j \in Irps : j # i => irp'[j] = irp[j],
           UNCHANGED <<given, pendingIrps, pendingItems>>
    PROVE  Channel!Answer(i)
<1>1. Phase(i)' = "answered"
  <2>1. i \notin Range(pendingIrps')
    BY PhaseOf
  <2>. QED BY <2>1 DEF Phase
<1>2. \A j \in Irps : j # i => Phase(j)' = Phase(j)
  BY SamePhase
<1>3. [j \in Irps |-> Phase(j)]'
      = [[j \in Irps |-> Phase(j)] EXCEPT ![i] = "answered"]
  BY <1>1, <1>2
<1>. QED BY <1>3 DEF Channel!Answer

\* Complete, on a request that is not completed yet.
LEMMA CompleteOpen ==
    ASSUME IInv, NEW i \in Irps, NEW status, Complete(i, status),
           irp[i] \in {"dispatched", "pending"}
    PROVE  \A j \in Irps : irp'[j] = IF j = i THEN "completed" ELSE irp[j]
BY DEF IInv, TypeOK, Complete

LEMMA CompletingSimulates ==
    ASSUME IInv, IInv', NEW i \in Irps,
           \/ \E h \in Handles : post[h].irp = i /\ CompletePosted(h)
           \/ CompleteTaken(i) \/ WaitFails(i) \/ CancelComplete(i)
           \/ irpsToCancel # <<>> /\ i = Head(irpsToCancel) /\ CancelAllComplete
    PROVE  Channel!Answer(i)
<1>1. CASE \E h \in Handles : post[h].irp = i /\ CompletePosted(h)
  <2>1. PICK h \in Handles : post[h].irp = i /\ CompletePosted(h)
    BY <1>1
  <2>2. /\ \E status \in {"success", "error"} : Complete(i, status)
        /\ UNCHANGED <<given, pendingIrps, pendingItems>>
        /\ Claimed(h, i)
    BY <2>1 DEF CompletePosted, queueVars, Claimed
  <2>3. irp[i] = "pending" /\ given[i] = <<h>>
    BY <2>2 DEF IInv, IrpInv, HeldOnce
  <2>4. Phase(i) = "served"
    BY <2>3, PhaseOf
  <2>. QED BY <2>2, <2>3, <2>4, CompleteOpen, AnswerSimulates
<1>2. CASE CompleteTaken(i)
  <2>1. /\ \E status \in {"success", "error"} : Complete(i, status)
        /\ UNCHANGED <<given, pendingIrps, pendingItems>>
        /\ irp[i] = "dispatched"
    BY <1>2 DEF CompleteTaken, queueVars
  <2>2. given[i] # <<>>
    BY <2>1 DEF IInv, IrpInv
  <2>3. Phase(i) = "served"
    BY <2>1, <2>2, PhaseOf
  <2>. QED BY <2>1, <2>3, CompleteOpen, AnswerSimulates
<1>3. CASE WaitFails(i)
  <2>1. /\ irp' = [irp EXCEPT ![i] = "completed"]
        /\ UNCHANGED <<given, pendingIrps, pendingItems>>
        /\ irp[i] = "new"
    BY <1>3 DEF WaitFails, queueVars
  <2>2. \A j \in Irps : irp'[j] = IF j = i THEN "completed" ELSE irp[j]
    BY <2>1 DEF IInv, TypeOK
  <2>3. Phase(i) = "new"
    BY <2>1, PhaseOf
  <2>. QED BY <2>1, <2>2, <2>3, AnswerSimulates
<1>4. CASE CancelComplete(i)
  <2>1. /\ Complete(i, "cancelled")
        /\ UNCHANGED <<given, pendingIrps, pendingItems>>
        /\ canceller[i] = "found"
    BY <1>4 DEF CancelComplete, queueVars
  <2>2. irp[i] = "pending" /\ given[i] = <<>> /\ i \notin Range(pendingIrps)
    BY <2>1 DEF IInv, IrpInv, HeldOnce
  <2>3. Phase(i) = "cancelled"
    BY <2>2, PhaseOf
  <2>. QED BY <2>1, <2>2, <2>3, CompleteOpen, AnswerSimulates
<1>5. CASE irpsToCancel # <<>> /\ i = Head(irpsToCancel) /\ CancelAllComplete
  <2>1. /\ Complete(i, "cancelled")
        /\ UNCHANGED <<given, pendingIrps, pendingItems>>
    BY <1>5 DEF CancelAllComplete
  <2>2. i \in Range(irpsToCancel)
    BY <1>5, TailList DEF IInv, TypeOK, QueueInv
  <2>3. irp[i] = "pending" /\ given[i] = <<>> /\ i \notin Range(pendingIrps)
    BY <2>2 DEF IInv, IrpInv, HeldOnce
  <2>4. Phase(i) = "cancelled"
    BY <2>3, PhaseOf
  <2>. QED BY <2>1, <2>3, <2>4, CompleteOpen, AnswerSimulates
<1>. QED BY <1>1, <1>2, <1>3, <1>4, <1>5

LEMMA WaitTakesSimulates ==
    ASSUME IInv, IInv', NEW i \in Irps, WaitTakes(i)
    PROVE  \E n \in 1..Len(pendingItems) : Channel!TakeBatch(i, n)
<1>1. /\ irp[i] = "new" /\ pendingItems # <<>>
      /\ irp' = [irp EXCEPT ![i] = "dispatched"]
      /\ given' = [given EXCEPT ![i] = Batch]
      /\ pendingItems' = SubSeq(pendingItems, Len(Batch) + 1, Len(pendingItems))
      /\ pendingIrps' = pendingIrps
  BY DEF WaitTakes
<1>2. PICK n \in 1..Len(pendingItems) :
         n <= MaxItems /\ Batch = SubSeq(pendingItems, 1, n)
  BY <1>1, BatchIsPrefix DEF IInv
<1>3. Len(Batch) = n
  <2>1. pendingItems \in Seq(Handles) /\ Len(pendingItems) \in Nat
    BY LenProperties DEF IInv, TypeOK
  <2>. QED BY <1>2, <2>1, SliceList
<1>4. /\ \A j \in Irps : irp'[j] = IF j = i THEN "dispatched" ELSE irp[j]
      /\ \A j \in Irps : j # i => given'[j] = given[j]
  BY <1>1 DEF IInv, TypeOK
<1>5. Phase(i)' = "served"
  <2>1. irp'[i] = "dispatched"
    BY <1>4
  <2>2. given'[i] # <<>> /\ i \notin Range(pendingIrps')
    BY <2>1 DEF IInv, IrpInv, HeldOnce
  <2>. QED BY <2>1, <2>2 DEF Phase
<1>6. \A j \in Irps : j # i => Phase(j)' = Phase(j)
  BY <1>1, <1>4, SamePhase
<1>7. [j \in Irps |-> Phase(j)]'
      = [[j \in Irps |-> Phase(j)] EXCEPT ![i] = "served"]
  BY <1>5, <1>6
<1>8. Phase(i) = "new"
  BY <1>1, PhaseOf
<1>. QED BY <1>1, <1>2, <1>3, <1>7, <1>8 DEF Channel!TakeBatch

LEMMA WaitPendsSimulates ==
    ASSUME IInv, IInv', NEW i \in Irps, WaitPends(i)
    PROVE  Channel!Park(i)
<1>1. /\ irp[i] = "new" /\ pendingItems = <<>>
      /\ irp' = [irp EXCEPT ![i] = "pending"]
      /\ pendingIrps' = Append(pendingIrps, i)
      /\ given' = given /\ pendingItems' = pendingItems
  BY DEF WaitPends, MayPend
<1>2. Range(pendingIrps') = Range(pendingIrps) \cup {i}
  BY <1>1, AppendList DEF IInv, TypeOK
<1>3. \A j \in Irps : irp'[j] = IF j = i THEN "pending" ELSE irp[j]
  BY <1>1 DEF IInv, TypeOK
<1>4. Phase(i)' = "parked"
  BY <1>2, <1>3 DEF Phase
<1>5. \A j \in Irps : j # i => Phase(j)' = Phase(j)
  BY <1>1, <1>2, <1>3, SamePhase
<1>6. [j \in Irps |-> Phase(j)]'
      = [[j \in Irps |-> Phase(j)] EXCEPT ![i] = "parked"]
  BY <1>4, <1>5
<1>7. Phase(i) = "new"
  BY <1>1, PhaseOf
<1>. QED BY <1>1, <1>6, <1>7 DEF Channel!Park

\* Requests taken off the list to be cancelled are given up.
LEMMA GiveUpSimulates ==
    ASSUME IInv, IInv', NEW T \in SUBSET Irps,
           T \subseteq Range(pendingIrps),
           Range(pendingIrps') = Range(pendingIrps) \ T,
           UNCHANGED <<irp, given, pendingItems>>
    PROVE  Channel!GiveUp(T)
<1>1. ASSUME NEW j \in T PROVE Phase(j)' = "cancelled"
  <2>1. irp[j] = "pending" /\ given[j] = <<>>
    BY DEF IInv, IrpInv, HeldOnce
  <2>. QED BY <2>1 DEF Phase
<1>2. \A j \in Irps : j \notin T => Phase(j)' = Phase(j)
  BY SamePhase
<1>3. [j \in Irps |-> Phase(j)]'
      = [j \in Irps |-> IF j \in T THEN "cancelled" ELSE [k \in Irps |-> Phase(k)][j]]
  BY <1>1, <1>2
<1>4. T \subseteq Channel!Parked
  BY ChannelSets
<1>. QED BY <1>3, <1>4 DEF Channel!GiveUp

LEMMA NextSimulates ==
    IInv /\ IInv' /\ [Next]_vars => [Channel!ChannelNext]_(Channel!channelVars)
<1>. SUFFICES ASSUME IInv, IInv', [Next]_vars
              PROVE  Channel!ChannelNext \/ UNCHANGED Channel!channelVars
  OBVIOUS
<1>1. CASE \/ \E h \in Handles : RegisterNotificationEvent(h) \/ PostFails(h)
           \/ \E i \in Irps : IoCancelIrp(i) \/ CancelLookup(i)
           \/ Stop \/ Cleanup \/ UNCHANGED vars
  <2>1. UNCHANGED <<irp, given, pendingIrps, pendingItems>>
    BY <1>1 DEF RegisterNotificationEvent, PostFails, IoCancelIrp, CancelLookup,
                Stop, Cleanup, vars, clientVars, queueVars, irpVars
  <2>. QED BY <2>1, StutterSimulates
<1>2. CASE \E h \in Handles : PostToWait(h) \/ PostToQueue(h)
  BY <1>2, PostSimulates DEF Channel!ChannelNext
<1>3. CASE \E h \in Handles : CompletePosted(h)
  <2>1. PICK h \in Handles : CompletePosted(h)
    BY <1>3
  <2>2. post[h].irp \in Irps
    BY <2>1 DEF CompletePosted, IInv, TypeOK, HandleInv
  <2>. QED BY <2>1, <2>2, CompletingSimulates DEF Channel!ChannelNext
<1>4. CASE \E i \in Irps : CompleteTaken(i) \/ WaitFails(i) \/ CancelComplete(i)
  BY <1>4, CompletingSimulates DEF Channel!ChannelNext
<1>5. CASE CancelAllComplete
  <2>1. irpsToCancel # <<>> /\ Head(irpsToCancel) \in Irps
    BY <1>5, TailList DEF CancelAllComplete, IInv, TypeOK, QueueInv
  <2>. QED BY <1>5, <2>1, CompletingSimulates DEF Channel!ChannelNext
<1>6. CASE \E i \in Irps : WaitTakes(i)
  BY <1>6, WaitTakesSimulates DEF Channel!ChannelNext
<1>7. CASE \E i \in Irps : WaitPends(i)
  BY <1>7, WaitPendsSimulates DEF Channel!ChannelNext
<1>8. CASE \E i \in Irps : CancelSearch(i)
  <2>1. PICK i \in Irps : CancelSearch(i)
    BY <1>8
  <2>2. /\ pendingIrps' = IF i \in Range(pendingIrps) THEN Without(pendingIrps, i)
                                                      ELSE pendingIrps
        /\ UNCHANGED <<irp, given, pendingItems>>
    BY <2>1 DEF CancelSearch, irpVars
  <2>3. CASE i \in Range(pendingIrps)
    <3>1. Range(pendingIrps') = Range(pendingIrps) \ {i}
      BY <2>2, <2>3, WithoutList DEF IInv, TypeOK, QueueInv
    <3>2. Channel!GiveUp({i})
      BY <2>2, <2>3, <3>1, GiveUpSimulates
    <3>. QED BY <3>2 DEF Channel!ChannelNext
  <2>4. CASE i \notin Range(pendingIrps)
    BY <2>2, <2>4, StutterSimulates
  <2>. QED BY <2>3, <2>4
<1>9. CASE CancelAllDetach
  <2>1. pendingIrps' = <<>> /\ UNCHANGED <<irp, given, pendingItems>>
    BY <1>9 DEF CancelAllDetach, irpVars
  <2>2. PICK T \in SUBSET Irps : T = Range(pendingIrps)
    BY SeqRange DEF IInv, TypeOK
  <2>3. Channel!GiveUp(T)
    BY <2>1, <2>2, EmptyList, GiveUpSimulates
  <2>. QED BY <2>3 DEF Channel!ChannelNext
<1>. QED BY <1>1, <1>2, <1>3, <1>4, <1>5, <1>6, <1>7, <1>8, <1>9
         DEF Next, Posting, Waiting, Cancelling, CancellingAll

\* The handle queue implements the channel: every step of the driver's threads
\* is one of the channel's, or one the channel does not see.
THEOREM ChannelImplemented == Spec => ImplementsChannel
<1>1. Init => Channel!ChannelInit
  BY InitSimulates
<1>2. IInv /\ IInv' /\ [Next]_vars => [Channel!ChannelNext]_(Channel!channelVars)
  BY NextSimulates
<1>. QED BY <1>1, <1>2, Invariance, PTL DEF Spec, ImplementsChannel, Channel!ChannelSpec

=============================================================================
