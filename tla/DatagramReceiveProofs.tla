------------------------ MODULE DatagramReceiveProofs -----------------------
(***************************************************************************)
(* Datagram receives for every number of sockets and buffers: flights and  *)
(* the kernel agree, stops are final, waits are registered, no member and  *)
(* no buffer is forgotten, and the thread does not sleep on work.          *)
(***************************************************************************)
EXTENDS DatagramReceive, FiniteSetTheorems, TLAPS

Flying == {"Armed", "Probing", "CancelDeferred", "Cancelling"}
Stopped == {"CancelDeferred", "Cancelling", "Idle"}

\* Only the last completion of an operation is marked so, whatever is not a
\* datagram is the last one, and there are no more datagrams than buffers.
EntryInv(m) ==
  \A i \in 1..Len(cq[m]) :
    /\ IF cq[m][i].kind = "Data" THEN i <= Buffers ELSE cq[m][i].flow = "Last"
    /\ cq[m][i].flow = "Last" => i = Len(cq[m]) /\ ~op[m]

\* A flight stands for an operation that runs or whose end is undelivered.
FlightInv(m) ==
  loop # "aborted" =>
    /\ flight[m] <=> phase[m] \in Flying
    /\ IF flight[m]
         THEN op[m] \/ (cq[m] # <<>> /\ cq[m][Len(cq[m])].flow = "Last")
         ELSE ~op[m] /\ cq[m] = <<>>

\* The attempt of a probe, and the registration of a receive without buffers.
PermitInv(m) ==
  /\ retry[m] => phase[m] \in {"Ready", "ProbeDeferred"}
  /\ phase[m] = "ProbeDeferred" => retry[m]
  /\ permit[m] = "queued" /\ (\E i \in 1..Len(cq[m]) : cq[m][i].kind = "Exhausted")
       => avail = 0
  /\ phase[m] = "Waiting" => \/ permit[m] = "queued" /\ avail = 0
                             \/ permit[m] = "parked" /\ m \in ready

StopInv(m) ==
  IF accepting[m] THEN phase[m] \notin Stopped
  ELSE /\ phase[m] \in Stopped
       /\ permit[m] = "vacant" /\ ~retry[m]
       /\ phase[m] = "Cancelling" /\ op[m] => cancel[m]

LocalInv(m) == EntryInv(m) /\ FlightInv(m) /\ PermitInv(m) /\ StopInv(m)

\* The members of a group stop together, and none of them is forgotten.
GroupInv ==
  /\ Grouped => \A m, p \in Members : accepting[m] = accepting[p]
  /\ NoForgottenMember

\* Between pre_park and the wait: what was not armed is known to the thread.
ParkInv ==
  /\ loop \in {"dispatch", "activate"} => todo = Members
  /\ loop \in {"prepark", "idle"} =>
       /\ Grouped /\ deferred /\ (\A m \in Members : accepting[m]) => refused
       /\ ~Grouped /\ ~Shared =>
            \A m \in Members :
              accepting[m] /\ phase[m] = "Deferred" /\ (m \notin todo \/ loop = "idle")
                => refused \/ spent

\* While the thread is blocked.
BlockedInv ==
  loop = "blocked" /\ (Grouped \/ ~Shared) =>
    \A m \in Members :
      \/ cq[m] # <<>>
      \/ IF accepting[m]
           THEN op[m] \/ (phase[m] = "Waiting" /\ permit[m] = "queued"
                            /\ avail = 0 /\ returned = 0)
           ELSE phase[m] = "Idle" \/ (op[m] /\ cancel[m])

\* The end of the run stops everybody.
EndInv ==
  /\ stopping => \A m \in Members : ~accepting[m]
  /\ loop = "finished" => \A m \in Members : ~flight[m]

IInv ==
  /\ NoBufferLost
  /\ \A m \in Members : LocalInv(m)
  /\ GroupInv /\ ParkInv /\ BlockedInv /\ EndInv
-----------------------------------------------------------------------------
(* Facts about single steps.                                               *)

\* The invariants of a socket that a step leaves alone are kept.
LEMMA LocalKept ==
  ASSUME NEW m \in Members, LocalInv(m), UNCHANGED setup,
         phase'[m] = phase[m], flight'[m] = flight[m], retry'[m] = retry[m],
         accepting'[m] = accepting[m], permit'[m] = permit[m], op'[m] = op[m],
         cancel'[m] = cancel[m], cq'[m] = cq[m],
         loop = "aborted" => loop' = "aborted",
         avail = 0 => avail' = 0, m \in ready => m \in ready'
  PROVE  LocalInv(m)'
<1>1. EntryInv(m)'
  BY DEF LocalInv, EntryInv, Buffers
<1>2. FlightInv(m)'
  BY DEF LocalInv, FlightInv
<1>3. PermitInv(m)'
  BY DEF LocalInv, PermitInv
<1>4. StopInv(m)'
  BY DEF LocalInv, StopInv
<1> QED BY <1>1, <1>2, <1>3, <1>4 DEF LocalInv

\* What taking the first element leaves of a sequence.
LEMMA TailShifts ==
  ASSUME NEW S, NEW s \in Seq(S), s # <<>>
  PROVE  /\ Len(s) \in Nat /\ Len(s) > 0 /\ 1 \in 1..Len(s)
         /\ Head(s) = s[1] /\ Head(s) \in S
         /\ Tail(s) \in Seq(S) /\ Len(Tail(s)) = Len(s) - 1
         /\ \A i \in 1..(Len(s) - 1) : Tail(s)[i] = s[i + 1] /\ i + 1 \in 1..Len(s)
         /\ Len(s) = 1 => Tail(s) = <<>>
<1>1. Len(s) \in Nat /\ Len(s) > 0 /\ Head(s) = s[1] /\ Head(s) \in S
  OBVIOUS
<1>2. Tail(s) \in Seq(S) /\ Len(Tail(s)) = Len(s) - 1
  OBVIOUS
<1>3. \A i \in 1..(Len(s) - 1) : Tail(s)[i] = s[i + 1] /\ i + 1 \in 1..Len(s)
  BY <1>1, <1>2
<1>4. ASSUME NEW t \in Seq(S), Len(t) = 0 PROVE t = <<>>
  BY <1>4
<1>5. ASSUME Len(s) = 1 PROVE Tail(s) = <<>>
  <2>1. Len(Tail(s)) = 0
    BY <1>2, <1>5
  <2> QED BY <1>2, <1>4, <2>1, Zenon
<1> QED BY <1>1, <1>2, <1>3, <1>5

\* The completions of a socket once the first of them is taken.
LEMMA PopShifts ==
  ASSUME TypeOK, NEW m \in Members, cq[m] # <<>>, EntryInv(m),
         cq' = [cq EXCEPT ![m] = Tail(@)]
  PROVE  /\ cq[m] \in Seq(Entry) /\ Len(cq[m]) \in Nat /\ Len(cq[m]) > 0
         /\ Head(cq[m]) = cq[m][1] /\ Head(cq[m]) \in Entry
         /\ cq'[m] \in Seq(Entry) /\ Len(cq'[m]) = Len(cq[m]) - 1
         /\ \A i \in 1..Len(cq'[m]) : cq'[m][i] = cq[m][i + 1] /\ i + 1 \in 1..Len(cq[m])
         /\ Head(cq[m]).flow = "Last" => cq'[m] = <<>> /\ ~op[m]
         /\ Head(cq[m]).flow # "Last" => Head(cq[m]).kind = "Data"
         /\ \A p \in Members \ {m} : cq'[p] = cq[p]
<1>1. cq[m] \in Seq(Entry) /\ cq'[m] = Tail(cq[m]) /\ \A p \in Members \ {m} : cq'[p] = cq[p]
  BY DEF TypeOK
<1>2. /\ Len(cq[m]) \in Nat /\ Len(cq[m]) > 0 /\ 1 \in 1..Len(cq[m])
      /\ Head(cq[m]) = cq[m][1] /\ Head(cq[m]) \in Entry
      /\ cq'[m] \in Seq(Entry) /\ Len(cq'[m]) = Len(cq[m]) - 1
      /\ \A i \in 1..(Len(cq[m]) - 1) :
           cq'[m][i] = cq[m][i + 1] /\ i + 1 \in 1..Len(cq[m])
      /\ Len(cq[m]) = 1 => cq'[m] = <<>>
  <2> DEFINE s == cq[m]
             t == cq'[m]
  <2>1. s \in Seq(Entry) /\ s # <<>> /\ t = Tail(s)
    BY <1>1
  <2> HIDE DEF s, t
  <2>2. /\ Len(s) \in Nat /\ Len(s) > 0 /\ 1 \in 1..Len(s) /\ Head(s) = s[1] /\ Head(s) \in Entry
        /\ t \in Seq(Entry) /\ Len(t) = Len(s) - 1
        /\ \A i \in 1..(Len(s) - 1) : t[i] = s[i + 1] /\ i + 1 \in 1..Len(s)
        /\ Len(s) = 1 => t = <<>>
    BY <2>1, TailShifts
  <2> QED BY <2>2 DEF s, t
<1>3. /\ cq[m][1].kind # "Data" => cq[m][1].flow = "Last"
      /\ cq[m][1].flow = "Last" => 1 = Len(cq[m]) /\ ~op[m]
  BY <1>2 DEF EntryInv
<1>4. Head(cq[m]).flow = "Last" => cq'[m] = <<>> /\ ~op[m]
  BY <1>2, <1>3
<1>5. Head(cq[m]).flow # "Last" => Head(cq[m]).kind = "Data"
  BY <1>2, <1>3
<1> QED BY <1>1, <1>2, <1>4, <1>5

\* Before the last completion is taken the rest still ends with it.
LEMMA PopLeavesLast ==
  ASSUME TypeOK, NEW m \in Members, cq[m] # <<>>, EntryInv(m),
         cq' = [cq EXCEPT ![m] = Tail(@)],
         Head(cq[m]).flow # "Last", cq[m][Len(cq[m])].flow = "Last"
  PROVE  cq'[m] # <<>> /\ cq'[m][Len(cq'[m])].flow = "Last"
<1> DEFINE n == Len(cq[m])
           k == Len(cq'[m])
<1>1. n \in Nat /\ n > 0 /\ k = n - 1 /\ n # 1
  BY PopShifts
<1>2. /\ \A i \in 1..k : cq'[m][i] = cq[m][i + 1]
      /\ cq[m][n].flow = "Last"
      /\ cq'[m] \in Seq(Entry)
  BY PopShifts
<1> HIDE DEF n, k
<1>3. k \in 1..k /\ k + 1 = n
  BY <1>1
<1>4. cq'[m][k].flow = "Last"
  BY <1>2, <1>3
<1>5. ASSUME NEW t \in Seq(Entry), Len(t) # 0 PROVE t # <<>>
  BY <1>5
<1>6. k # 0
  BY <1>3
<1> QED BY <1>2, <1>4, <1>5, <1>6, Zenon DEF k

\* An element of the queue makes it nonempty.
LEMMA NonEmpty ==
  ASSUME NEW s, NEW i \in 1..Len(s)
  PROVE  s # <<>>
OBVIOUS

\* A member that joins the queue.
LEMMA AppendKeeps ==
  ASSUME NEW q \in Seq(Members), IsInjective(q), NEW m \in Members, ~Contains(q, m)
  PROVE  /\ Append(q, m) \in Seq(Members) /\ IsInjective(Append(q, m))
         /\ \A p \in Members : Contains(q, p) => Contains(Append(q, m), p)
         /\ Contains(Append(q, m), m)
<1> DEFINE r == Append(q, m)
<1>1. /\ r \in Seq(Members) /\ Len(q) \in Nat /\ Len(r) = Len(q) + 1
      /\ r[Len(q) + 1] = m /\ DOMAIN r = 1..Len(r) /\ DOMAIN q = 1..Len(q)
      /\ \A i \in 1..Len(q) : r[i] = q[i]
  OBVIOUS
<1>2. \A i \in 1..Len(q) : q[i] # m
  BY DEF Contains
<1> HIDE DEF r
<1>3. IsInjective(r)
  <2> SUFFICES ASSUME NEW a \in 1..Len(r), NEW b \in 1..Len(r), r[a] = r[b]
               PROVE  a = b
    BY <1>1 DEF IsInjective
  <2>1. CASE a \in 1..Len(q) /\ b \in 1..Len(q)
    BY <2>1, <1>1 DEF IsInjective
  <2>2. CASE ~(a \in 1..Len(q) /\ b \in 1..Len(q))
    BY <2>2, <1>1, <1>2
  <2> QED BY <2>1, <2>2
<1>4. \A p \in Members : Contains(q, p) => Contains(r, p)
  <2> SUFFICES ASSUME NEW p \in Members, NEW i \in 1..Len(q), q[i] = p
               PROVE  Contains(r, p)
    BY DEF Contains
  <2>1. i \in 1..Len(r) /\ r[i] = p
    BY <1>1
  <2> QED BY <2>1 DEF Contains
<1>5. Contains(r, m)
  <2>1. Len(q) + 1 \in 1..Len(r)
    BY <1>1
  <2> QED BY <1>1, <2>1 DEF Contains
<1> QED BY <1>1, <1>3, <1>4, <1>5 DEF r

\* What group::mark makes of the queue.
LEMMA MarkedKeeps ==
  ASSUME NEW m \in Members, queue \in Seq(Members), IsInjective(queue)
  PROVE  /\ Marked(queue, m) \in Seq(Members) /\ IsInjective(Marked(queue, m))
         /\ \A p \in Members : Contains(queue, p) => Contains(Marked(queue, m), p)
         /\ Grouped => Contains(Marked(queue, m), m)
<1>1. CASE Grouped /\ ~Contains(queue, m)
  BY <1>1, AppendKeeps DEF Marked
<1>2. CASE ~(Grouped /\ ~Contains(queue, m))
  <2>1. Marked(queue, m) = queue
    BY <1>2 DEF Marked
  <2> QED BY <1>2, <2>1
<1> QED BY <1>1, <1>2

\* What taking the first member leaves of the queue.
LEMMA TailKeeps ==
  ASSUME queue \in Seq(Members), IsInjective(queue), queue # <<>>
  PROVE  /\ Tail(queue) \in Seq(Members) /\ IsInjective(Tail(queue))
         /\ Head(queue) \in Members
         /\ ~Contains(Tail(queue), Head(queue))
         /\ \A p \in Members :
              Contains(queue, p) /\ p # Head(queue) => Contains(Tail(queue), p)
<1> DEFINE q == Tail(queue)
<1>1. /\ q \in Seq(Members) /\ Len(queue) \in Nat /\ Len(q) = Len(queue) - 1
      /\ DOMAIN q = 1..Len(q) /\ DOMAIN queue = 1..Len(queue)
      /\ Len(queue) > 0 /\ Head(queue) = queue[1] /\ Head(queue) \in Members
      /\ \A i \in 1..Len(q) : q[i] = queue[i + 1]
  BY TailShifts
<1> HIDE DEF q
<1>2. \A a, b \in 1..Len(queue) : queue[a] = queue[b] => a = b
  BY <1>1 DEF IsInjective
<1>3. \A i \in 1..Len(q) : i + 1 \in 1..Len(queue)
  BY <1>1
<1>4. IsInjective(q)
  <2> SUFFICES ASSUME NEW a \in 1..Len(q), NEW b \in 1..Len(q), q[a] = q[b]
               PROVE  a = b
    BY <1>1 DEF IsInjective
  <2>1. a + 1 = b + 1
    BY <1>1, <1>2, <1>3
  <2> QED BY <2>1
<1>5. ~Contains(q, Head(queue))
  <2> SUFFICES ASSUME NEW i \in 1..Len(q), q[i] = queue[1] PROVE FALSE
    BY <1>1 DEF Contains
  <2>1. i + 1 = 1
    BY <1>1, <1>2, <1>3
  <2> QED BY <2>1
<1>6. \A p \in Members : Contains(queue, p) /\ p # Head(queue) => Contains(q, p)
  <2> SUFFICES ASSUME NEW p \in Members, NEW i \in 1..Len(queue), queue[i] = p,
                      p # queue[1]
               PROVE  Contains(q, p)
    BY <1>1 DEF Contains
  <2>1. i - 1 \in 1..Len(q) /\ (i - 1) + 1 = i
    BY <1>1
  <2>2. q[i - 1] = p
    BY <1>1, <2>1
  <2> QED BY <2>1, <2>2 DEF Contains
<1> QED BY <1>1, <1>4, <1>5, <1>6 DEF q

\* Completions that change nothing of what is carried.
LEMMA CarriedSame ==
  ASSUME UNCHANGED setup, cq' = cq
  PROVE  Carried' = Carried
BY DEF Carried, Buffers

\* The carried buffers are finitely many.
LEMMA CarriedFinite ==
  ASSUME TypeOK
  PROVE  /\ IsFiniteSet(Carried) /\ Cardinality(Carried) \in Nat
         /\ Buffers \in Nat /\ Buffers > 0
<1>1. Buffers \in Nat /\ Buffers > 0
  BY SetupAssumption DEF TypeOK, Buffers
<1>2. IsFiniteSet(1..Buffers)
  BY <1>1, FS_Interval
<1>3. IsFiniteSet(Members \X (1..Buffers))
  BY <1>2, MembersAssumption, FS_Product
<1>4. Carried \in SUBSET (Members \X (1..Buffers))
  BY DEF Carried
<1>5. IsFiniteSet(Carried)
  BY <1>3, <1>4, FS_Subset
<1> QED BY <1>1, <1>5, FS_CardinalityType

\* A completion that is taken carries its buffer away.
LEMMA CarriedPop ==
  ASSUME TypeOK, UNCHANGED setup, NEW m \in Members, cq[m] # <<>>, EntryInv(m),
         cq' = [cq EXCEPT ![m] = Tail(@)]
  PROVE  Cardinality(Carried') =
           IF Head(cq[m]).kind = "Data" THEN Cardinality(Carried) - 1
                                        ELSE Cardinality(Carried)
<1> DEFINE n == Len(cq[m])
           k == IF cq[m][n].kind = "Data" THEN n ELSE n - 1
<1>1. /\ n \in Nat /\ n > 0 /\ 1 \in 1..n /\ n \in 1..n
      /\ Head(cq[m]) = cq[m][1]
      /\ Len(cq'[m]) = n - 1
      /\ \A i \in 1..(n - 1) : cq'[m][i] = cq[m][i + 1] /\ i + 1 \in 1..n
      /\ \A p \in Members \ {m} : cq'[p] = cq[p]
  <2>1. /\ Len(cq[m]) \in Nat /\ Len(cq[m]) > 0 /\ Head(cq[m]) = cq[m][1]
        /\ Len(cq'[m]) = Len(cq[m]) - 1
        /\ \A i \in 1..Len(cq'[m]) :
             cq'[m][i] = cq[m][i + 1] /\ i + 1 \in 1..Len(cq[m])
        /\ \A p \in Members \ {m} : cq'[p] = cq[p]
    BY PopShifts
  <2>2. n \in Nat /\ n > 0 /\ Len(cq'[m]) = n - 1
    BY <2>1
  <2>3. 1 \in 1..n /\ n \in 1..n
    BY <2>2
  <2> QED BY <2>1, <2>2, <2>3
<1>2. Buffers' = Buffers /\ Buffers \in Nat
  BY CarriedFinite DEF Buffers
<1>3. \A i \in 1..n : cq[m][i].kind = "Data" <=> i <= k
  <2> SUFFICES ASSUME NEW i \in 1..n PROVE cq[m][i].kind = "Data" <=> i <= k
    OBVIOUS
  <2>1. CASE i = n
    BY <2>1, <1>1
  <2>2. CASE i # n
    <3>1. i < n /\ i <= k
      BY <2>2, <1>1
    <3>2. cq[m][i].kind = "Data"
      BY <2>2, <1>1 DEF EntryInv
    <3> QED BY <3>1, <3>2
  <2> QED BY <2>1, <2>2
<1>4. k \in Nat /\ k <= n /\ k <= Buffers /\ n - 1 <= k
  <2>1. k \in Nat /\ k <= n /\ n - 1 <= k
    BY <1>1
  <2>2. CASE k = 0
    BY <2>2, <1>2
  <2>3. CASE k # 0
    <3>1. k \in 1..n
      <4> HIDE DEF k, n
      <4> QED BY <2>1, <2>3, <1>1
    <3>2. cq[m][k].kind = "Data"
      BY <3>1, <1>3
    <3> QED BY <3>1, <3>2, <2>1 DEF EntryInv
  <2> QED BY <2>2, <2>3, <2>1
<1> HIDE DEF k, n
<1>5. Carried' = Carried \ {<<m, k>>}
  <2>1. Carried' = {x \in Members \X (1..Buffers) :
                      x[2] <= Len(cq'[x[1]]) /\ cq'[x[1]][x[2]].kind = "Data"}
    BY <1>2 DEF Carried
  <2>2. ASSUME NEW p \in Members, NEW i \in 1..Buffers
        PROVE  <<p, i>> \in Carried' <=> <<p, i>> \in Carried /\ <<p, i>> # <<m, k>>
    <3>1. /\ <<p, i>> \in Carried' <=> i <= Len(cq'[p]) /\ cq'[p][i].kind = "Data"
          /\ <<p, i>> \in Carried <=> i <= Len(cq[p]) /\ cq[p][i].kind = "Data"
      BY <2>1 DEF Carried
    <3>2. CASE p # m
      BY <3>1, <3>2, <1>1
    <3>3. CASE p = m
      <4>1. <<p, i>> \in Carried <=> i <= k
        BY <3>1, <3>3, <1>1, <1>2, <1>3, <1>4 DEF n
      <4>2. <<p, i>> \in Carried' <=> i <= n - 1 /\ i + 1 <= k
        BY <3>1, <3>3, <1>1, <1>2, <1>3, <1>4
      <4> QED BY <4>1, <4>2, <3>3, <1>1, <1>2, <1>4
    <3> QED BY <3>2, <3>3
  <2>3. Carried' \subseteq Members \X (1..Buffers) /\ Carried \subseteq Members \X (1..Buffers)
    BY <2>1 DEF Carried
  <2> QED BY <2>2, <2>3
<1>6. <<m, k>> \in Carried <=> k # 0
  BY <1>1, <1>2, <1>3, <1>4 DEF Carried, n
<1>7. k # 0 <=> Head(cq[m]).kind = "Data"
  BY <1>1, <1>3, <1>4
<1> QED BY <1>5, <1>6, <1>7, CarriedFinite, FS_RemoveElement

\* A datagram that is posted takes a buffer with it.
LEMMA CarriedPost ==
  ASSUME TypeOK, UNCHANGED setup, NEW m \in Members, EntryInv(m), op[m],
         NEW kind, NEW flow,
         cq' = [cq EXCEPT ![m] = Append(@, [kind |-> kind, flow |-> flow])],
         kind = "Data" => Cardinality(Carried) < Buffers
  PROVE  /\ Cardinality(Carried') =
              IF kind = "Data" THEN Cardinality(Carried) + 1 ELSE Cardinality(Carried)
         /\ kind = "Data" => Len(cq[m]) + 1 <= Buffers
<1> DEFINE n == Len(cq[m]) + 1
           e == [kind |-> kind, flow |-> flow]
<1>1. /\ n \in Nat /\ n > 0 /\ Len(cq[m]) = n - 1 /\ Len(cq'[m]) = n
      /\ cq'[m][n] = e /\ \A i \in 1..(n - 1) : cq'[m][i] = cq[m][i]
      /\ \A p \in Members \ {m} : cq'[p] = cq[p]
  <2>1. cq[m] \in Seq(Entry) /\ cq'[m] = Append(cq[m], e)
    BY DEF TypeOK
  <2>2. \A p \in Members \ {m} : cq'[p] = cq[p]
    BY DEF TypeOK
  <2> HIDE DEF e
  <2> QED BY <2>1, <2>2
<1>2. Buffers' = Buffers /\ Buffers \in Nat
  BY CarriedFinite DEF Buffers
<1>3. e.kind = kind
  OBVIOUS
<1> HIDE DEF e
<1>4. \A i \in 1..(n - 1) : cq[m][i].kind = "Data"
  BY <1>1 DEF EntryInv
<1>5. ASSUME kind = "Data" PROVE n <= Buffers
  <2> SUFFICES ASSUME Buffers < n PROVE FALSE
    BY <1>1, <1>2
  <2> DEFINE row == {m} \X (1..Buffers)
  <2>1. row \in SUBSET Carried
    BY <1>1, <1>2, <1>4 DEF Carried
  <2>2. IsFiniteSet({m}) /\ Cardinality({m}) = 1
    BY FS_Singleton
  <2>3. IsFiniteSet(1..Buffers) /\ Cardinality(1..Buffers) = Buffers
    BY <1>2, FS_Interval
  <2>4. Cardinality(row) = Cardinality({m}) * Cardinality(1..Buffers)
    BY <2>2, <2>3, FS_Product
  <2>5. Cardinality(row) <= Cardinality(Carried)
    BY <2>1, CarriedFinite, FS_Subset
  <2> HIDE DEF row
  <2>6. Cardinality(row) = Buffers
    BY <2>2, <2>3, <2>4, <1>2
  <2> QED BY <2>5, <2>6, <1>2, <1>5, CarriedFinite
<1> HIDE DEF n
<1>6. Carried' = {x \in Members \X (1..Buffers) :
                    x[2] <= Len(cq'[x[1]]) /\ cq'[x[1]][x[2]].kind = "Data"}
  BY <1>2 DEF Carried
<1>7. ASSUME NEW p \in Members, NEW i \in 1..Buffers
      PROVE  <<p, i>> \in Carried' <=>
               <<p, i>> \in Carried \/ (kind = "Data" /\ p = m /\ i = n)
  <2>1. /\ <<p, i>> \in Carried' <=> i <= Len(cq'[p]) /\ cq'[p][i].kind = "Data"
        /\ <<p, i>> \in Carried <=> i <= Len(cq[p]) /\ cq[p][i].kind = "Data"
    BY <1>6 DEF Carried
  <2>2. CASE p # m
    BY <2>1, <2>2, <1>1
  <2>3. CASE p = m /\ i = n
    BY <2>1, <2>3, <1>1, <1>3
  <2>4. CASE p = m /\ i # n
    BY <2>1, <2>4, <1>1, <1>2
  <2> QED BY <2>2, <2>3, <2>4
<1>8. Carried' \subseteq Members \X (1..Buffers) /\ Carried \subseteq Members \X (1..Buffers)
  BY <1>6 DEF Carried
<1>9. CASE kind = "Data"
  <2>1. n \in 1..Buffers
    BY <1>1, <1>2, <1>5, <1>9
  <2>2. Carried' = Carried \cup {<<m, n>>}
    BY <1>7, <1>8, <1>9, <2>1
  <2>3. <<m, n>> \notin Carried
    BY <1>1 DEF Carried
  <2>4. Cardinality(Carried') = Cardinality(Carried) + 1
    BY <2>2, <2>3, CarriedFinite, FS_AddElement
  <2> QED BY <1>9, <2>4, <1>5 DEF n
<1>10. CASE kind # "Data"
  <2>1. \A p \in Members, i \in 1..Buffers : <<p, i>> \in Carried' <=> <<p, i>> \in Carried
    BY <1>7, <1>10
  <2>2. ASSUME NEW C \in SUBSET (Members \X (1..Buffers)),
               NEW D \in SUBSET (Members \X (1..Buffers)),
               \A p \in Members, i \in 1..Buffers : <<p, i>> \in C <=> <<p, i>> \in D
        PROVE  C = D
    BY <2>2
  <2>3. Carried' = Carried
    BY <1>8, <2>1, <2>2
  <2> QED BY <1>10, <2>3
<1> QED BY <1>9, <1>10

\* Buffers that change hands are not lost: d of them leave the completions.
LEMMA BuffersMove ==
  ASSUME NoBufferLost, TypeOK', UNCHANGED setup, NEW d \in Int,
         avail' + leased' + returned' = avail + leased + returned + d,
         Cardinality(Carried') = Cardinality(Carried) - d
  PROVE  NoBufferLost'
<1>1. TypeOK /\ avail + leased + returned + Cardinality(Carried) = Buffers
  BY DEF NoBufferLost
<1>2. Buffers' = Buffers /\ Buffers \in Nat /\ Cardinality(Carried) \in Nat
  BY <1>1, CarriedFinite DEF Buffers
<1>3. /\ avail \in Nat /\ leased \in Nat /\ returned \in Nat
      /\ avail' \in Nat /\ leased' \in Nat /\ returned' \in Nat
  BY <1>1 DEF TypeOK
<1>4. \A s, c \in Int : (s + d) + (c - d) = s + c
  OBVIOUS
<1>5. avail + leased + returned \in Int /\ Cardinality(Carried) \in Int
  BY <1>2, <1>3
<1>6. (avail + leased + returned + d) + (Cardinality(Carried) - d) = Buffers
  BY <1>1, <1>4, <1>5
<1>7. avail' + leased' + returned' + Cardinality(Carried') = Buffers
  BY <1>6
<1> QED BY <1>2, <1>7 DEF NoBufferLost

-----------------------------------------------------------------------------
(* Completions.                                                            *)

\* A completion is taken from a socket's flight.  The rest is what the phase
\* ph, the registration pm and the attempt rt after it have to satisfy.
LEMMA PopKeeps ==
  ASSUME IInv, UNCHANGED setup, NEW m \in Members,
         loop = "dispatch", cq[m] # <<>>,
         UNCHANGED <<accepting, ready, deferred, turnVars, op, cancel, avail>>,
         NEW ph \in arm!Phase, NEW pm \in slot!Slot, NEW rt \in BOOLEAN,
         cq' = [cq EXCEPT ![m] = Tail(@)],
         flight' = [flight EXCEPT ![m] = Head(cq[m]).flow # "Last"],
         phase' = [phase EXCEPT ![m] = ph],
         permit' = [permit EXCEPT ![m] = pm],
         retry' = [retry EXCEPT ![m] = rt],
         queue' = IF arm!IsLive(ph) THEN queue ELSE Marked(queue, m),
         leased' \in Nat, returned' \in Nat,
         leased' + returned' = leased + returned
                                 + (IF Head(cq[m]).kind = "Data" THEN 1 ELSE 0),
         ph \in Flying <=> Head(cq[m]).flow # "Last",
         rt => ph \in {"Ready", "ProbeDeferred"},
         ph = "ProbeDeferred" => rt,
         pm = "queued" => permit[m] = "queued" \/ Head(cq[m]).flow = "Last",
         ph = "Waiting" => pm = "queued" /\ avail = 0,
         IF accepting[m] THEN ph \notin Stopped
         ELSE /\ ph \in Stopped /\ pm = "vacant" /\ ~rt
              /\ ph = "Cancelling" => phase[m] = "Cancelling"
  PROVE  IInv'
<1> USE DEF turnVars
<1>1. TypeOK /\ LocalInv(m) /\ EntryInv(m) /\ NoForgottenMember
  BY DEF IInv, NoBufferLost, LocalInv, GroupInv
<1>2. /\ cq[m] \in Seq(Entry) /\ Len(cq[m]) \in Nat /\ Len(cq[m]) > 0
      /\ Head(cq[m]) = cq[m][1] /\ Head(cq[m]) \in Entry
      /\ cq'[m] \in Seq(Entry) /\ Len(cq'[m]) = Len(cq[m]) - 1
      /\ \A i \in 1..Len(cq'[m]) : cq'[m][i] = cq[m][i + 1] /\ i + 1 \in 1..Len(cq[m])
      /\ Head(cq[m]).flow = "Last" => cq'[m] = <<>> /\ ~op[m]
      /\ \A p \in Members \ {m} : cq'[p] = cq[p]
  BY <1>1, PopShifts
<1>a. Len(cq[m]) \in Nat /\ Len(cq[m]) > 0 /\ Len(cq'[m]) = Len(cq[m]) - 1
  BY <1>2
<1>b. avail' = avail /\ op' = op /\ ready' = ready
  OBVIOUS
<1>3. Cardinality(Carried') =
        IF Head(cq[m]).kind = "Data" THEN Cardinality(Carried) - 1
                                     ELSE Cardinality(Carried)
  BY <1>1, CarriedPop
<1>4. /\ phase'[m] = ph /\ permit'[m] = pm /\ retry'[m] = rt
      /\ flight'[m] = (Head(cq[m]).flow # "Last")
  BY <1>1 DEF TypeOK
<1>5. /\ queue' \in Seq(Members) /\ IsInjective(queue')
      /\ \A p \in Members : Contains(queue, p) => Contains(queue', p)
      /\ Grouped /\ ~arm!IsLive(ph) => Contains(queue', m)
  BY <1>1, MarkedKeeps DEF TypeOK, NoForgottenMember
<1>6. TypeOK'
  <2>1. cq' \in [Members -> Seq(Entry)]
    BY <1>1, <1>2 DEF TypeOK
  <2>2. flight' \in [Members -> BOOLEAN] /\ retry' \in [Members -> BOOLEAN]
    BY <1>1 DEF TypeOK
  <2>3. phase' \in [Members -> arm!Phase] /\ permit' \in [Members -> slot!Slot]
    BY <1>1 DEF TypeOK
  <2> QED BY <1>1, <1>5, <2>1, <2>2, <2>3 DEF TypeOK
<1>7. NoBufferLost'
  <2> DEFINE d == IF Head(cq[m]).kind = "Data" THEN 1 ELSE 0
  <2>1. leased' + returned' = leased + returned + d /\ d \in Int
    OBVIOUS
  <2>2. Cardinality(Carried') = Cardinality(Carried) - d
    BY <1>1, <1>3, CarriedFinite
  <2> HIDE DEF d
  <2>3. avail \in Nat /\ leased \in Nat /\ returned \in Nat
    BY <1>1 DEF TypeOK
  <2>4. avail' + leased' + returned' = avail + leased + returned + d
    <3>1. avail + leased' + returned' = avail + (leased' + returned')
      BY <2>3
    <3>2. avail + (leased + returned + d) = avail + leased + returned + d
      BY <2>1, <2>3
    <3> QED BY <1>b, <2>1, <3>1, <3>2
  <2> QED BY <1>6, <2>1, <2>2, <2>4, BuffersMove DEF IInv
<1>8. EntryInv(m)'
  <2> SUFFICES ASSUME NEW i \in 1..Len(cq'[m])
               PROVE  /\ IF cq'[m][i].kind = "Data" THEN i <= Buffers
                                                    ELSE cq'[m][i].flow = "Last"
                      /\ cq'[m][i].flow = "Last" => i = Len(cq'[m]) /\ ~op[m]
    BY DEF EntryInv, Buffers
  <2>1. /\ IF cq[m][i + 1].kind = "Data" THEN i + 1 <= Buffers
                                         ELSE cq[m][i + 1].flow = "Last"
        /\ cq[m][i + 1].flow = "Last" => i + 1 = Len(cq[m]) /\ ~op[m]
    BY <1>1, <1>2 DEF EntryInv
  <2>2. Buffers \in Nat
    BY <1>1, CarriedFinite
  <2> QED BY <1>2, <2>1, <2>2
<1>9. FlightInv(m)'
  <2>1. CASE Head(cq[m]).flow = "Last"
    BY <2>1, <1>2, <1>4 DEF FlightInv
  <2>2. CASE Head(cq[m]).flow # "Last"
    <3>1. CASE op[m]
      BY <3>1, <2>2, <1>4 DEF FlightInv
    <3>2. CASE ~op[m]
      <4>1. cq[m][Len(cq[m])].flow = "Last"
        BY <3>2, <1>1 DEF LocalInv, FlightInv
      <4>2. cq'[m] # <<>> /\ cq'[m][Len(cq'[m])].flow = "Last"
        BY <4>1, <2>2, <1>1, PopLeavesLast
      <4> QED BY <4>2, <2>2, <1>4 DEF FlightInv
    <3> QED BY <3>1, <3>2
  <2> QED BY <2>1, <2>2
<1>10. PermitInv(m)'
  <2>1. ASSUME pm = "queued", NEW i \in 1..Len(cq'[m]), cq'[m][i].kind = "Exhausted"
        PROVE  avail = 0
    <3>1. cq'[m] # <<>>
      BY <2>1, NonEmpty
    <3>2. permit[m] = "queued" /\ i + 1 \in 1..Len(cq[m]) /\ cq[m][i + 1].kind = "Exhausted"
      BY <2>1, <3>1, <1>2
    <3> QED BY <3>2, <1>1 DEF LocalInv, PermitInv
  <2> QED BY <2>1, <1>4 DEF PermitInv
<1>11. StopInv(m)'
  BY <1>1, <1>4 DEF LocalInv, StopInv
<1>12. ASSUME NEW p \in Members, p # m PROVE LocalInv(p)'
  <2>1. /\ phase'[p] = phase[p] /\ flight'[p] = flight[p] /\ retry'[p] = retry[p]
        /\ permit'[p] = permit[p] /\ cq'[p] = cq[p] /\ LocalInv(p)
    BY <1>12, <1>1, <1>2 DEF TypeOK, IInv
  <2> QED BY <2>1, LocalKept
<1>13. GroupInv'
  <2>1. ASSUME Grouped, NEW p \in Members, accepting[p], ~arm!IsLive(phase'[p])
        PROVE  Contains(queue', p)
    BY <2>1, <1>1, <1>4, <1>5 DEF NoForgottenMember, TypeOK
  <2> QED BY <2>1, <1>5 DEF IInv, GroupInv, NoForgottenMember, Grouped
<1>14. ParkInv' /\ BlockedInv' /\ EndInv'
  BY DEF IInv, ParkInv, BlockedInv, EndInv
<1> QED BY <1>7, <1>8, <1>9, <1>10, <1>11, <1>12, <1>13, <1>14 DEF IInv, LocalInv

\* Every completion that is dispatched names the flight of its socket.
LEMMA DispatchKeeps ==
  ASSUME IInv, UNCHANGED setup, NEW m \in Members, Dispatch(m)
  PROVE  IInv'
<1> DEFINE last == Head(cq[m]).flow = "Last"
<1>1. TypeOK /\ LocalInv(m) /\ EntryInv(m)
  BY DEF IInv, NoBufferLost, LocalInv
<1>2. /\ loop = "dispatch" /\ cq[m] # <<>>
      /\ UNCHANGED <<accepting, ready, deferred, turnVars, op, cancel>>
  BY DEF Dispatch, Deliver, Fail, Exhaust, Retire, Dispatches
<1>3. /\ flight[m] /\ phase[m] \in Flying
      /\ phase[m] \in {"Armed", "Probing"} <=> accepting[m]
      /\ permit[m] \in slot!Slot /\ ~retry[m]
      /\ permit[m] = "queued" /\ Head(cq[m]).kind = "Exhausted" => avail = 0
  <2>1. flight[m] /\ phase[m] \in Flying
    BY <1>1, <1>2 DEF LocalInv, FlightInv
  <2>2. phase[m] \in {"Armed", "Probing"} <=> accepting[m]
    BY <1>1, <2>1 DEF LocalInv, StopInv, Flying, Stopped
  <2>3. permit[m] \in slot!Slot /\ ~retry[m]
    BY <1>1, <2>1 DEF LocalInv, PermitInv, Flying, TypeOK
  <2>4. Head(cq[m]) = cq[m][1] /\ 1 \in 1..Len(cq[m])
    BY <1>1, <1>2, TailShifts DEF TypeOK
  <2>5. permit[m] = "queued" /\ Head(cq[m]).kind = "Exhausted" => avail = 0
    BY <1>1, <2>4 DEF LocalInv, PermitInv
  <2> QED BY <2>1, <2>2, <2>3, <2>5
<1>4. Head(cq[m]) \in Entry /\ (~last => Head(cq[m]).kind = "Data")
  <2>1. /\ Head(cq[m]) = cq[m][1] /\ 1 \in 1..Len(cq[m]) /\ Head(cq[m]) \in Entry
    BY <1>1, <1>2, TailShifts DEF TypeOK
  <2> QED BY <1>1, <2>1 DEF EntryInv
<1>5. Delivers(m) <=> accepting[m]
  BY <1>3 DEF Delivers, arm!Disposition, Flying
<1>6. leased \in Nat /\ returned \in Nat /\ m \in Members
  BY <1>1 DEF TypeOK
<1>7. retry = [retry EXCEPT ![m] = FALSE]
  BY <1>1, <1>3 DEF TypeOK
<1>8. permit = [permit EXCEPT ![m] = permit[m]]
  BY <1>1 DEF TypeOK
<1>9. ASSUME Completes(m)
      PROVE  LET ph == IF accepting[m] THEN IF last THEN "Ready" ELSE "Armed"
                       ELSE IF last THEN "Idle" ELSE phase[m]
             IN  /\ cq' = [cq EXCEPT ![m] = Tail(@)]
                 /\ flight' = [flight EXCEPT ![m] = Head(cq[m]).flow # "Last"]
                 /\ phase' = [phase EXCEPT ![m] = ph]
                 /\ queue' = IF arm!IsLive(ph) THEN queue ELSE Marked(queue, m)
  <2> DEFINE ph == IF accepting[m] THEN IF last THEN "Ready" ELSE "Armed"
                   ELSE IF last THEN "Idle" ELSE phase[m]
             next == IF last THEN arm!Completed(phase[m]) ELSE phase[m]
  <2>1. arm!SettleProbe(next) = ph
    BY <1>3 DEF arm!SettleProbe, arm!Completed, Flying
  <2>2. /\ cq' = [cq EXCEPT ![m] = Tail(@)]
        /\ flight' = [flight EXCEPT ![m] = flight[m] /\ ~last]
        /\ phase' = [phase EXCEPT ![m] = arm!SettleProbe(next)]
        /\ queue' = IF arm!IsLive(phase'[m]) THEN queue ELSE Marked(queue, m)
    BY <1>9 DEF Completes
  <2>3. (flight[m] /\ ~last) = (Head(cq[m]).flow # "Last")
    BY <1>3
  <2>4. phase'[m] = arm!SettleProbe(next)
    BY <2>2, <1>1 DEF TypeOK
  <2> QED BY <2>1, <2>2, <2>3, <2>4
<1>10. CASE Deliver(m) \/ Fail(m)
  <2> DEFINE ph == IF last THEN "Ready" ELSE "Armed"
             pm == IF phase[m] = "Probing" THEN "vacant" ELSE permit[m]
  <2>1. accepting[m] /\ Completes(m) /\ Settles(m) /\ UNCHANGED <<retry, avail, returned>>
    BY <1>10, <1>5 DEF Deliver, Fail, bufferVars
  <2>2. permit' = [permit EXCEPT ![m] = pm]
    BY <2>1, <1>1, <1>3 DEF Settles, arm!Disposition, slot!Cancel, slot!Take, slot!Answer,
         slot!Slot, TypeOK, Flying
  <2>3. ph \in arm!Phase /\ pm \in slot!Slot /\ (ph \in Flying <=> ~last)
        /\ ph \notin Stopped /\ ph \notin {"ProbeDeferred", "Waiting"}
    BY <1>3 DEF arm!Phase, slot!Slot, Flying, Stopped
  <2>4. pm = "queued" => permit[m] = "queued"
    OBVIOUS
  <2>5. /\ leased' \in Nat /\ returned' \in Nat
        /\ leased' + returned' =
             leased + returned + (IF Head(cq[m]).kind = "Data" THEN 1 ELSE 0)
    BY <1>10, <1>6 DEF Deliver, Fail, Dispatches, bufferVars
  <2>6. /\ cq' = [cq EXCEPT ![m] = Tail(@)]
        /\ flight' = [flight EXCEPT ![m] = Head(cq[m]).flow # "Last"]
        /\ phase' = [phase EXCEPT ![m] = ph]
        /\ queue' = IF arm!IsLive(ph) THEN queue ELSE Marked(queue, m)
    BY <2>1, <1>9
  <2>7. retry' = [retry EXCEPT ![m] = FALSE] /\ avail' = avail
    BY <2>1, <1>7
  <2> HIDE DEF ph, pm
  <2> QED BY <1>2, <2>1, <2>2, <2>3, <2>4, <2>5, <2>6, <2>7, PopKeeps
<1>11. CASE Exhaust(m)
  <2>1. /\ accepting[m] /\ Head(cq[m]).kind = "Exhausted" /\ last
        /\ cq' = [cq EXCEPT ![m] = Tail(@)]
        /\ flight' = [flight EXCEPT ![m] = FALSE]
        /\ UNCHANGED <<avail, leased, returned>>
    BY <1>11, <1>4, <1>5 DEF Exhaust, Dispatches, bufferVars
  <2>2. arm!Completed(phase[m]) = "Ready"
    BY <2>1, <1>3 DEF arm!Completed
  <2>3. /\ permit' = [permit EXCEPT ![m] = slot!Exhausted(permit[m])]
        /\ queue' = IF arm!IsLive(phase'[m]) THEN queue ELSE Marked(queue, m)
    BY <1>11 DEF Exhaust
  <2>4. CASE slot!Retries(permit[m])
    <3> DEFINE pm == slot!Exhausted(permit[m])
    <3>1. retry' = [retry EXCEPT ![m] = TRUE] /\ phase' = [phase EXCEPT ![m] = "Ready"]
      BY <1>11, <2>2, <2>4 DEF Exhaust
    <3>2. pm \in slot!Slot
      BY <1>3 DEF slot!Exhausted, slot!Arms, slot!Take, slot!Answer, slot!Slot
    <3>3. phase'[m] = "Ready"
      BY <3>1, <1>1 DEF TypeOK
    <3>4. "Ready" \in arm!Phase /\ "Ready" \notin Flying /\ "Ready" \notin Stopped
      BY DEF arm!Phase, Flying, Stopped
    <3> HIDE DEF pm
    <3>5. permit' = [permit EXCEPT ![m] = pm]
      BY <2>3 DEF pm
    <3>6. queue' = IF arm!IsLive("Ready") THEN queue ELSE Marked(queue, m)
      BY <2>3, <3>3
    <3>7. flight' = [flight EXCEPT ![m] = Head(cq[m]).flow # "Last"]
      BY <2>1
    <3>8. pm = "queued" => permit[m] = "queued" \/ last
      BY <2>1
    <3>9. /\ leased' \in Nat /\ returned' \in Nat
          /\ leased' + returned' =
               leased + returned + (IF Head(cq[m]).kind = "Data" THEN 1 ELSE 0)
      BY <1>6, <2>1
    <3>10. "Ready" \in Flying <=> Head(cq[m]).flow # "Last"
      BY <2>1, <3>4
    <3> QED BY <1>2, <2>1, <3>1, <3>2, <3>4, <3>5, <3>6, <3>7, <3>8, <3>9, <3>10, PopKeeps
  <2>5. CASE ~slot!Retries(permit[m])
    <3>1. permit[m] = "queued" /\ avail = 0
      BY <2>1, <2>5, <1>3 DEF slot!Retries, slot!Arms, slot!Answer, slot!Slot
    <3>2. permit' = [permit EXCEPT ![m] = "queued"]
      BY <2>3, <3>1 DEF slot!Exhausted, slot!Arms, slot!Take, slot!Answer
    <3>3. phase' = [phase EXCEPT ![m] = "Waiting"] /\ retry' = [retry EXCEPT ![m] = FALSE]
      BY <1>11, <2>2, <2>5, <1>7 DEF Exhaust, arm!Wait
    <3>4. phase'[m] = "Waiting"
      BY <3>3, <1>1 DEF TypeOK
    <3>5. /\ "Waiting" \in arm!Phase /\ "Waiting" \notin Flying /\ "Waiting" \notin Stopped
          /\ "queued" \in slot!Slot
      BY DEF arm!Phase, Flying, Stopped, slot!Slot
    <3>6. queue' = IF arm!IsLive("Waiting") THEN queue ELSE Marked(queue, m)
      BY <2>3, <3>4
    <3>7. flight' = [flight EXCEPT ![m] = Head(cq[m]).flow # "Last"]
      BY <2>1
    <3>8. /\ leased' \in Nat /\ returned' \in Nat
          /\ leased' + returned' =
               leased + returned + (IF Head(cq[m]).kind = "Data" THEN 1 ELSE 0)
      BY <1>6, <2>1
    <3>9. "Waiting" \in Flying <=> Head(cq[m]).flow # "Last"
      BY <2>1, <3>5
    <3> QED BY <1>2, <2>1, <3>1, <3>2, <3>3, <3>5, <3>6, <3>7, <3>8, <3>9, PopKeeps
  <2> QED BY <2>4, <2>5
<1>12. CASE Retire(m)
  <2> DEFINE ph == IF last THEN "Idle" ELSE phase[m]
  <2>1. ~accepting[m] /\ UNCHANGED <<retry, permit, avail, leased>>
    BY <1>12, <1>5 DEF Retire
  <2>2. Completes(m)
    BY <1>12, <2>1, <1>3 DEF Retire, arm!Disposition, Flying
  <2>3. /\ cq' = [cq EXCEPT ![m] = Tail(@)]
        /\ flight' = [flight EXCEPT ![m] = Head(cq[m]).flow # "Last"]
        /\ phase' = [phase EXCEPT ![m] = ph]
        /\ queue' = IF arm!IsLive(ph) THEN queue ELSE Marked(queue, m)
    BY <2>1, <2>2, <1>9
  <2>4. /\ ph \in arm!Phase /\ (ph \in Flying <=> ~last) /\ ph \in Stopped
        /\ ph = "Cancelling" => phase[m] = "Cancelling"
        /\ ph \notin {"ProbeDeferred", "Waiting"}
    BY <1>3, <2>1 DEF arm!Phase, Flying, Stopped
  <2>5. permit[m] = "vacant" /\ permit' = [permit EXCEPT ![m] = "vacant"]
    BY <2>1, <1>1, <1>8 DEF LocalInv, StopInv
  <2>6. /\ leased' \in Nat /\ returned' \in Nat
        /\ leased' + returned' =
             leased + returned + (IF Head(cq[m]).kind = "Data" THEN 1 ELSE 0)
    BY <1>12, <1>6 DEF Retire
  <2>7. retry' = [retry EXCEPT ![m] = FALSE] /\ avail' = avail /\ "vacant" \in slot!Slot
    BY <2>1, <1>7 DEF slot!Slot
  <2> HIDE DEF ph
  <2> QED BY <1>2, <2>1, <2>3, <2>4, <2>5, <2>6, <2>7, PopKeeps
<1> QED BY <1>10, <1>11, <1>12 DEF Dispatch

-----------------------------------------------------------------------------
(* Wakes and arms.                                                         *)

\* Only socket m changes.
Only(m) ==
  \A p \in Members \ {m} :
    /\ phase'[p] = phase[p] /\ flight'[p] = flight[p] /\ retry'[p] = retry[p]
    /\ accepting'[p] = accepting[p] /\ permit'[p] = permit[p] /\ op'[p] = op[p]
    /\ cancel'[p] = cancel[p] /\ cq'[p] = cq[p]

\* A step that keeps the invariant at its own socket keeps it everywhere.
LEMMA OnlyKeeps ==
  ASSUME IInv, UNCHANGED setup, NEW m \in Members, Only(m), LocalInv(m)',
         loop = "aborted" => loop' = "aborted", avail = 0 => avail' = 0,
         ready \ {m} \subseteq ready'
  PROVE  \A p \in Members : LocalInv(p)'
<1> SUFFICES ASSUME NEW p \in Members, p # m PROVE LocalInv(p)'
  OBVIOUS
<1>1. LocalInv(p) /\ p \in Members \ {m}
  BY DEF IInv
<1>2. p \in ready => p \in ready'
  OBVIOUS
<1> QED BY <1>1, <1>2, LocalKept DEF Only

\* Nothing happens to the completions and the buffers.
LEMMA BuffersStay ==
  ASSUME IInv, TypeOK', UNCHANGED <<setup, cq, avail, leased, returned>>
  PROVE  NoBufferLost'
<1>1. Carried' = Carried /\ Buffers' = Buffers
  BY CarriedSame DEF Buffers
<1> QED BY <1>1 DEF IInv, NoBufferLost

\* Receive::resume.
LEMMA ActivateKeeps ==
  ASSUME IInv, UNCHANGED setup, NEW m \in Members, Activate(m)
  PROVE  IInv'
<1>1. TypeOK /\ LocalInv(m) /\ NoForgottenMember
  BY DEF IInv, NoBufferLost, GroupInv
<1>2. /\ loop = "activate" /\ loop' = loop
      /\ UNCHANGED <<flight, accepting, stopping, todo, drained, spent, refused,
                     op, cancel, cq, avail, leased, returned>>
      /\ ready' = ready \ {m} /\ deferred' = FALSE /\ queue' = Marked(queue, m)
  BY DEF Activate, turnVars, kernelVars, bufferVars
<1> DEFINE resumes == permit[m] = "parked" /\ phase[m] = "Waiting"
           ph == IF resumes THEN "Ready" ELSE phase[m]
           pm == IF permit[m] = "parked" THEN "vacant" ELSE permit[m]
           rt == retry[m] \/ resumes
<1>3. permit[m] \in slot!Slot /\ phase[m] \in arm!Phase /\ retry[m] \in BOOLEAN
  BY <1>1 DEF TypeOK
<1>4. phase[m] = "Waiting" => ~retry[m] /\ permit[m] \in {"queued", "parked"}
  BY <1>1 DEF LocalInv, PermitInv
<1>5. /\ permit' = [permit EXCEPT ![m] = pm]
      /\ retry' = [retry EXCEPT ![m] = rt]
      /\ phase' = [phase EXCEPT ![m] = ph]
  BY <1>3, <1>4 DEF Activate, slot!Take, slot!Resumes, slot!Stale, slot!Answer, slot!Slot,
       arm!Resume
<1>6. ph \in arm!Phase /\ pm \in slot!Slot /\ rt \in BOOLEAN
  BY <1>3 DEF arm!Phase, slot!Slot
<1>7. /\ queue' \in Seq(Members) /\ IsInjective(queue')
      /\ \A p \in Members : Contains(queue, p) => Contains(queue', p)
      /\ Grouped => Contains(queue', m)
  BY <1>1, <1>2, MarkedKeeps DEF TypeOK, NoForgottenMember
<1>8. TypeOK'
  BY <1>1, <1>2, <1>5, <1>6, <1>7 DEF TypeOK
<1>9. phase'[m] = ph /\ permit'[m] = pm /\ retry'[m] = rt
  BY <1>1, <1>5 DEF TypeOK
<1>10. Only(m)
  BY <1>1, <1>2, <1>5 DEF Only, TypeOK
<1>11. LocalInv(m)'
  <2>1. EntryInv(m)'
    BY <1>1, <1>2 DEF LocalInv, EntryInv, Buffers
  <2>2. FlightInv(m)'
    BY <1>1, <1>2, <1>9 DEF LocalInv, FlightInv, Flying
  <2>3. PermitInv(m)'
    BY <1>1, <1>2, <1>4, <1>9 DEF LocalInv, PermitInv
  <2>4. StopInv(m)'
    BY <1>1, <1>2, <1>9 DEF LocalInv, StopInv, Stopped
  <2> QED BY <2>1, <2>2, <2>3, <2>4 DEF LocalInv
<1>12. \A p \in Members : LocalInv(p)'
  BY <1>2, <1>10, <1>11, OnlyKeeps
<1>13. GroupInv'
  <2>1. ASSUME Grouped, NEW p \in Members, accepting[p], ~arm!IsLive(phase'[p])
        PROVE  Contains(queue', p)
    BY <2>1, <1>1, <1>7, <1>10 DEF NoForgottenMember, Only
  <2> QED BY <2>1, <1>2, <1>7 DEF IInv, GroupInv, NoForgottenMember, Grouped
<1>14. ParkInv' /\ BlockedInv' /\ EndInv'
  BY <1>2 DEF IInv, ParkInv, BlockedInv, EndInv
<1> QED BY <1>2, <1>8, <1>12, <1>13, <1>14, BuffersStay DEF IInv

\* A wake of the application.
LEMMA PokeKeeps ==
  ASSUME IInv, UNCHANGED setup, NEW m \in Members, Poke(m)
  PROVE  IInv'
<1>1. /\ loop \in {"dispatch", "prepark"} /\ ready' = ready \cup {m}
      /\ UNCHANGED <<phase, flight, retry, accepting, permit, queue, deferred, loop,
                     stopping, todo, drained, spent, refused, op, cancel, cq, avail,
                     leased, returned>>
  BY DEF Poke, receiveVars, groupVars, turnVars, kernelVars, bufferVars
<1>2. TypeOK'
  BY <1>1 DEF IInv, NoBufferLost, TypeOK
<1>3. \A p \in Members : LocalInv(p)'
  BY <1>1, LocalKept DEF IInv
<1>4. GroupInv' /\ ParkInv' /\ BlockedInv' /\ EndInv'
  BY <1>1 DEF IInv, GroupInv, NoForgottenMember, ParkInv, BlockedInv, EndInv, Grouped, Shared
<1> QED BY <1>1, <1>2, <1>3, <1>4, BuffersStay DEF IInv

\* What is left of the pass keeps every member that is not armed in the queue.
LEMMA PassedKeeps ==
  ASSUME TypeOK, NoForgottenMember, UNCHANGED <<setup, accepting>>,
         NEW m \in Members, Turn(m), Passed(m),
         \A p \in Members \ {m} : phase'[p] = phase[p]
  PROVE  /\ queue' \in Seq(Members) /\ todo' \subseteq Members /\ deferred' \in BOOLEAN
         /\ NoForgottenMember'
<1>1. todo' \subseteq Members /\ deferred' \in BOOLEAN
  BY DEF TypeOK, Passed, Grouped
<1>2. queue \in Seq(Members) /\ IsInjective(queue)
  BY DEF TypeOK, NoForgottenMember
<1>3. CASE ~Grouped
  BY <1>1, <1>2, <1>3 DEF Passed, NoForgottenMember, Grouped
<1>4. CASE Grouped
  <2>1. queue # <<>> /\ m = Head(queue)
    BY <1>4 DEF Turn
  <2>2. /\ Tail(queue) \in Seq(Members) /\ IsInjective(Tail(queue))
        /\ ~Contains(Tail(queue), m)
        /\ \A p \in Members : Contains(queue, p) /\ p # m => Contains(Tail(queue), p)
    BY <1>2, <2>1, TailKeeps
  <2>3. CASE arm!IsLive(phase'[m])
    <3>1. queue' = Tail(queue)
      BY <1>4, <2>3 DEF Passed
    <3> QED BY <1>1, <2>2, <2>3, <3>1 DEF NoForgottenMember, Grouped
  <2>4. CASE ~arm!IsLive(phase'[m])
    <3>1. queue' = Append(Tail(queue), m)
      BY <1>4, <2>4 DEF Passed
    <3>2. /\ queue' \in Seq(Members) /\ IsInjective(queue') /\ Contains(queue', m)
          /\ \A p \in Members : Contains(Tail(queue), p) => Contains(queue', p)
      BY <2>2, <3>1, AppendKeeps
    <3> QED BY <1>1, <2>2, <3>2 DEF NoForgottenMember, Grouped
  <2> QED BY <2>3, <2>4
<1> QED BY <1>3, <1>4

\* Receive::arm, whatever becomes of the submission.
LEMMA ArmKeeps ==
  ASSUME IInv, UNCHANGED setup, NEW m \in Members, Arm(m) \/ ArmRefused(m) \/ Pass(m)
  PROVE  IInv'
<1>1. TypeOK /\ LocalInv(m) /\ NoForgottenMember /\ Turn(m) /\ Passed(m)
  BY DEF IInv, NoBufferLost, GroupInv, Arm, ArmRefused, Pass
<1>2. /\ loop = "prepark" /\ accepting[m]
      /\ UNCHANGED <<accepting, permit, ready, loop, stopping, drained, spent, cancel, cq,
                     avail, leased, returned>>
  BY DEF Turn, Arm, ArmRefused, Pass, wakeVars, kernelVars, bufferVars
<1>3. /\ phase[m] \in arm!Phase /\ retry[m] \in BOOLEAN /\ op[m] \in BOOLEAN
      /\ flight[m] \in BOOLEAN /\ refused \in BOOLEAN
  BY <1>1 DEF TypeOK
<1>4. /\ phase[m] \notin Stopped
      /\ retry[m] => phase[m] \in {"Ready", "ProbeDeferred"}
      /\ phase[m] = "ProbeDeferred" => retry[m]
      /\ phase[m] \notin Flying => ~flight[m] /\ ~op[m] /\ cq[m] = <<>>
  BY <1>1, <1>2 DEF LocalInv, StopInv, PermitInv, FlightInv
<1>5. Only(m) /\ TypeOK' /\ LocalInv(m)'
      /\ (phase'[m] = "Deferred" => refused')
      /\ (~arm!IsLive(phase'[m]) => refused')
      /\ (refused => refused')
  <2>1. CASE Arm(m)
    <3> DEFINE ph == IF retry[m] THEN "Probing" ELSE "Armed"
    <3>1. /\ phase' = [phase EXCEPT ![m] = ph] /\ flight' = [flight EXCEPT ![m] = TRUE]
          /\ op' = [op EXCEPT ![m] = TRUE] /\ retry' = [retry EXCEPT ![m] = FALSE]
          /\ refused' = refused
      BY <2>1 DEF Arm, arm!Apply
    <3>2. ph \in arm!Phase /\ ph \in Flying /\ ph \notin Stopped
          /\ ph \notin {"Deferred", "ProbeDeferred", "Waiting"} /\ arm!IsLive(ph)
      BY DEF arm!Phase, Flying, Stopped, arm!IsLive
    <3> HIDE DEF ph
    <3>3. phase'[m] = ph /\ flight'[m] /\ op'[m] /\ ~retry'[m]
      BY <3>1, <1>1 DEF TypeOK
    <3>4. Only(m)
      BY <3>1, <1>1, <1>2 DEF Only, TypeOK
    <3>5. queue' \in Seq(Members) /\ todo' \subseteq Members /\ deferred' \in BOOLEAN
      BY <3>4, <1>1, <1>2, PassedKeeps DEF Only
    <3>6. TypeOK'
      BY <3>1, <3>2, <3>5, <1>1, <1>2 DEF TypeOK
    <3>7. phase[m] \notin Flying
      BY <2>1, <1>4 DEF Arm, arm!Begins, Flying
    <3>8. EntryInv(m)'
      BY <3>7, <1>2, <1>4 DEF EntryInv
    <3>9. FlightInv(m)' /\ StopInv(m)'
      BY <3>2, <3>3, <1>2 DEF FlightInv, StopInv
    <3>10. PermitInv(m)'
      BY <3>2, <3>3, <3>7, <1>2, <1>4 DEF PermitInv
    <3> QED BY <3>1, <3>2, <3>3, <3>4, <3>6, <3>8, <3>9, <3>10 DEF LocalInv
  <2>2. CASE ArmRefused(m)
    <3> DEFINE ph == IF retry[m] THEN "ProbeDeferred" ELSE "Deferred"
    <3>1. /\ phase' = [phase EXCEPT ![m] = ph] /\ refused' = TRUE
          /\ UNCHANGED <<flight, op, retry>>
      BY <2>2 DEF ArmRefused, arm!Apply, kernelVars
    <3>2. ph \in arm!Phase /\ ph \notin Flying /\ ph \notin Stopped /\ ph # "Waiting"
          /\ (retry[m] <=> ph = "ProbeDeferred")
      BY <1>3 DEF arm!Phase, Flying, Stopped
    <3> HIDE DEF ph
    <3>3. phase'[m] = ph
      BY <3>1, <1>1 DEF TypeOK
    <3>4. Only(m)
      BY <3>1, <1>1, <1>2 DEF Only, TypeOK
    <3>5. queue' \in Seq(Members) /\ todo' \subseteq Members /\ deferred' \in BOOLEAN
      BY <3>4, <1>1, <1>2, PassedKeeps DEF Only
    <3>6. TypeOK'
      BY <3>1, <3>2, <3>5, <1>1, <1>2 DEF TypeOK
    <3>7. phase[m] \notin Flying
      BY <2>2, <1>4 DEF ArmRefused, arm!Begins, Flying
    <3>8. EntryInv(m)'
      BY <3>7, <1>2, <1>4 DEF EntryInv
    <3>9. FlightInv(m)' /\ StopInv(m)'
      BY <3>1, <3>2, <3>3, <3>7, <1>2, <1>4 DEF FlightInv, StopInv
    <3>10. PermitInv(m)'
      BY <3>1, <3>2, <3>3, <3>7, <1>2, <1>4 DEF PermitInv
    <3> QED BY <3>1, <3>4, <3>6, <3>8, <3>9, <3>10 DEF LocalInv
  <2>3. CASE Pass(m)
    <3>1. UNCHANGED <<phase, flight, retry, op, refused>> /\ ~arm!Begins(phase[m], retry[m])
      BY <2>3 DEF Pass, kernelVars
    <3>2. Only(m)
      BY <3>1, <1>2 DEF Only
    <3>3. queue' \in Seq(Members) /\ todo' \subseteq Members /\ deferred' \in BOOLEAN
      BY <3>2, <1>1, <1>2, PassedKeeps DEF Only
    <3>4. TypeOK'
      BY <3>1, <3>3, <1>1, <1>2 DEF TypeOK
    <3>5. phase[m] # "Deferred" /\ arm!IsLive(phase[m])
      BY <3>1, <1>4 DEF arm!Begins, arm!IsLive, Stopped
    <3>6. LocalInv(m)'
      BY <3>1, <1>1, <1>2, LocalKept
    <3> QED BY <3>1, <3>2, <3>4, <3>5, <3>6
  <2> QED BY <2>1, <2>2, <2>3
<1>6. NoForgottenMember'
  BY <1>1, <1>2, <1>5, PassedKeeps DEF Only
<1>7. GroupInv'
  BY <1>2, <1>6 DEF IInv, GroupInv, Grouped
<1>8. ParkInv'
  <2>1. ASSUME Grouped, deferred' PROVE refused'
    <3>1. ~deferred
      BY <2>1, <1>1 DEF Turn
    <3> QED BY <2>1, <3>1, <1>1, <1>5 DEF Passed
  <2>2. ASSUME ~Grouped, ~Shared, NEW p \in Members, accepting[p],
               phase'[p] = "Deferred", p \notin todo'
        PROVE  refused' \/ spent'
    <3>1. CASE p = m
      BY <2>2, <3>1, <1>5
    <3>2. CASE p # m
      <4>1. p \notin todo /\ phase[p] = "Deferred"
        BY <2>2, <3>2, <1>1, <1>5 DEF Passed, Only
      <4> QED BY <4>1, <2>2, <1>2, <1>5 DEF IInv, ParkInv
    <3> QED BY <3>1, <3>2
  <2> QED BY <2>1, <2>2, <1>2 DEF ParkInv, Grouped, Shared
<1>9. BlockedInv' /\ EndInv'
  BY <1>2 DEF IInv, BlockedInv, EndInv
<1>10. \A p \in Members : LocalInv(p)'
  BY <1>2, <1>5, OnlyKeeps
<1>11. NoBufferLost'
  BY <1>2, <1>5, BuffersStay
<1> QED BY <1>7, <1>8, <1>9, <1>10, <1>11 DEF IInv

-----------------------------------------------------------------------------
(* Stops.                                                                  *)

\* Receive::stop of the sockets P: each of them keeps its flight, and only
\* that.  An arm that failed is idle before.
LEMMA StopsKeep ==
  ASSUME IInv, UNCHANGED setup, NEW P \in SUBSET Members, NEW F \in SUBSET Members,
         NEW ph \in [Members -> arm!Phase], Stops(P, ph, F),
         \A p \in Members : ph[p] = phase[p] \/ (ph[p] = "Idle" /\ phase[p] \notin Flying
                                                   /\ p \in P),
         Grouped => P = Members,
         queue' \in Seq(Members), IsInjective(queue'), ~Grouped => queue' = queue,
         todo' \subseteq Members, stopping' \in BOOLEAN, drained' = drained,
         spent' \in BOOLEAN, stopping' => stopping \/ P = Members,
         loop' \in {"dispatch", "prepark"}, loop # "aborted"
  PROVE  /\ NoBufferLost' /\ GroupInv' /\ BlockedInv' /\ EndInv'
         /\ \A p \in Members : LocalInv(p)'
<1>1. TypeOK /\ NoForgottenMember
  BY DEF IInv, NoBufferLost, GroupInv
<1>2. /\ accepting' = [p \in Members |-> accepting[p] /\ p \notin P]
      /\ permit' = [p \in Members |-> IF p \in P THEN slot!Cancel(permit[p]) ELSE permit[p]]
      /\ retry' = [p \in Members |-> retry[p] /\ p \notin P]
      /\ phase' = [p \in Members |-> IF p \in P THEN arm!Stop(ph[p], p \in F) ELSE ph[p]]
      /\ cancel' = [p \in Members |-> \/ cancel[p]
                                      \/ p \in P \ F /\ arm!Cancels(ph[p]) /\ op[p]]
      /\ UNCHANGED <<flight, ready, deferred, op, cq, avail, leased, returned>>
      /\ refused' \in BOOLEAN
  BY <1>1 DEF Stops, bufferVars, TypeOK
<1>3. \A p \in Members : slot!Cancel(permit[p]) = "vacant"
  BY <1>1 DEF TypeOK, slot!Cancel, slot!Take, slot!Answer, slot!Slot
<1>4. \A p \in Members : arm!Stop(ph[p], p \in F) \in Stopped
  BY DEF arm!Stop, Stopped
<1>5. TypeOK'
  <2>1. accepting' \in [Members -> BOOLEAN] /\ retry' \in [Members -> BOOLEAN]
    BY <1>1, <1>2 DEF TypeOK
  <2>2. cancel' \in [Members -> BOOLEAN]
    BY <1>1, <1>2 DEF TypeOK
  <2>3. permit' \in [Members -> slot!Slot]
    BY <1>1, <1>2, <1>3 DEF TypeOK, slot!Slot
  <2>4. Stopped \subseteq arm!Phase
    BY DEF Stopped, arm!Phase
  <2>5. phase' \in [Members -> arm!Phase]
    BY <1>2, <1>4, <2>4
  <2> QED BY <1>1, <1>2, <2>1, <2>2, <2>3, <2>5 DEF TypeOK
<1>6. ASSUME NEW p \in Members PROVE LocalInv(p)'
  <2>1. LocalInv(p)
    BY DEF IInv
  <2>2. CASE p \notin P
    <3>1. /\ accepting'[p] = accepting[p] /\ permit'[p] = permit[p] /\ retry'[p] = retry[p]
          /\ phase'[p] = phase[p] /\ cancel'[p] = cancel[p]
      BY <1>1, <1>2, <2>2 DEF TypeOK
    <3> QED BY <1>2, <2>1, <3>1, LocalKept
  <2>3. CASE p \in P
    <3>1. /\ ~accepting'[p] /\ permit'[p] = "vacant" /\ ~retry'[p]
          /\ phase'[p] = arm!Stop(ph[p], p \in F) /\ phase'[p] \in Stopped
          /\ cancel'[p] = (cancel[p] \/ (p \notin F /\ arm!Cancels(ph[p]) /\ op[p]))
      BY <1>2, <1>3, <1>4, <2>3
    <3>2. phase'[p] \in Flying <=> phase[p] \in Flying
      BY <3>1 DEF arm!Stop, arm!Cancels, Flying, arm!Phase
    <3>3. EntryInv(p)'
      BY <1>2, <2>1 DEF LocalInv, EntryInv, Buffers
    <3>4. FlightInv(p)'
      BY <1>2, <2>1, <3>2 DEF LocalInv, FlightInv
    <3>5. PermitInv(p)'
      BY <3>1 DEF PermitInv, Stopped
    <3>6. ASSUME phase'[p] = "Cancelling", op[p] PROVE cancel'[p]
      <4>1. CASE arm!Cancels(ph[p])
        <5>1. arm!Stop(ph[p], TRUE) = "CancelDeferred"
          BY <4>1 DEF arm!Stop, arm!Cancels
        <5>2. (p \in F) = TRUE \/ p \notin F
          OBVIOUS
        <5>3. p \notin F
          BY <5>1, <5>2, <3>1, <3>6
        <5> QED BY <4>1, <5>3, <3>1, <3>6
      <4>2. CASE ~arm!Cancels(ph[p])
        <5>1. phase[p] = "Cancelling"
          BY <4>2, <3>1, <3>6 DEF arm!Stop
        <5> QED BY <5>1, <2>1, <3>1, <3>6 DEF LocalInv, StopInv, Stopped
      <4> QED BY <4>1, <4>2
    <3>7. StopInv(p)'
      BY <3>1, <3>6, <1>2 DEF StopInv
    <3> QED BY <3>3, <3>4, <3>5, <3>7 DEF LocalInv
  <2> QED BY <2>2, <2>3
<1>7. GroupInv'
  <2>1. CASE Grouped
    <3>1. \A p \in Members : accepting'[p] = FALSE
      BY <2>1, <1>2
    <3> QED BY <2>1, <3>1 DEF GroupInv, NoForgottenMember, Grouped
  <2>2. CASE ~Grouped
    BY <2>2 DEF GroupInv, NoForgottenMember, Grouped
  <2> QED BY <2>1, <2>2
<1>8. BlockedInv' /\ EndInv'
  BY <1>2 DEF IInv, BlockedInv, EndInv
<1> QED BY <1>2, <1>5, <1>6, <1>7, <1>8, BuffersStay

\* A failed arm or a failed send stops the endpoint.
LEMMA StopEndpointKeeps ==
  ASSUME IInv, UNCHANGED setup, NEW m \in Members, ArmFails(m) \/ SendFails(m)
  PROVE  IInv'
<1>1. TypeOK /\ LocalInv(m) /\ NoForgottenMember
  BY DEF IInv, NoBufferLost, GroupInv
<1>2. /\ loop = "prepark" /\ accepting[m] /\ todo' = todo \ Peers(m)
      /\ UNCHANGED <<loop, stopping, drained, spent>>
  BY DEF ArmFails, SendFails, Turn
<1>3. Peers(m) \subseteq Members /\ m \in Peers(m) /\ (Grouped => Peers(m) = Members)
      /\ (~Grouped => Peers(m) = {m})
  BY DEF Peers
<1>4. queue' \in Seq(Members) /\ IsInjective(queue') /\ (~Grouped => queue' = queue)
  <2>1. queue \in Seq(Members) /\ IsInjective(queue)
    BY <1>1 DEF TypeOK, NoForgottenMember
  <2>2. CASE ArmFails(m) /\ Grouped
    <3>1. queue # <<>> /\ queue' = Tail(queue)
      BY <2>2 DEF ArmFails, Turn
    <3> QED BY <2>1, <2>2, <3>1, TailKeeps
  <2>3. CASE ~(ArmFails(m) /\ Grouped)
    BY <2>1, <2>3 DEF ArmFails, SendFails
  <2> QED BY <2>2, <2>3
<1>5. PICK F \in SUBSET Members, ph \in [Members -> arm!Phase] :
        /\ Stops(Peers(m), ph, F)
        /\ \A p \in Members : ph[p] = phase[p] \/ (ph[p] = "Idle" /\ phase[p] \notin Flying
                                                     /\ p \in Peers(m))
  <2>1. CASE ArmFails(m)
    <3> DEFINE ph == [phase EXCEPT ![m] = "Idle"]
    <3>1. PICK F \in SUBSET Peers(m) : Stops(Peers(m), ph, F)
      BY <2>1 DEF ArmFails, arm!Apply
    <3>2. ph \in [Members -> arm!Phase]
      BY <1>1 DEF TypeOK, arm!Phase
    <3>3. phase[m] \notin Flying
      BY <2>1 DEF ArmFails, arm!Begins, Flying
    <3>4. \A p \in Members : ph[p] = phase[p] \/ (ph[p] = "Idle" /\ p = m)
      BY <1>1 DEF TypeOK
    <3> HIDE DEF ph
    <3> QED BY <3>1, <3>2, <3>3, <3>4, <1>3
  <2>2. CASE SendFails(m)
    <3>1. PICK F \in SUBSET Peers(m) : Stops(Peers(m), phase, F)
      BY <2>2 DEF SendFails
    <3> QED BY <3>1, <1>1, <1>3 DEF TypeOK
  <2> QED BY <2>1, <2>2
<1>6. todo' \subseteq Members /\ stopping' \in BOOLEAN /\ spent' \in BOOLEAN
  BY <1>1, <1>2 DEF TypeOK
<1>7. /\ NoBufferLost' /\ GroupInv' /\ BlockedInv' /\ EndInv'
      /\ \A p \in Members : LocalInv(p)'
  BY <1>2, <1>3, <1>4, <1>5, <1>6, StopsKeep
<1>8. ParkInv'
  <2>1. /\ accepting' = [p \in Members |-> accepting[p] /\ p \notin Peers(m)]
        /\ phase' = [p \in Members |-> IF p \in Peers(m) THEN arm!Stop(ph[p], p \in F) ELSE ph[p]]
        /\ refused => refused'
    BY <1>5 DEF Stops
  <2>2. ~accepting'[m]
    BY <2>1, <1>3
  <2>3. ASSUME ~Grouped, ~Shared, NEW p \in Members, accepting'[p],
               phase'[p] = "Deferred", p \notin todo'
        PROVE  refused' \/ spent'
    <3>1. p # m /\ p \notin Peers(m)
      BY <2>2, <2>3, <1>3
    <3>2. phase[p] = "Deferred" /\ p \notin todo /\ accepting[p]
      BY <2>1, <2>3, <3>1, <1>2, <1>5
    <3> QED BY <2>1, <2>3, <3>2, <1>2 DEF IInv, ParkInv
  <2> QED BY <2>2, <2>3, <1>2 DEF ParkInv, Grouped, Shared
<1> QED BY <1>7, <1>8 DEF IInv

\* A pass without a budget.
LEMMA StarveKeeps ==
  ASSUME IInv, UNCHANGED setup, NEW m \in Members, Starve(m)
  PROVE  IInv'
<1>1. /\ loop = "prepark" /\ todo' = todo \ Peers(m) /\ spent' = (spent \/ ~Shared)
      /\ UNCHANGED <<phase, flight, retry, accepting, permit, ready, queue, deferred, loop,
                     stopping, drained, refused, op, cancel, cq, avail, leased, returned>>
  BY DEF Starve, receiveVars, wakeVars, groupVars, kernelVars, bufferVars
<1>2. TypeOK'
  BY <1>1, SetupAssumption DEF IInv, NoBufferLost, TypeOK, Shared
<1>3. \A p \in Members : LocalInv(p)'
  BY <1>1, LocalKept DEF IInv
<1>4. GroupInv' /\ BlockedInv' /\ EndInv'
  BY <1>1 DEF IInv, GroupInv, NoForgottenMember, BlockedInv, EndInv, Grouped, Shared
<1>5. ParkInv'
  BY <1>1 DEF IInv, ParkInv, Grouped, Shared
<1> QED BY <1>1, <1>2, <1>3, <1>4, <1>5, BuffersStay DEF IInv

\* Receive::retry_stop.
LEMMA RetryStopKeeps ==
  ASSUME IInv, UNCHANGED setup, NEW m \in Members, RetryStop(m)
  PROVE  IInv'
<1>1. TypeOK /\ LocalInv(m)
  BY DEF IInv, NoBufferLost
<1>2. /\ loop = "prepark" /\ ~accepting[m] /\ todo' = todo \ {m}
      /\ UNCHANGED <<flight, retry, accepting, permit, ready, queue, deferred, loop,
                     stopping, drained, spent, op, cq, avail, leased, returned>>
  BY DEF RetryStop, wakeVars, groupVars, bufferVars
<1>3. PICK full \in BOOLEAN :
        /\ phase' = [phase EXCEPT ![m] = arm!Stop(phase[m], full)]
        /\ cancel' = [cancel EXCEPT ![m] =
                        cancel[m] \/ (arm!Cancels(phase[m]) /\ op[m] /\ ~full)]
        /\ refused' = (refused \/ (arm!Cancels(phase[m]) /\ full))
  BY DEF RetryStop
<1>4. /\ phase'[m] = arm!Stop(phase[m], full)
      /\ cancel'[m] = (cancel[m] \/ (arm!Cancels(phase[m]) /\ op[m] /\ ~full))
  BY <1>1, <1>3 DEF TypeOK
<1>5. arm!Stop(phase[m], full) \in Stopped
  BY DEF arm!Stop, Stopped
<1>6. TypeOK'
  <2>1. phase' \in [Members -> arm!Phase]
    BY <1>1, <1>3, <1>5 DEF TypeOK, Stopped, arm!Phase
  <2>2. cancel' \in [Members -> BOOLEAN] /\ refused' \in BOOLEAN
    BY <1>1, <1>3 DEF TypeOK, arm!Cancels
  <2> QED BY <1>1, <1>2, <2>1, <2>2 DEF TypeOK
<1>7. phase[m] \in Stopped /\ permit[m] = "vacant" /\ ~retry[m]
      /\ (phase[m] = "Cancelling" /\ op[m] => cancel[m])
  BY <1>1, <1>2 DEF LocalInv, StopInv
<1>8. LocalInv(m)'
  <2>1. EntryInv(m)'
    BY <1>1, <1>2 DEF LocalInv, EntryInv, Buffers
  <2>2. phase'[m] \in Flying <=> phase[m] \in Flying
    BY <1>4, <1>7 DEF arm!Stop, arm!Cancels, Flying, Stopped
  <2>3. FlightInv(m)'
    BY <1>1, <1>2, <2>2 DEF LocalInv, FlightInv
  <2>4. PermitInv(m)'
    BY <1>2, <1>4, <1>5, <1>7 DEF PermitInv, Stopped
  <2>5. phase'[m] = "Cancelling" /\ op[m] => cancel'[m]
    BY <1>4, <1>7 DEF arm!Stop, arm!Cancels, Stopped
  <2>6. StopInv(m)'
    BY <1>2, <1>4, <1>5, <1>7, <2>5 DEF StopInv
  <2> QED BY <2>1, <2>3, <2>4, <2>6 DEF LocalInv
<1>9. Only(m)
  BY <1>1, <1>2, <1>3 DEF Only, TypeOK
<1>10. \A p \in Members : LocalInv(p)'
  BY <1>2, <1>8, <1>9, OnlyKeeps
<1>11. GroupInv'
  BY <1>2, <1>9 DEF IInv, GroupInv, NoForgottenMember, Grouped, Only
<1>12. ParkInv'
  BY <1>2, <1>3, <1>9 DEF IInv, ParkInv, Grouped, Shared, Only
<1>13. BlockedInv' /\ EndInv'
  BY <1>2 DEF IInv, BlockedInv, EndInv
<1> QED BY <1>2, <1>6, <1>10, <1>11, <1>12, <1>13, BuffersStay DEF IInv

-----------------------------------------------------------------------------
(* The end of a turn.                                                      *)

\* Granting the registrations turns every wait into a pending activation.
LEMMA ReclaimKeeps ==
  ASSUME IInv, UNCHANGED <<setup, receiveVars, groupVars, kernelVars, leased, stopping, drained>>,
         Reclaim, loop' \in {"dispatch", "blocked"}, loop \in {"activate", "idle"},
         todo' \subseteq Members, spent' \in BOOLEAN, refused' \in BOOLEAN
  PROVE  /\ NoBufferLost' /\ GroupInv' /\ EndInv'
         /\ \A p \in Members : LocalInv(p)'
<1> DEFINE granted == IF returned = 0 THEN {} ELSE {m \in Members : permit[m] = "queued"}
<1>1. TypeOK
  BY DEF IInv, NoBufferLost
<1>2. /\ UNCHANGED <<setup, phase, flight, retry, accepting, queue, deferred, op, cancel, cq,
                     leased, stopping, drained>>
      /\ avail' = avail + returned /\ returned' = 0 /\ ready' = ready \cup granted
      /\ permit' = [m \in Members |-> IF m \in granted THEN "parked" ELSE permit[m]]
  BY DEF receiveVars, groupVars, kernelVars, Reclaim, slot!Grantable, slot!Grant
<1>3. /\ avail \in Nat /\ leased \in Nat /\ returned \in Nat /\ granted \subseteq Members
      /\ avail' \in Nat
  BY <1>1, <1>2 DEF TypeOK
<1>4. TypeOK'
  <2>1. permit' \in [Members -> slot!Slot]
    BY <1>1, <1>2 DEF TypeOK, slot!Slot
  <2> HIDE DEF granted
  <2> QED BY <1>1, <1>2, <1>3, <2>1 DEF TypeOK
<1>5. NoBufferLost'
  <2>1. avail' + leased' + returned' = avail + leased + returned + 0
    BY <1>2, <1>3
  <2>2. Cardinality(Carried') = Cardinality(Carried) - 0
    BY <1>1, <1>2, CarriedSame, CarriedFinite
  <2> QED BY <1>2, <1>4, <2>1, <2>2, BuffersMove DEF IInv
<1>6. ASSUME NEW p \in Members PROVE LocalInv(p)'
  <2>1. LocalInv(p)
    BY DEF IInv
  <2>2. CASE returned = 0
    <3>1. permit'[p] = permit[p] /\ (avail = 0 => avail' = 0) /\ (p \in ready => p \in ready')
      BY <2>2, <1>2, <1>3
    <3> HIDE DEF granted
    <3> QED BY <3>1, <2>1, <1>2, LocalKept
  <2>3. CASE returned # 0
    <3>1. /\ permit'[p] = IF permit[p] = "queued" THEN "parked" ELSE permit[p]
          /\ permit[p] = "queued" => p \in ready'
          /\ p \in ready => p \in ready'
      BY <2>3, <1>2
    <3> HIDE DEF granted
    <3>2. EntryInv(p)' /\ FlightInv(p)'
      BY <1>2, <2>1 DEF LocalInv, EntryInv, FlightInv, Buffers
    <3>3. PermitInv(p)'
      BY <1>2, <2>1, <3>1 DEF LocalInv, PermitInv
    <3>4. StopInv(p)'
      BY <1>2, <2>1, <3>1 DEF LocalInv, StopInv
    <3> QED BY <3>2, <3>3, <3>4 DEF LocalInv
  <2> QED BY <2>2, <2>3
<1> HIDE DEF granted
<1>7. GroupInv' /\ EndInv'
  BY <1>2 DEF IInv, GroupInv, NoForgottenMember, EndInv, Grouped
<1> QED BY <1>5, <1>6, <1>7

\* The thread blocks only when nobody has work it could do.
LEMMA WaitKeeps ==
  ASSUME IInv, UNCHANGED setup, Wait
  PROVE  IInv'
<1>1. TypeOK /\ NoForgottenMember /\ GroupInv /\ ParkInv
  BY DEF IInv, NoBufferLost, GroupInv
<1>2. /\ loop = "idle" /\ Reclaim /\ refused' = FALSE
      /\ UNCHANGED <<receiveVars, groupVars, kernelVars, leased, stopping, drained>>
  BY DEF Wait
<1>3. \/ NewTurn
      \/ /\ loop' = "blocked" /\ UNCHANGED <<todo, spent>>
         /\ ~Runnable /\ ~spent /\ ready = {} /\ ready' = {} /\ ~refused
  BY DEF Wait, Hurried, IsQuiet
<1>4. /\ loop' \in {"dispatch", "blocked"} /\ todo' \subseteq Members
      /\ spent' \in BOOLEAN /\ refused' \in BOOLEAN
  BY <1>1, <1>2, <1>3 DEF TypeOK, NewTurn
<1>5. /\ NoBufferLost' /\ GroupInv' /\ EndInv'
      /\ \A p \in Members : LocalInv(p)'
  BY <1>2, <1>4, ReclaimKeeps
<1>6. ParkInv'
  BY <1>3 DEF ParkInv, NewTurn
<1>7. BlockedInv'
  <2> SUFFICES ASSUME loop' = "blocked", Grouped \/ ~Shared, NEW m \in Members, cq[m] = <<>>
               PROVE  IF accepting[m]
                        THEN op[m] \/ (phase[m] = "Waiting" /\ permit'[m] = "queued"
                                         /\ avail' = 0 /\ returned' = 0)
                        ELSE phase[m] = "Idle" \/ (op[m] /\ cancel[m])
    BY <1>2 DEF BlockedInv, receiveVars, kernelVars, Grouped, Shared
  <2>1. ~Runnable /\ ~spent /\ ready = {} /\ ready' = {} /\ ~refused
    BY <1>3 DEF NewTurn
  <2>2. LocalInv(m)
    BY DEF IInv
  <2>3. /\ flight[m] <=> phase[m] \in Flying
        /\ flight[m] => op[m]
        /\ phase[m] \in arm!Phase
    BY <1>1, <1>2, <2>2 DEF LocalInv, FlightInv, TypeOK
  <2>4. CASE accepting[m] /\ ~op[m]
    <3>1. phase[m] \in {"Ready", "Deferred", "Waiting", "ProbeDeferred"}
      BY <2>2, <2>3, <2>4 DEF LocalInv, StopInv, Flying, Stopped, arm!Phase
    <3>2. CASE phase[m] = "Waiting"
      <4>1. permit[m] = "queued" /\ avail = 0
        BY <3>2, <2>1, <2>2 DEF LocalInv, PermitInv
      <4>2. returned = 0
        BY <4>1, <2>1, <1>2 DEF Reclaim, slot!Grantable
      <4>3. permit'[m] = "queued" /\ avail' = 0 /\ returned' = 0
        BY <4>1, <4>2, <1>2 DEF Reclaim
      <4> QED BY <3>2, <4>3, <2>4
    <3>3. CASE phase[m] # "Waiting" /\ Grouped
      <4>1. \A p \in Members : accepting[p]
        BY <3>3, <2>4, <1>1 DEF GroupInv, TypeOK
      <4>2. Contains(queue, m)
        BY <3>1, <3>3, <2>4, <1>1 DEF NoForgottenMember, arm!IsLive
      <4>3. queue # <<>>
        BY <4>2, NonEmpty DEF Contains
      <4>4. deferred
        BY <3>3, <4>1, <4>3, <2>1 DEF Runnable
      <4> QED BY <3>3, <4>1, <4>4, <2>1, <1>1, <1>2 DEF ParkInv
    <3>4. CASE phase[m] # "Waiting" /\ ~Grouped
      <4>1. phase[m] = "Deferred"
        BY <3>1, <3>4, <2>1 DEF Runnable, arm!Runnable
      <4> QED BY <3>4, <4>1, <2>1, <2>4, <1>1, <1>2 DEF ParkInv
    <3> QED BY <3>2, <3>3, <3>4
  <2>5. CASE ~accepting[m]
    <3>1. phase[m] \in Stopped /\ (phase[m] = "Cancelling" /\ op[m] => cancel[m])
      BY <2>2, <2>5 DEF LocalInv, StopInv
    <3>2. phase[m] # "CancelDeferred"
      BY <2>1, <2>5 DEF Runnable, arm!Runnable
    <3>3. phase[m] = "Cancelling" => op[m]
      BY <2>3 DEF Flying
    <3> QED BY <3>1, <3>2, <3>3, <2>5 DEF Stopped
  <2> QED BY <2>4, <2>5
<1> QED BY <1>5, <1>6, <1>7 DEF IInv

\* A turn that ends without waiting.
LEMMA CommitKeeps ==
  ASSUME IInv, Reclaim, NewTurn, refused' = FALSE, loop \in {"activate", "idle"},
         UNCHANGED <<setup, receiveVars, groupVars, stopping, drained, kernelVars, leased>>
  PROVE  IInv'
<1>1. /\ loop' \in {"dispatch", "blocked"} /\ todo' \subseteq Members
      /\ spent' \in BOOLEAN /\ refused' \in BOOLEAN
  BY DEF NewTurn
<1>2. /\ NoBufferLost' /\ GroupInv' /\ EndInv'
      /\ \A p \in Members : LocalInv(p)'
  BY <1>1, ReclaimKeeps
<1>3. ParkInv' /\ BlockedInv'
  BY DEF NewTurn, ParkInv, BlockedInv
<1> QED BY <1>2, <1>3 DEF IInv

\* The bookkeeping of the turn: nothing but the place and the pass changes.
LEMMA TurnKeeps ==
  ASSUME IInv, UNCHANGED setup, EndDispatch \/ BeginPrePark \/ EndPrePark \/ Wake
  PROVE  IInv'
<1>1. /\ UNCHANGED <<phase, flight, retry, accepting, permit, ready, queue, stopping, refused,
                     op, cancel, cq, avail, leased, returned>>
      /\ deferred' = deferred \/ (loop' = "prepark" /\ deferred' \in BOOLEAN)
      /\ todo' \in {todo, Members} /\ spent' \in {spent, FALSE} /\ drained' \in BOOLEAN
      /\ loop' \in {"activate", "prepark", "idle", "dispatch"} /\ loop # "aborted"
  <2>1. CASE EndDispatch
    BY <2>1 DEF EndDispatch, receiveVars, wakeVars, groupVars, kernelVars, bufferVars
  <2>2. CASE BeginPrePark
    BY <2>2 DEF IInv, NoBufferLost, TypeOK, BeginPrePark, receiveVars, wakeVars, kernelVars,
         bufferVars
  <2>3. CASE EndPrePark
    BY <2>3 DEF IInv, NoBufferLost, TypeOK, EndPrePark, receiveVars, wakeVars, groupVars,
         kernelVars, bufferVars
  <2>4. CASE Wake
    BY <2>4 DEF IInv, NoBufferLost, TypeOK, Wake, NewTurn, receiveVars, wakeVars, groupVars,
         kernelVars, bufferVars
  <2> QED BY <2>1, <2>2, <2>3, <2>4
<1>2. TypeOK'
  BY <1>1 DEF IInv, NoBufferLost, TypeOK
<1>3. \A p \in Members : LocalInv(p)'
  BY <1>1, LocalKept DEF IInv
<1>4. GroupInv' /\ BlockedInv' /\ EndInv'
  BY <1>1 DEF IInv, GroupInv, NoForgottenMember, BlockedInv, EndInv, Grouped
<1>5. ParkInv'
  <2>1. CASE EndDispatch
    BY <2>1 DEF IInv, ParkInv, EndDispatch
  <2>2. CASE BeginPrePark
    <3>1. /\ todo' = Members /\ loop' = "prepark"
          /\ deferred' = (deferred /\ ~(Grouped /\ \A m \in Members : accepting[m]))
      BY <2>2 DEF IInv, ParkInv, BeginPrePark
    <3> QED BY <1>1, <3>1 DEF ParkInv, Grouped
  <2>3. CASE EndPrePark
    <3>1. /\ loop = "prepark" /\ loop' = "idle" /\ UNCHANGED <<todo, deferred, spent>>
          /\ ~Grouped => todo = {}
      BY <2>3 DEF EndPrePark, groupVars
    <3> QED BY <1>1, <3>1 DEF IInv, ParkInv, Grouped, Shared
  <2>4. CASE Wake
    BY <2>4 DEF ParkInv, Wake, NewTurn
  <2> QED BY <2>1, <2>2, <2>3, <2>4
<1> QED BY <1>1, <1>2, <1>3, <1>4, <1>5, BuffersStay DEF IInv

\* The end of the run.
LEMMA ShutdownKeeps ==
  ASSUME IInv, UNCHANGED setup, Shutdown
  PROVE  IInv'
<1>1. TypeOK /\ NoForgottenMember
  BY DEF IInv, NoBufferLost, GroupInv
<1>2. PICK F \in SUBSET Members : Stops(Members, phase, F)
  BY DEF Shutdown
<1>3. /\ loop = "idle" /\ loop' = "dispatch" /\ todo' = Members /\ spent' = FALSE
      /\ stopping' = TRUE /\ queue' = queue /\ drained' = drained
  BY DEF Shutdown, NewTurn
<1>4. phase \in [Members -> arm!Phase] /\ queue' \in Seq(Members) /\ IsInjective(queue')
  BY <1>1, <1>3 DEF TypeOK, NoForgottenMember
<1>5. /\ NoBufferLost' /\ GroupInv' /\ BlockedInv' /\ EndInv'
      /\ \A p \in Members : LocalInv(p)'
  BY <1>2, <1>3, <1>4, StopsKeep
<1>6. ParkInv'
  BY <1>3 DEF ParkInv
<1> QED BY <1>5, <1>6 DEF IInv

\* quiesce::run: everybody is idle, so nothing is in the kernel; or the end
\* is forced.
LEMMA FinishKeeps ==
  ASSUME IInv, UNCHANGED setup, Quiesce \/ Abort
  PROVE  IInv'
<1>1. TypeOK
  BY DEF IInv, NoBufferLost
<1>2. CASE Reclaim /\ NewTurn /\ Quiesce /\ loop' # "finished"
  <2>1. /\ refused' = FALSE /\ loop \in {"activate", "idle"}
        /\ UNCHANGED <<receiveVars, groupVars, stopping, drained, kernelVars, leased>>
    BY <1>2 DEF Quiesce
  <2> QED BY <1>2, <2>1, CommitKeeps
<1>3. CASE Finishes /\ loop' \in {"finished", "aborted"}
  <2>1. /\ UNCHANGED <<accepting, ready, queue, deferred, stopping, todo, drained, spent,
                       refused, op, cancel, cq, leased>>
        /\ stopping /\ loop \in {"activate", "idle"}
        /\ loop' = "finished" => \A m \in Members : phase[m] = "Idle"
        /\ \/ avail' = avail + returned /\ returned' = 0
           \/ avail' = avail /\ returned' = returned
    BY <1>3 DEF Quiesce, Abort, Quiescent, AllIdle, NewTurn, groupVars, kernelVars, bufferVars
  <2>2. /\ phase' = [m \in Members |-> "Idle"]
        /\ flight' = [m \in Members |-> FALSE]
        /\ retry' = [m \in Members |-> FALSE]
        /\ permit' = [m \in Members |-> "vacant"]
    <3>1. \A m \in Members : slot!Cancel(permit[m]) = "vacant"
      BY <1>1 DEF TypeOK, slot!Cancel, slot!Take, slot!Answer, slot!Slot
    <3>2. permit' = [m \in Members |-> slot!Cancel(permit[m])]
      BY <1>3 DEF Finishes
    <3> QED BY <1>3, <3>1, <3>2 DEF Finishes
  <2>3. avail \in Nat /\ leased \in Nat /\ returned \in Nat
    BY <1>1 DEF TypeOK
  <2>4. avail' \in Nat /\ returned' \in Nat
    BY <2>1, <2>3
  <2>5. TypeOK'
    BY <1>1, <1>3, <2>1, <2>2, <2>4 DEF TypeOK, arm!Phase, slot!Slot
  <2>6. NoBufferLost'
    <3>1. avail' + leased' + returned' = avail + leased + returned + 0
      <4>1. CASE avail' = avail + returned /\ returned' = 0
        BY <4>1, <2>1, <2>3
      <4>2. CASE avail' = avail /\ returned' = returned
        BY <4>2, <2>1, <2>3
      <4> QED BY <4>1, <4>2, <2>1
    <3>2. Cardinality(Carried') = Cardinality(Carried) - 0
      BY <1>1, <2>1, CarriedSame, CarriedFinite
    <3> QED BY <2>5, <3>1, <3>2, BuffersMove DEF IInv
  <2>7. \A m \in Members : ~accepting[m]
    BY <2>1 DEF IInv, EndInv
  <2>8. ASSUME NEW p \in Members PROVE LocalInv(p)'
    <3>1. /\ phase'[p] = "Idle" /\ ~flight'[p] /\ ~retry'[p] /\ permit'[p] = "vacant"
          /\ ~accepting[p] /\ LocalInv(p)
      BY <2>2, <2>7 DEF IInv
    <3>2. EntryInv(p)'
      BY <2>1, <3>1 DEF LocalInv, EntryInv, Buffers
    <3>3. FlightInv(p)'
      BY <1>3, <2>1, <3>1 DEF LocalInv, FlightInv, Flying
    <3>4. PermitInv(p)' /\ StopInv(p)'
      BY <2>1, <3>1 DEF PermitInv, StopInv, Stopped
    <3> QED BY <3>2, <3>3, <3>4 DEF LocalInv
  <2>9. GroupInv'
    BY <2>1, <2>7 DEF IInv, GroupInv, NoForgottenMember, Grouped
  <2>10. ParkInv' /\ BlockedInv' /\ EndInv'
    BY <1>3, <2>1, <2>2, <2>7 DEF ParkInv, BlockedInv, EndInv
  <2> QED BY <2>6, <2>8, <2>9, <2>10 DEF IInv
<1> QED BY <1>2, <1>3 DEF Quiesce, Abort, NewTurn

-----------------------------------------------------------------------------
(* The kernel and the application.                                         *)

\* Only a running operation posts, and nothing after its last completion.
LEMMA PostKeeps ==
  ASSUME IInv, UNCHANGED setup, NEW m \in Members,
         NEW kind \in {"Data", "Exhausted", "Failed", "Control"},
         NEW flow \in {"More", "Last"}, Post(m, kind, flow),
         IF kind = "Data" THEN avail > 0 /\ avail' = avail - 1
         ELSE avail' = avail /\ flow = "Last",
         kind = "Exhausted" => avail = 0
  PROVE  IInv'
<1> DEFINE e == [kind |-> kind, flow |-> flow]
           n == Len(cq[m])
<1>1. TypeOK /\ LocalInv(m) /\ EntryInv(m) /\ NoBufferLost
  BY DEF IInv, NoBufferLost, LocalInv
<1>2. /\ op[m] /\ cq' = [cq EXCEPT ![m] = Append(@, e)]
      /\ op' = [op EXCEPT ![m] = (flow = "More")]
      /\ cancel' = [cancel EXCEPT ![m] = cancel[m] /\ flow = "More"]
      /\ UNCHANGED <<phase, flight, retry, accepting, permit, ready, queue, deferred, loop,
                     stopping, todo, drained, spent, refused, leased, returned>>
  BY DEF Post, receiveVars, wakeVars, groupVars, turnVars
<1>3. e \in Entry /\ e.kind = kind /\ e.flow = flow
  BY DEF Entry
<1>4. avail \in Nat /\ leased \in Nat /\ returned \in Nat /\ avail' \in Nat
  BY <1>1 DEF TypeOK
<1>5. Buffers' = Buffers /\ Buffers \in Nat /\ Cardinality(Carried) \in Nat
  BY <1>1, CarriedFinite DEF Buffers
<1>6. kind = "Data" => Cardinality(Carried) < Buffers
  <2>1. avail + leased + returned + Cardinality(Carried) = Buffers
    BY <1>1 DEF NoBufferLost
  <2> QED BY <2>1, <1>4, <1>5
<1>7. /\ Cardinality(Carried') =
           IF kind = "Data" THEN Cardinality(Carried) + 1 ELSE Cardinality(Carried)
      /\ kind = "Data" => n + 1 <= Buffers
  BY <1>1, <1>2, <1>6, CarriedPost
<1> HIDE DEF e
<1>8. /\ n \in Nat /\ cq'[m] \in Seq(Entry) /\ Len(cq'[m]) = n + 1 /\ cq'[m][n + 1] = e
      /\ \A i \in 1..n : cq'[m][i] = cq[m][i]
      /\ op'[m] = (flow = "More") /\ cancel'[m] = (cancel[m] /\ flow = "More")
  <2>1. cq[m] \in Seq(Entry) /\ cq'[m] = Append(cq[m], e)
    BY <1>1, <1>2 DEF TypeOK
  <2>2. op'[m] = (flow = "More") /\ cancel'[m] = (cancel[m] /\ flow = "More")
    BY <1>1, <1>2 DEF TypeOK
  <2> QED BY <2>1, <2>2, <1>3
<1>9. TypeOK'
  <2>1. cq' \in [Members -> Seq(Entry)]
    BY <1>1, <1>2, <1>8 DEF TypeOK
  <2>2. op' \in [Members -> BOOLEAN] /\ cancel' \in [Members -> BOOLEAN]
    BY <1>1, <1>2 DEF TypeOK
  <2> QED BY <1>1, <1>2, <1>4, <2>1, <2>2 DEF TypeOK
<1>10. NoBufferLost'
  <2> DEFINE d == IF kind = "Data" THEN 0 - 1 ELSE 0
  <2>1. d \in Int /\ avail' + leased' + returned' = avail + leased + returned + d
    <3>1. leased' = leased /\ returned' = returned
      BY <1>2
    <3>2. CASE kind = "Data"
      <4>1. avail' = avail - 1 /\ d = 0 - 1
        BY <3>2
      <4> HIDE DEF d
      <4> QED BY <3>1, <4>1, <1>4
    <3>3. CASE kind # "Data"
      <4>1. avail' = avail /\ d = 0
        BY <3>3
      <4> HIDE DEF d
      <4> QED BY <3>1, <4>1, <1>4
    <3> QED BY <3>2, <3>3
  <2>2. Cardinality(Carried') = Cardinality(Carried) - d
    BY <1>5, <1>7
  <2> HIDE DEF d
  <2> QED BY <1>1, <1>9, <2>1, <2>2, BuffersMove
<1>11. \A i \in 1..n : cq[m][i].kind = "Data" /\ cq[m][i].flow # "Last" /\ i <= Buffers
  BY <1>1, <1>2 DEF EntryInv
<1> HIDE DEF n
<1>12. EntryInv(m)'
  <2> SUFFICES ASSUME NEW i \in 1..(n + 1)
               PROVE  /\ IF cq'[m][i].kind = "Data" THEN i <= Buffers
                                                    ELSE cq'[m][i].flow = "Last"
                      /\ cq'[m][i].flow = "Last" => i = n + 1 /\ ~op'[m]
    BY <1>8 DEF EntryInv, Buffers
  <2>1. CASE i = n + 1
    BY <2>1, <1>3, <1>7, <1>8
  <2>2. CASE i # n + 1
    <3>1. i \in 1..n
      BY <2>2, <1>8
    <3> QED BY <3>1, <1>8, <1>11
  <2> QED BY <2>1, <2>2
<1>13. cq'[m] # <<>> /\ cq'[m][Len(cq'[m])].flow = flow
  <2>1. n + 1 \in 1..Len(cq'[m])
    BY <1>8
  <2> QED BY <2>1, <1>3, <1>8, NonEmpty
<1>14. FlightInv(m)'
  <2>1. loop # "aborted" => flight[m] /\ phase[m] \in Flying
    BY <1>1, <1>2 DEF LocalInv, FlightInv
  <2> QED BY <2>1, <1>2, <1>8, <1>13 DEF FlightInv
<1>15. ~(phase[m] = "Waiting" /\ avail = 0 /\ kind = "Data")
  BY <1>4
<1>16. PermitInv(m)'
  <2>1. ASSUME NEW i \in 1..(n + 1), cq'[m][i].kind = "Exhausted" PROVE avail' = 0
    <3>1. i = n + 1
      BY <2>1, <1>8, <1>11
    <3> QED BY <2>1, <3>1, <1>3, <1>8
  <2>2. avail = 0 => avail' = 0
    BY <1>4
  <2> QED BY <2>1, <2>2, <1>1, <1>2, <1>8 DEF LocalInv, PermitInv
<1>17. StopInv(m)'
  BY <1>1, <1>2, <1>8 DEF LocalInv, StopInv
<1>18. Only(m)
  BY <1>1, <1>2 DEF Only, TypeOK
<1>19. \A p \in Members : LocalInv(p)'
  <2>1. avail = 0 => avail' = 0
    BY <1>4
  <2>2. LocalInv(m)'
    BY <1>12, <1>14, <1>16, <1>17 DEF LocalInv
  <2> QED BY <2>1, <2>2, <1>2, <1>18, OnlyKeeps
<1>20. GroupInv' /\ ParkInv' /\ EndInv'
  BY <1>2 DEF IInv, GroupInv, NoForgottenMember, ParkInv, EndInv, Grouped, Shared
<1>21. BlockedInv'
  <2>1. avail = 0 => avail' = 0
    BY <1>4
  <2> SUFFICES ASSUME loop = "blocked", Grouped \/ ~Shared, NEW p \in Members, cq'[p] = <<>>
               PROVE  IF accepting[p]
                        THEN op'[p] \/ (phase[p] = "Waiting" /\ permit[p] = "queued"
                                          /\ avail' = 0 /\ returned = 0)
                        ELSE phase[p] = "Idle" \/ (op'[p] /\ cancel'[p])
    BY <1>2 DEF BlockedInv, Grouped, Shared
  <2>2. p # m
    BY <1>13
  <2> QED BY <2>1, <2>2, <1>18 DEF IInv, BlockedInv, Only
<1> QED BY <1>10, <1>19, <1>20, <1>21 DEF IInv

\* Every completion of the kernel.
LEMMA KernelKeeps ==
  ASSUME IInv, UNCHANGED setup, NEW m \in Members, Kernel(m)
  PROVE  IInv'
<1>1. CASE Datagram(m)
  <2>1. PICK flow \in {"More", "Last"} : Post(m, "Data", flow)
    BY <1>1 DEF Datagram
  <2> QED BY <1>1, <2>1, PostKeeps DEF Datagram
<1>2. CASE NoBuffer(m)
  BY <1>2, PostKeeps DEF NoBuffer
<1>3. CASE Broken(m)
  BY <1>3, PostKeeps DEF Broken
<1>4. CASE Ended(m)
  BY <1>4, PostKeeps DEF Ended
<1> QED BY <1>1, <1>2, <1>3, <1>4 DEF Kernel

\* A packet is dropped.
LEMMA DropLeaseKeeps ==
  ASSUME IInv, UNCHANGED setup, DropLease
  PROVE  IInv'
<1>1. /\ UNCHANGED <<phase, flight, retry, accepting, permit, ready, queue, deferred, loop,
                     stopping, todo, drained, spent, refused, op, cancel, cq, avail>>
      /\ loop # "blocked" /\ leased > 0 /\ leased' = leased - 1 /\ returned' = returned + 1
  BY DEF DropLease, receiveVars, wakeVars, groupVars, turnVars, kernelVars
<1>2. TypeOK /\ avail \in Nat /\ leased \in Nat /\ returned \in Nat
  BY DEF IInv, NoBufferLost, TypeOK
<1>3. TypeOK'
  BY <1>1, <1>2 DEF TypeOK
<1>4. NoBufferLost'
  <2>1. avail' + leased' + returned' = avail + leased + returned + 0
    BY <1>1, <1>2
  <2>2. Cardinality(Carried') = Cardinality(Carried) - 0
    BY <1>1, <1>2, CarriedSame, CarriedFinite
  <2> QED BY <1>3, <2>1, <2>2, BuffersMove DEF IInv
<1>5. \A p \in Members : LocalInv(p)'
  BY <1>1, LocalKept DEF IInv
<1>6. GroupInv' /\ ParkInv' /\ BlockedInv' /\ EndInv'
  BY <1>1 DEF IInv, GroupInv, NoForgottenMember, ParkInv, BlockedInv, EndInv, Grouped, Shared
<1> QED BY <1>4, <1>5, <1>6 DEF IInv

\* No step at all.
LEMMA StutterKeeps ==
  ASSUME IInv, UNCHANGED <<setup, vars>>
  PROVE  IInv'
<1>1. UNCHANGED <<phase, flight, retry, accepting, permit, ready, queue, deferred, loop,
                  stopping, todo, drained, spent, refused, op, cancel, cq, avail, leased,
                  returned, setup>>
  BY DEF vars, receiveVars, wakeVars, groupVars, turnVars, kernelVars, bufferVars
<1>2. TypeOK'
  BY <1>1 DEF IInv, NoBufferLost, TypeOK
<1>3. \A p \in Members : LocalInv(p)'
  BY <1>1, LocalKept DEF IInv
<1>4. GroupInv' /\ ParkInv' /\ BlockedInv' /\ EndInv'
  BY <1>1 DEF IInv, GroupInv, NoForgottenMember, ParkInv, BlockedInv, EndInv, Grouped, Shared
<1> QED BY <1>1, <1>2, <1>3, <1>4, BuffersStay DEF IInv

-----------------------------------------------------------------------------
(* The specification.                                                      *)

\* fifo::List::try_with: the queue starts with every member, once.
LEMMA QueueStarts ==
  /\ SetToSeq(Members) \in Seq(Members) /\ IsInjective(SetToSeq(Members))
  /\ \A m \in Members : Contains(SetToSeq(Members), m)
<1> DEFINE n == Cardinality(Members)
           s == SetToSeq(Members)
<1>1. n \in Nat /\ \E f \in [1..n -> Members] : IsInjective(f)
  BY MembersAssumption, FS_CardinalityType DEF ExistsBijection, Bijection, Injection
<1>2. s \in [1..n -> Members] /\ IsInjective(s)
  BY <1>1 DEF SetToSeq
<1> HIDE DEF s
<1>3. s \in Injection(1..n, Members)
  BY <1>2 DEF Injection
<1>4. Cardinality(1..n) = n
  BY <1>1, FS_Interval
<1>5. s \in Surjection(1..n, Members)
  BY <1>3, <1>4, MembersAssumption, FS_Injection
<1>6. s \in Seq(Members) /\ Len(s) = n
  BY <1>1, <1>2
<1>7. \A m \in Members : Contains(s, m)
  BY <1>5, <1>6 DEF Surjection, Contains
<1> QED BY <1>2, <1>6, <1>7 DEF s

\* The first state.
LEMMA InitHolds == Init => IInv
<1> SUFFICES ASSUME Init PROVE IInv
  OBVIOUS
<1> USE DEF Init
<1>1. Buffers \in Nat
  BY SetupAssumption DEF Buffers
<1>2. queue \in Seq(Members) /\ IsInjective(queue)
      /\ (Grouped => \A m \in Members : Contains(queue, m))
  <2>1. CASE Grouped
    BY <2>1, QueueStarts
  <2>2. CASE ~Grouped
    <3>1. queue = <<>>
      BY <2>2
    <3> QED BY <2>2, <3>1 DEF IsInjective
  <2> QED BY <2>1, <2>2
<1>3. TypeOK
  <2>1. phase \in [Members -> arm!Phase] /\ permit \in [Members -> slot!Slot]
    BY DEF arm!Phase, slot!Slot
  <2>2. cq \in [Members -> Seq(Entry)]
    <3>1. <<>> \in Seq(Entry)
      OBVIOUS
    <3> QED BY <3>1
  <2>3. /\ flight \in [Members -> BOOLEAN] /\ retry \in [Members -> BOOLEAN]
        /\ accepting \in [Members -> BOOLEAN] /\ op \in [Members -> BOOLEAN]
        /\ cancel \in [Members -> BOOLEAN]
    OBVIOUS
  <2>4. setup \in Setups /\ avail \in Nat /\ leased \in Nat /\ returned \in Nat
    BY <1>1
  <2>5. ready \subseteq Members /\ todo \subseteq Members
        /\ loop = "dispatch" /\ stopping = FALSE /\ drained = FALSE /\ spent = FALSE
        /\ refused = FALSE /\ deferred = FALSE
    OBVIOUS
  <2> QED BY <1>2, <2>1, <2>2, <2>3, <2>4, <2>5 DEF TypeOK
<1>4. Carried = {}
  BY DEF Carried
<1>5. NoBufferLost
  <2>1. Cardinality(Carried) = 0
    BY <1>4, FS_EmptySet
  <2> QED BY <1>1, <1>3, <2>1 DEF NoBufferLost
<1>6. ASSUME NEW m \in Members PROVE LocalInv(m)
  BY DEF LocalInv, EntryInv, FlightInv, PermitInv, StopInv, Flying, Stopped
<1>7. GroupInv
  BY <1>2 DEF GroupInv, NoForgottenMember
<1>8. ParkInv /\ BlockedInv /\ EndInv
  BY DEF ParkInv, BlockedInv, EndInv
<1> QED BY <1>5, <1>6, <1>7, <1>8 DEF IInv

\* Every step.
LEMMA NextKeeps ==
  ASSUME IInv, [Next]_<<setup, vars>>
  PROVE  IInv'
<1>1. CASE UNCHANGED <<setup, vars>>
  BY <1>1, StutterKeeps
<1>2. CASE Next
  <2>1. UNCHANGED setup
    BY <1>2 DEF Next
  <2>2. ASSUME NEW m \in Members, PrePark(m) PROVE IInv'
    BY <2>1, <2>2, ArmKeeps, StopEndpointKeeps, StarveKeeps, RetryStopKeeps DEF PrePark
  <2>3. ASSUME NEW m \in Members,
               Dispatch(m) \/ Activate(m) \/ Poke(m) \/ PrePark(m) \/ Kernel(m)
        PROVE  IInv'
    BY <2>1, <2>2, <2>3, DispatchKeeps, ActivateKeeps, PokeKeeps, KernelKeeps
  <2>4. CASE EndDispatch \/ BeginPrePark \/ EndPrePark \/ Wake
    BY <2>1, <2>4, TurnKeeps
  <2>5. CASE Commit
    BY <2>1, <2>5, CommitKeeps DEF Commit
  <2>6. CASE Wait
    BY <2>1, <2>6, WaitKeeps
  <2>7. CASE Shutdown
    BY <2>1, <2>7, ShutdownKeeps
  <2>8. CASE Quiesce \/ Abort
    BY <2>1, <2>8, FinishKeeps
  <2>9. CASE DropLease
    BY <2>1, <2>9, DropLeaseKeeps
  <2>10. CASE Over
    BY <2>1, <2>10, StutterKeeps DEF Over
  <2> QED BY <1>2, <2>3, <2>4, <2>5, <2>6, <2>7, <2>8, <2>9, <2>10 DEF Next
<1> QED BY <1>1, <1>2

\* The inductive invariant holds throughout.
LEMMA Invariance == Spec => []IInv
BY InitHolds, NextKeeps, PTL DEF Spec

\* No buffer is lost or returned twice, however many sockets share the pool
\* and wherever the turn stands: every provided buffer is selectable, on an
\* undispatched completion, leased, or waiting to be reclaimed.
THEOREM BuffersAreKept == Spec => []NoBufferLost
<1>1. IInv => NoBufferLost
  BY DEF IInv
<1> QED BY <1>1, Invariance, PTL

\* The arm and the kernel agree on who owns the receive (arm::State::complete,
\* State::stop): a flight is held exactly while its operation runs or its last
\* completion is undelivered.
THEOREM FlightsAgree == Spec => []OneFlight
<1>1. IInv => OneFlight
  <2> SUFFICES ASSUME IInv, loop # "aborted", NEW m \in Members
               PROVE  /\ flight[m] <=> phase[m] \in Flying
                      /\ IF flight[m] THEN op[m] # Ends(m) ELSE ~op[m] /\ cq[m] = <<>>
    BY DEF OneFlight, Flying
  <2>1. LocalInv(m) /\ TypeOK
    BY DEF IInv, NoBufferLost
  <2>2. op[m] => ~Ends(m)
    BY <2>1 DEF LocalInv, EntryInv, Ends
  <2>3. cq[m] # <<>> => Len(cq[m]) \in 1..Len(cq[m])
    BY <2>1, TailShifts DEF TypeOK
  <2>4. cq[m] # <<>> /\ cq[m][Len(cq[m])].flow = "Last" => Ends(m)
    BY <2>3 DEF Ends
  <2>5. op[m] \in BOOLEAN /\ Ends(m) \in BOOLEAN
    BY <2>1 DEF TypeOK, Ends
  <2> QED BY <2>1, <2>2, <2>4, <2>5 DEF LocalInv, FlightInv
<1> QED BY <1>1, Invariance, PTL

\* Receive::stop is final: whatever grant, wake or retry was under way, the
\* socket holds no registration and no attempt and only waits for its flight.
THEOREM StopsAreFinal == Spec => []StopIsFinal
<1>1. IInv => StopIsFinal
  BY DEF IInv, LocalInv, StopInv, StopIsFinal, Stopped
<1> QED BY <1>1, Invariance, PTL

\* A receive that waits for a buffer is registered and no buffer came back
\* since, or its grant is on the way (Registration::exhausted, resume).
THEOREM WaitsAreRegistered == Spec => []WaitingIsRegistered
<1>1. IInv => WaitingIsRegistered
  BY DEF IInv, LocalInv, PermitInv, WaitingIsRegistered
<1> QED BY <1>1, Invariance, PTL

\* Every member of an accepting group that is not armed is in the queue from
\* which pre_park arms, once (group::mark, fifo::List).
THEOREM MembersAreRemembered == Spec => []NoForgottenMember
<1>1. IInv => NoForgottenMember
  BY DEF IInv, GroupInv
<1> QED BY <1>1, Invariance, PTL

\* quiesce::run finishes the endpoints only when nothing of theirs is left in
\* the kernel.
THEOREM FinishesAreClean == Spec => []FinishIsClean
<1>1. IInv => FinishIsClean
  BY DEF IInv, EndInv, LocalInv, FlightInv, FinishIsClean
<1> QED BY <1>1, Invariance, PTL

\* The thread never blocks on work of its own (Core::timeout, Idle::wait): for
\* group endpoints, and for endpoints whose budget is the turn's.  An endpoint
\* that shares its budget with siblings is the exception, which the run
\* datagram_shared exhibits.
THEOREM WakesAreNotLost == Spec => []((Grouped \/ ~Shared) => NoLostWake)
<1>1. IInv => ((Grouped \/ ~Shared) => NoLostWake)
  <2> SUFFICES ASSUME IInv, Grouped \/ ~Shared, loop = "blocked",
                      \A p \in Members : cq[p] = <<>>, NEW m \in Members
               PROVE  IF accepting[m]
                        THEN op[m] \/ (phase[m] = "Waiting" /\ permit[m] = "queued"
                                         /\ leased > 0)
                        ELSE phase[m] = "Idle" \/ (op[m] /\ cancel[m])
    BY DEF NoLostWake
  <2>1. IF accepting[m]
          THEN op[m] \/ (phase[m] = "Waiting" /\ permit[m] = "queued"
                           /\ avail = 0 /\ returned = 0)
          ELSE phase[m] = "Idle" \/ (op[m] /\ cancel[m])
    BY DEF IInv, BlockedInv
  <2>2. Carried = {}
    BY DEF Carried
  <2>3. Cardinality(Carried) = 0
    BY <2>2, FS_EmptySet
  <2>4. TypeOK /\ avail + leased + returned + Cardinality(Carried) = Buffers
    BY DEF IInv, NoBufferLost
  <2>5. Buffers \in Nat /\ Buffers > 0 /\ leased \in Nat
    BY <2>4, CarriedFinite DEF TypeOK
  <2>6. avail = 0 /\ returned = 0 => leased > 0
    BY <2>3, <2>4, <2>5
  <2> QED BY <2>1, <2>6
<1> QED BY <1>1, Invariance, PTL
=============================================================================
