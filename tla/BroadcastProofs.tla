---------------------------- MODULE BroadcastProofs ---------------------------
(***************************************************************************)
(* What the users of a connection receive over the broadcast socket, for   *)
(* every number of users, of writing threads, of instructions and of       *)
(* writes per instruction.  The argument is about locks: who has the lock  *)
(* of a user's socket in which pass, although it is taken in one call of   *)
(* guac_client_foreach_user and given back in another, and users join and  *)
(* leave in between.                                                       *)
(***************************************************************************)
EXTENDS Broadcast, SequenceTheorems, TLAPS

-----------------------------------------------------------------------------
(* Sequences.                                                              *)

LEMMA AppendFacts ==
    ASSUME NEW S, NEW s \in Seq(S), NEW x \in S
    PROVE  /\ Append(s, x) \in Seq(S) /\ Append(s, x) # <<>>
           /\ Len(Append(s, x)) = Len(s) + 1 /\ Len(s) \in Nat
           /\ Append(s, x)[Len(s) + 1] = x
           /\ \A i \in 1..Len(s) : Append(s, x)[i] = s[i]
  OBVIOUS

\* The users of a list without repetition that are not its head are those of its tail.
LEMMA TailFacts ==
    ASSUME NEW S, NEW s \in Seq(S), s # <<>>, Distinct(s)
    PROVE  /\ Head(s) \in S /\ Tail(s) \in Seq(S) /\ Distinct(Tail(s))
           /\ Holds(s, Head(s))
           /\ \A x : Holds(Tail(s), x) <=> Holds(s, x) /\ x # Head(s)
  <1>1. /\ Head(s) = s[1] /\ Len(s) \in Nat /\ Len(s) > 0 /\ Tail(s) \in Seq(S)
        /\ Len(Tail(s)) = Len(s) - 1
        /\ \A i \in 1..Len(Tail(s)) : Tail(s)[i] = s[i + 1]
    OBVIOUS
  <1>2. Head(s) \in S
    BY <1>1
  <1>3. Distinct(Tail(s))
    BY <1>1 DEF Distinct
  <1>4. Holds(s, Head(s))
    BY <1>1 DEF Holds
  <1>5. ASSUME NEW x, Holds(Tail(s), x) PROVE Holds(s, x) /\ x # Head(s)
    <2>1. PICK i \in 1..Len(Tail(s)) : Tail(s)[i] = x
      BY <1>5 DEF Holds
    <2>2. i + 1 \in 1..Len(s) /\ s[i + 1] = x /\ i + 1 # 1 /\ 1 \in 1..Len(s)
      BY <1>1, <2>1
    <2> QED BY <1>1, <2>2 DEF Holds, Distinct
  <1>6. ASSUME NEW x, Holds(s, x), x # Head(s) PROVE Holds(Tail(s), x)
    <2>1. PICK i \in 1..Len(s) : s[i] = x
      BY <1>6 DEF Holds
    <2>2. i - 1 \in 1..Len(Tail(s)) /\ Tail(s)[i - 1] = x
      BY <1>1, <1>6, <2>1
    <2> QED BY <2>2 DEF Holds
  <1> QED BY <1>1, <1>2, <1>3, <1>4, <1>5, <1>6

LEMMA ConsFacts ==
    ASSUME NEW S, NEW s \in Seq(S), NEW x \in S, Distinct(s), ~Holds(s, x)
    PROVE  /\ <<x>> \o s \in Seq(S) /\ Distinct(<<x>> \o s)
           /\ \A y : Holds(<<x>> \o s, y) <=> Holds(s, y) \/ y = x
  <1> DEFINE t == <<x>> \o s
  <1>1. /\ t \in Seq(S) /\ Len(s) \in Nat /\ Len(t) = Len(s) + 1 /\ t[1] = x
        /\ \A i \in 1..Len(s) : t[i + 1] = s[i]
    OBVIOUS
  <1>2. \A i \in 1..Len(t) : i # 1 => i - 1 \in 1..Len(s) /\ t[i] = s[i - 1]
    BY <1>1
  <1> HIDE DEF t
  <1>3. Distinct(t)
    <2> SUFFICES ASSUME NEW i \in 1..Len(t), NEW j \in 1..Len(t), t[i] = t[j] PROVE i = j
      BY DEF Distinct
    <2>1. CASE i = 1 /\ j # 1
      BY <1>1, <1>2, <2>1 DEF Holds
    <2>2. CASE i # 1 /\ j = 1
      BY <1>1, <1>2, <2>2 DEF Holds
    <2>3. CASE i # 1 /\ j # 1
      <3>1. i - 1 = j - 1
        BY <1>2, <2>3 DEF Distinct
      <3> QED BY <1>1, <3>1
    <2> QED BY <2>1, <2>2, <2>3
  <1>4. ASSUME NEW y, Holds(t, y) PROVE Holds(s, y) \/ y = x
    BY <1>1, <1>2, <1>4 DEF Holds
  <1>5. ASSUME NEW y, Holds(s, y) \/ y = x PROVE Holds(t, y)
    <2>1. CASE y = x
      BY <1>1, <2>1 DEF Holds
    <2>2. CASE Holds(s, y)
      <3>1. PICK i \in 1..Len(s) : s[i] = y
        BY <2>2 DEF Holds
      <3>2. i + 1 \in 1..Len(t) /\ t[i + 1] = y
        BY <1>1, <3>1
      <3> QED BY <3>2 DEF Holds
    <2> QED BY <1>5, <2>1, <2>2
  <1> QED BY <1>1, <1>3, <1>4, <1>5 DEF t

LEMMA RemoveFacts ==
    ASSUME NEW S, NEW s \in Seq(S), NEW i \in 1..Len(s), Distinct(s)
    PROVE  /\ RemoveAt(s, i) \in Seq(S) /\ Distinct(RemoveAt(s, i))
           /\ \A y : Holds(RemoveAt(s, i), y) <=> Holds(s, y) /\ y # s[i]
  <1> DEFINE t == RemoveAt(s, i)
  <1>1. /\ SubSeq(s, 1, i - 1) \in Seq(S) /\ Len(SubSeq(s, 1, i - 1)) = i - 1
        /\ SubSeq(s, i + 1, Len(s)) \in Seq(S) /\ Len(SubSeq(s, i + 1, Len(s))) = Len(s) - i
        /\ \A j \in 1..(i - 1) : SubSeq(s, 1, i - 1)[j] = s[j]
        /\ \A j \in 1..(Len(s) - i) : SubSeq(s, i + 1, Len(s))[j] = s[i + j]
    OBVIOUS
  <1>2. /\ t \in Seq(S) /\ Len(s) \in Nat /\ Len(t) = Len(s) - 1
        /\ \A j \in 1..Len(t) : t[j] = IF j < i THEN s[j] ELSE s[j + 1]
    <2> DEFINE a == SubSeq(s, 1, i - 1)
               b == SubSeq(s, i + 1, Len(s))
    <2>1. t = a \o b
      BY DEF RemoveAt
    <2> HIDE DEF a, b, t
    <2>2. /\ a \in Seq(S) /\ Len(a) = i - 1 /\ b \in Seq(S) /\ Len(b) = Len(s) - i
          /\ \A j \in 1..(i - 1) : a[j] = s[j]
          /\ \A j \in 1..(Len(s) - i) : b[j] = s[i + j]
      BY <1>1 DEF a, b
    <2>3. /\ t \in Seq(S) /\ Len(s) \in Nat /\ Len(t) = Len(s) - 1
      <3>1. a \o b \in Seq(S) /\ Len(a \o b) = Len(a) + Len(b)
        BY <2>2, ConcatProperties
      <3>2. Len(s) \in Nat
        OBVIOUS
      <3> QED BY <2>1, <2>2, <3>1, <3>2
    <2>4. \A j \in 1..Len(t) : j < i => t[j] = s[j]
      BY <2>1, <2>2, <2>3
    <2>5. \A j \in 1..Len(t) : j >= i => t[j] = s[j + 1]
      <3> SUFFICES ASSUME NEW j \in 1..Len(t), j >= i PROVE t[j] = s[j + 1]
        OBVIOUS
      <3>1. t[j] = b[j - (i - 1)] /\ j - (i - 1) \in 1..(Len(s) - i)
        BY <2>1, <2>2, <2>3
      <3>2. b[j - (i - 1)] = s[i + (j - (i - 1))]
        BY <2>2, <3>1
      <3>3. i + (j - (i - 1)) = j + 1
        BY <2>3
      <3> QED BY <3>1, <3>2, <3>3
    <2> QED BY <2>3, <2>4, <2>5
  <1> HIDE DEF t
  <1>3. Distinct(t)
    <2> SUFFICES ASSUME NEW j \in 1..Len(t), NEW k \in 1..Len(t), t[j] = t[k] PROVE j = k
      BY DEF Distinct
    <2> DEFINE at(n) == IF n < i THEN n ELSE n + 1
    <2>1. at(j) \in 1..Len(s) /\ at(k) \in 1..Len(s) /\ s[at(j)] = s[at(k)]
      BY <1>2
    <2>2. at(j) = at(k)
      BY <2>1 DEF Distinct
    <2> QED BY <1>2, <2>2
  <1>4. ASSUME NEW y, Holds(t, y) PROVE Holds(s, y) /\ y # s[i]
    <2>1. PICK j \in 1..Len(t) : t[j] = y
      BY <1>4 DEF Holds
    <2>2. \E k \in 1..Len(s) : s[k] = y /\ k # i
      BY <1>2, <2>1
    <2> QED BY <2>2 DEF Holds, Distinct
  <1>5. ASSUME NEW y, Holds(s, y), y # s[i] PROVE Holds(t, y)
    <2>1. PICK j \in 1..Len(s) : s[j] = y
      BY <1>5 DEF Holds
    <2>2. CASE j < i
      BY <1>2, <2>1, <2>2 DEF Holds
    <2>3. CASE j > i
      <3>1. j - 1 \in 1..Len(t) /\ t[j - 1] = y
        BY <1>2, <2>1, <2>3
      <3> QED BY <3>1 DEF Holds
    <2> QED BY <1>5, <2>1, <2>2, <2>3
  <1> QED BY <1>2, <1>3, <1>4, <1>5 DEF t

-----------------------------------------------------------------------------
(* Streams.                                                                *)

LEMMA WrittenType ==
    ASSUME NEW w \in Users \union Writers, NEW n \in Nat, NEW k \in 1..Chunks
    PROVE  /\ Written(w, n, k) \in Writes
           /\ Written(w, n, k).from = w /\ Written(w, n, k).n = n /\ Written(w, n, k).k = k
  BY DEF Written, Writes

\* The next write of the instruction a stream ends with keeps it whole.
LEMMA WholeAppend ==
    ASSUME NEW s \in Seq(Writes), Whole(s),
           NEW w \in Users \union Writers, NEW n \in Nat, NEW k \in 1..Chunks,
           EndsWith(s, w, n, k - 1)
    PROVE  /\ Whole(Append(s, Written(w, n, k)))
           /\ EndsWith(Append(s, Written(w, n, k)), w, n, k)
  <1> DEFINE x == Written(w, n, k)
             t == Append(s, x)
  <1>1. x \in Writes /\ x.k = k
    BY WrittenType
  <1>2. /\ t \in Seq(Writes) /\ t # <<>> /\ Len(t) = Len(s) + 1 /\ Len(s) \in Nat
        /\ t[Len(s) + 1] = x /\ \A i \in 1..Len(s) : t[i] = s[i]
    BY <1>1, AppendFacts
  <1>3. \A i \in 1..Len(s) : s[i] \in Writes
    OBVIOUS
  <1>4. k > 1 => /\ Len(s) > 0 /\ s[Len(s)] = [x EXCEPT !.k = @ - 1]
                 /\ s[Len(s)].k = k - 1 /\ x = [s[Len(s)] EXCEPT !.k = @ + 1]
    <2> SUFFICES ASSUME k > 1
                 PROVE  /\ Len(s) > 0 /\ s[Len(s)] = [x EXCEPT !.k = @ - 1]
                        /\ s[Len(s)].k = k - 1 /\ x = [s[Len(s)] EXCEPT !.k = @ + 1]
      OBVIOUS
    <2>1. s # <<>> /\ s[Len(s)] = Written(w, n, k - 1)
      BY DEF EndsWith
    <2> QED BY <2>1 DEF Written
  <1>5. k = 1 => s = <<>> \/ s[Len(s)].k = Chunks
    BY DEF EndsWith
  <1>6. EndsWith(t, w, n, k)
    BY <1>2 DEF EndsWith
  <1> DEFINE before(y) == [y EXCEPT !.k = @ - 1]
             after(y) == [y EXCEPT !.k = @ + 1]
             fits(z, i) == /\ z[i].k > 1 => i > 1 /\ z[i - 1] = before(z[i])
                           /\ z[i].k < Chunks /\ i < Len(z) => z[i + 1] = after(z[i])
  <1>7. \A i \in 1..Len(s) : fits(s, i)
    BY DEF Whole
  <1>8. k > 1 => s[Len(s)] = before(x) /\ x = after(s[Len(s)])
    BY <1>4
  <1> HIDE DEF t, x, before, after
  <1>9. ASSUME NEW i \in 1..Len(t) PROVE fits(t, i)
    <2>1. CASE i = Len(s) + 1
      BY <1>1, <1>2, <1>4, <1>8, <2>1
    <2>2. CASE i = Len(s)
      <3>1. k = 1 => s[i].k = Chunks
        BY <1>2, <1>5, <2>2
      <3>2. t[i] = s[i] /\ t[i + 1] = x /\ fits(s, i) /\ i > 1 => t[i - 1] = s[i - 1]
        BY <1>2, <1>7, <2>2
      <3> QED BY <1>2, <1>3, <1>4, <1>7, <1>8, <2>2, <3>1, <3>2, BroadcastAssumption
    <2>3. CASE i < Len(s)
      <3>1. /\ fits(s, i) /\ t[i] = s[i] /\ t[i + 1] = s[i + 1]
            /\ i > 1 => t[i - 1] = s[i - 1]
        BY <1>2, <1>7, <2>3
      <3> QED BY <1>2, <2>3, <3>1
    <2> QED BY <1>2, <2>1, <2>2, <2>3
  <1>10. Whole(t)
    BY <1>9 DEF Whole, before, after
  <1> QED BY <1>6, <1>10 DEF t, x

-----------------------------------------------------------------------------
(* The parts of the invariant, and steps that leave them alone.            *)

Core == TypeOK /\ WriterInv /\ ListInv
Order == OnceInv /\ PastInv /\ CurrentInv /\ SameOrder

\* A step that touches neither u's socket nor what is under way on it.
LEMMA SocketUntouched ==
    ASSUME NEW u \in Users, LockOK(u), StreamOK(u),
           lock'[u] = lock[u], part'[u] = part[u], stream'[u] = stream[u],
           Held(u)' <=> Held(u),
           Held(u) => /\ bcast' = bcast /\ sent'[bcast] = sent[bcast]
                      /\ Progress(u)' = Progress(u)
    PROVE  LockOK(u)' /\ StreamOK(u)'
  <1>1. CASE Held(u)
    <2>1. Sender(u)' = Sender(u) /\ Number(u)' = Number(u)
      BY <1>1 DEF Sender, Number
    <2>2. LockOK(u)'
      BY <1>1 DEF LockOK
    <2>3. StreamOK(u)'
      BY <1>1, <2>1 DEF StreamOK
    <2> QED BY <2>2, <2>3
  <1>2. CASE ~Held(u)
    <2>1. Sender(u)' = Sender(u) /\ Number(u)' = Number(u) /\ Progress(u)' = Progress(u)
      BY <1>2 DEF Sender, Number, Progress
    <2>2. LockOK(u)'
      BY <1>2 DEF LockOK
    <2>3. StreamOK(u)'
      BY <1>2, <2>1 DEF StreamOK
    <2> QED BY <2>2, <2>3
  <1> QED BY <1>1, <1>2

\* A step that writes nothing and begins nothing.
LEMMA OrderUntouched ==
    ASSUME Order, stream' = stream, sent' = sent,
           \/ bcast' = None
           \/ /\ bcast' = bcast
              /\ chunk[bcast] = Chunks => chunk'[bcast] = Chunks
              /\ \A u \in Users :
                    op'[bcast] = "write" /\ Holds(todo'[bcast], u) =>
                       chunk[bcast] # Chunks \/ (op[bcast] = "write" /\ ToVisit(bcast, u))
    PROVE  Order'
  <1>1. OnceInv' /\ PastInv' /\ SameOrder'
    BY DEF Order, OnceInv, PastInv, SameOrder
  <1>2. CurrentInv'
    BY DEF Order, CurrentInv, ToVisit, Complete
  <1> QED BY <1>1, <1>2 DEF Order

\* What the streams consist of, and which instructions have been broadcast.
LEMMA StreamElements ==
    ASSUME TypeOK, NEW u \in Users, NEW i \in 1..Len(stream[u])
    PROVE  /\ stream[u][i] \in Writes
           /\ stream[u][i].n \in Nat /\ stream[u][i].k \in 1..Chunks
           /\ stream[u][i].from \in Users \union Writers
  <1>1. stream[u] \in Seq(Writes)
    BY DEF TypeOK
  <1>2. stream[u][i] \in Writes
    BY <1>1
  <1> QED BY <1>2 DEF Writes

LEMMA WriterAlone ==
    ASSUME TypeOK, WriterInv, NEW w \in Writers, op[w] # "none"
    PROVE  /\ bcast = w /\ bcast # None
           /\ \A v \in Writers \ {w} : op[v] = "none" /\ v \notin readers /\ todo[v] = <<>>
  BY BroadcastAssumption DEF TypeOK, WriterInv

LEMMA InitBInv == ASSUME Init PROVE BInv
  <1>1. TypeOK
    BY BroadcastAssumption DEF Init, TypeOK
  <1>2. WriterInv
    BY BroadcastAssumption DEF Init, WriterInv
  <1>3. ListInv
    BY DEF Init, ListInv, Distinct, Member, ToVisit, Holds
  <1>4. SocketInv
    BY DEF Init, SocketInv, Member, Holds, Whole
  <1>5. OnceInv /\ PastInv /\ CurrentInv /\ SameOrder
    BY DEF Init, OnceInv, PastInv, CurrentInv, SameOrder, InOrder
  <1> QED BY <1>1, <1>2, <1>3, <1>4, <1>5 DEF BInv

LEMMA Stutter == ASSUME BInv, UNCHANGED vars PROVE BInv'
  <1>1. /\ UNCHANGED <<list, readers, bcast, op, todo, chunk, sent, lock, upc, part, stream, midway>>
    BY DEF vars, passvars, uservars
  <1>2. TypeOK' /\ WriterInv'
    BY <1>1 DEF BInv, TypeOK, WriterInv
  <1>3. ListInv'
    BY <1>1 DEF BInv, ListInv, Member, ToVisit
  <1>4. SocketInv'
    BY <1>1 DEF BInv, SocketInv, Member, LockOK, StreamOK, Held, Progress, Sender, Number, ToVisit
  <1>5. OnceInv' /\ PastInv' /\ CurrentInv' /\ SameOrder'
    BY <1>1 DEF BInv, OnceInv, PastInv, CurrentInv, SameOrder, ToVisit
  <1> QED BY <1>2, <1>3, <1>4, <1>5 DEF BInv

-----------------------------------------------------------------------------
(* The broadcast socket.                                                   *)

LEMMA BeginStep == ASSUME BInv, NEW w \in Writers, Begin(w) PROVE BInv'
  <1>1. /\ op[w] = "none" /\ bcast = None /\ bcast' = w
        /\ sent' = [sent EXCEPT ![w] = @ + 1]
        /\ op' = [op EXCEPT ![w] = "begin"]
        /\ UNCHANGED <<list, readers, todo, chunk, lock, upc, part, stream, midway>>
    BY DEF Begin, uservars
  <1>2. TypeOK'
    BY <1>1 DEF BInv, TypeOK
  <1>3. WriterInv'
    BY <1>1, BroadcastAssumption DEF BInv, TypeOK, WriterInv
  <1>4. ListInv'
    BY <1>1 DEF BInv, ListInv, Member, ToVisit
  <1>5. \A u \in Users : ~Held(u) /\ ~Held(u)'
    BY <1>1 DEF BInv, TypeOK, Held
  <1>6. SocketInv'
    <2> SUFFICES ASSUME NEW u \in Users \ midway
                 PROVE  Whole(stream[u]) /\ (Member(u) => LockOK(u)' /\ StreamOK(u)')
      BY <1>1 DEF SocketInv, Member
    <2> QED BY <1>1, <1>5, SocketUntouched DEF BInv, SocketInv
  <1>7. OnceInv' /\ SameOrder'
    BY <1>1 DEF BInv, OnceInv, SameOrder
  <1>8. \A u \in Users : \A i \in 1..Len(stream[u]) :
           stream[u][i].from \in Writers =>
              /\ stream[u][i].n =< sent[stream[u][i].from]
              /\ stream[u][i].n \in Nat /\ sent[stream[u][i].from] \in Nat
    BY StreamElements DEF BInv, TypeOK, PastInv
  <1>9. PastInv'
    <2>1. \A v \in Writers : sent'[v] \in {sent[v], sent[v] + 1}
      BY <1>1 DEF BInv, TypeOK
    <2> QED BY <1>1, <1>8, <2>1 DEF PastInv
  <1>10. CurrentInv'
    <2> SUFFICES ASSUME NEW u \in Users, NEW i \in 1..Len(stream[u]),
                        stream[u][i] = Written(w, sent'[w], Chunks)
                 PROVE  FALSE
      BY <1>1 DEF CurrentInv
    <2>1. stream[u][i].from = w /\ stream[u][i].n = sent[w] + 1
      BY <1>1 DEF Written, BInv, TypeOK
    <2> QED BY <1>8, <2>1
  <1> QED BY <1>2, <1>3, <1>4, <1>6, <1>7, <1>9, <1>10 DEF BInv

\* The three kinds of pass start with the whole list to visit.
LEMMA StartPassStep == ASSUME BInv, NEW w \in Writers, StartPass(w) PROVE BInv'
  <1>1. /\ op[w] \in {"begin", "open"}
        /\ op' = [op EXCEPT ![w] = NextCall(w)]
        /\ chunk' = [chunk EXCEPT ![w] = IF NextCall(w) = "write" THEN @ + 1 ELSE @]
        /\ readers' = readers \union {w}
        /\ todo' = [todo EXCEPT ![w] = list]
        /\ UNCHANGED <<list, bcast, sent, lock, upc, part, stream, midway>>
    BY DEF StartPass, uservars
  <1>2. /\ bcast = w /\ bcast # None
        /\ \A v \in Writers \ {w} : op[v] = "none" /\ v \notin readers /\ todo[v] = <<>>
    BY <1>1, WriterAlone DEF BInv
  <1>3. \/ op[w] = "begin" /\ NextCall(w) = "lock" /\ chunk'[w] = 0
        \/ op[w] = "open" /\ NextCall(w) = "write" /\ chunk[w] < Chunks /\ chunk'[w] = chunk[w] + 1
        \/ op[w] = "open" /\ NextCall(w) = "unlock" /\ chunk[w] = Chunks /\ chunk'[w] = chunk[w]
    BY <1>1, BroadcastAssumption DEF BInv, TypeOK, WriterInv, NextCall
  <1>4. chunk'[w] \in 0..Chunks /\ op'[w] = NextCall(w) /\ todo'[w] = list
    BY <1>1, <1>3, BroadcastAssumption DEF BInv, TypeOK
  <1>5. TypeOK'
    BY <1>1, <1>3, <1>4 DEF BInv, TypeOK
  <1>6. WriterInv'
    BY <1>1, <1>2, <1>3, <1>4, BroadcastAssumption DEF BInv, TypeOK, WriterInv
  <1>7. ListInv'
    BY <1>1 DEF BInv, TypeOK, ListInv, Member, ToVisit
  <1>8. SocketInv'
    <2> SUFFICES ASSUME NEW u \in Users \ midway
                 PROVE  Whole(stream[u]) /\ (Member(u) => LockOK(u)' /\ StreamOK(u)')
      BY <1>1 DEF SocketInv, Member
    <2> SUFFICES ASSUME Member(u) PROVE LockOK(u)' /\ StreamOK(u)'
      BY DEF BInv, SocketInv
    <2>1. ToVisit(w, u)'
      BY <1>4 DEF ToVisit, Member
    <2>2. Held(u)' <=> Held(u)
      BY <1>1, <1>2, <1>3, <1>4, <2>1 DEF Held
    <2>3. Held(u) => Progress(u)' = Progress(u)
      BY <1>1, <1>2, <1>3, <1>4, <2>1, <2>2 DEF Progress, Held, BInv, TypeOK
    <2> QED BY <1>1, <2>2, <2>3, SocketUntouched DEF BInv, SocketInv
  <1>9. Order'
    <2>1. chunk[w] = Chunks => chunk'[w] = Chunks
      BY <1>3, BroadcastAssumption DEF BInv, WriterInv
    <2>2. op'[w] = "write" => chunk[w] # Chunks
      BY <1>3, <1>4 DEF BInv, TypeOK
    <2> QED BY <1>1, <1>2, <2>1, <2>2, OrderUntouched DEF BInv, Order
  <1> QED BY <1>5, <1>6, <1>7, <1>8, <1>9 DEF BInv, Order

LEMMA EndPassStep == ASSUME BInv, NEW w \in Writers, EndPass(w) PROVE BInv'
  <1>1. /\ op[w] \in {"lock", "write", "unlock"} /\ todo[w] = <<>>
        /\ readers' = readers \ {w}
        /\ \/ /\ op[w] = "unlock" /\ op' = [op EXCEPT ![w] = "none"]
              /\ chunk' = [chunk EXCEPT ![w] = 0] /\ bcast' = None
           \/ /\ op[w] # "unlock" /\ op' = [op EXCEPT ![w] = "open"]
              /\ chunk' = chunk /\ bcast' = bcast
        /\ UNCHANGED <<list, todo, sent, lock, upc, part, stream, midway>>
    BY DEF EndPass, uservars
  <1>2. /\ bcast = w /\ bcast # None
        /\ \A v \in Writers \ {w} : op[v] = "none" /\ v \notin readers /\ todo[v] = <<>>
    BY <1>1, WriterAlone DEF BInv
  <1>3. TypeOK'
    <2>1. 0 \in 0..Chunks
      BY BroadcastAssumption
    <2>2. chunk' \in [Writers -> 0..Chunks]
      BY <1>1, <2>1 DEF BInv, TypeOK
    <2>3. /\ op' \in [Writers -> {"none", "begin", "lock", "open", "write", "unlock"}]
          /\ bcast' \in Writers \union {None} /\ readers' \subseteq Writers
      BY <1>1 DEF BInv, TypeOK
    <2> QED BY <1>1, <2>2, <2>3 DEF BInv, TypeOK
  <1>4. WriterInv'
    BY <1>1, <1>2, BroadcastAssumption DEF BInv, TypeOK, WriterInv
  <1>5. ListInv'
    BY <1>1 DEF BInv, TypeOK, ListInv, Member, ToVisit
  <1>6. SocketInv'
    <2> SUFFICES ASSUME NEW u \in Users \ midway
                 PROVE  Whole(stream[u]) /\ (Member(u) => LockOK(u)' /\ StreamOK(u)')
      BY <1>1 DEF SocketInv, Member
    <2>1. ~ToVisit(w, u) /\ ~ToVisit(w, u)'
      BY <1>1 DEF ToVisit, Holds
    <2>2. Held(u)' <=> Held(u)
      BY <1>1, <1>2, <2>1 DEF Held, BInv, TypeOK
    <2>3. Held(u) => bcast' = bcast /\ Progress(u)' = Progress(u)
      BY <1>1, <1>2, <2>1, <2>2 DEF Progress, Held
    <2> QED BY <1>1, <2>2, <2>3, SocketUntouched DEF BInv, SocketInv
  <1>7. Order'
    BY <1>1, <1>2, OrderUntouched DEF BInv, TypeOK, Order
  <1> QED BY <1>3, <1>4, <1>5, <1>6, <1>7 DEF BInv, Order

\* A callback of guac_client_foreach_user is for a user of the list, and for no user twice.
LEMMA VisitCore ==
    ASSUME BInv, NEW w \in Writers, Visit(w), op[w] \in {"lock", "write", "unlock"},
           lock' \in [Users -> Users \union Writers \union {None}],
           stream' \in [Users -> Seq(Writes)],
           \A u \in Users \ {Head(todo[w])} : lock'[u] = lock[u] /\ stream'[u] = stream[u]
    PROVE  /\ Core' /\ bcast = w /\ bcast # None
           /\ Head(todo[w]) \in Users /\ Member(Head(todo[w])) /\ ToVisit(w, Head(todo[w]))
           /\ \A u : ToVisit(w, u)' <=> ToVisit(w, u) /\ u # Head(todo[w])
           /\ \A u : Member(u)' <=> Member(u)
  <1> DEFINE h == Head(todo[w])
  <1>1. /\ todo[w] # <<>> /\ todo' = [todo EXCEPT ![w] = Tail(@)]
        /\ UNCHANGED <<list, readers, bcast, op, chunk, sent, upc, part, midway>>
    BY DEF Visit, uservars
  <1>2. /\ bcast = w /\ bcast # None
        /\ \A v \in Writers \ {w} : op[v] = "none" /\ v \notin readers /\ todo[v] = <<>>
    BY WriterAlone DEF BInv
  <1>3. todo[w] \in Seq(Users) /\ Distinct(todo[w]) /\ todo'[w] = Tail(todo[w])
    BY <1>1 DEF BInv, TypeOK, ListInv
  <1>4. /\ h \in Users /\ Tail(todo[w]) \in Seq(Users) /\ Distinct(Tail(todo[w]))
        /\ ToVisit(w, h)
        /\ \A u : ToVisit(w, u)' <=> ToVisit(w, u) /\ u # h
    BY <1>1, <1>3, TailFacts DEF ToVisit
  <1>5. Member(h) /\ \A u : Member(u)' <=> Member(u)
    BY <1>1, <1>4 DEF BInv, ListInv, Member
  <1> HIDE DEF h
  <1>6. TypeOK'
    BY <1>1, <1>4 DEF BInv, TypeOK
  <1>7. WriterInv'
    BY <1>1, <1>2 DEF BInv, TypeOK, WriterInv
  <1>8. ListInv'
    <2>1. Distinct(list)' /\ \A u \in Users : Member(u)' <=> upc'[u] \in {"in", "bye", "remove"}
      BY <1>1 DEF BInv, ListInv, Member
    <2>2. \A v \in Writers : Distinct(todo'[v]) /\ \A u \in Users : ToVisit(v, u)' => Member(u)'
      BY <1>1, <1>3, <1>4, <1>5 DEF BInv, TypeOK, ListInv, ToVisit
    <2>3. \A u \in Users : part'[u] # None => upc'[u] = "bye"
      BY <1>1 DEF BInv, ListInv
    <2>4. upc[h] # "add"
      BY <1>4, <1>5 DEF BInv, ListInv
    <2>5. \A u \in Users : upc'[u] = "add" => lock'[u] = None /\ stream'[u] = <<>> /\ u \notin midway'
      BY <1>1, <2>4 DEF h, BInv, ListInv
    <2> QED BY <2>1, <2>2, <2>3, <2>5 DEF ListInv
  <1> QED BY <1>2, <1>4, <1>5, <1>6, <1>7, <1>8 DEF h, Core

\* A write to the socket of h, by its own thread or in a pass, disturbs no order: the
\* instruction under way is the last in every stream that already has all of it.
LEMMA OrderAppend ==
    ASSUME TypeOK, TypeOK', Order, NEW h \in Users, NEW x \in Writes,
           stream' = [stream EXCEPT ![h] = Append(@, x)],
           UNCHANGED <<sent, bcast, chunk, op>>,
           \A u \in Users : ToVisit(bcast, u)' => ToVisit(bcast, u),
           x.from \in Writers =>
              /\ bcast # None /\ x = Written(bcast, sent[bcast], chunk[bcast])
              /\ op[bcast] = "write" /\ ToVisit(bcast, h) /\ ~ToVisit(bcast, h)'
    PROVE  Order'
  <1> DEFINE cur == Written(bcast, sent[bcast], Chunks)
             last == Len(stream[h]) + 1
  <1>1. /\ \A u \in Users : stream[u] \in Seq(Writes) /\ stream'[u] \in Seq(Writes)
        /\ \A u \in Users : /\ DOMAIN stream[u] = 1..Len(stream[u])
                            /\ DOMAIN stream'[u] = 1..Len(stream'[u])
    BY DEF TypeOK
  <1>2. \A u \in Users : \A i \in 1..Len(stream'[u]) :
           \/ i \in 1..Len(stream[u]) /\ stream'[u][i] = stream[u][i]
           \/ u = h /\ i = last /\ stream'[u][i] = x
    <2> SUFFICES ASSUME NEW u \in Users, NEW i \in 1..Len(stream'[u])
                 PROVE  \/ i \in 1..Len(stream[u]) /\ stream'[u][i] = stream[u][i]
                        \/ u = h /\ i = last /\ stream'[u][i] = x
      OBVIOUS
    <2>1. CASE u # h
      BY <2>1 DEF TypeOK
    <2>2. CASE u = h
      <3>1. stream'[u] = Append(stream[u], x)
        BY <2>2 DEF TypeOK
      <3> QED BY <1>1, <2>2, <3>1, AppendFacts
    <2> QED BY <2>1, <2>2
  <1>3. Complete(x) => /\ bcast # None /\ x = cur /\ chunk[bcast] = Chunks
                       /\ \A i \in 1..Len(stream[h]) : stream[h][i] # cur
    <2> SUFFICES ASSUME Complete(x)
                 PROVE  /\ bcast # None /\ x = cur /\ chunk[bcast] = Chunks
                        /\ \A i \in 1..Len(stream[h]) : stream[h][i] # cur
      OBVIOUS
    <2>1. /\ bcast # None /\ x = Written(bcast, sent[bcast], chunk[bcast]) /\ x.k = Chunks
          /\ op[bcast] = "write" /\ ToVisit(bcast, h)
      BY DEF Complete
    <2>2. chunk[bcast] = Chunks
      BY <2>1 DEF Written
    <2> QED BY <2>1, <2>2 DEF Order, CurrentInv
  <1>4. bcast # None /\ x = cur => Complete(x)
    <2>1. bcast # None => bcast \in Writers
      BY DEF TypeOK
    <2> QED BY <2>1 DEF Complete, Written
  <1>5. \A u \in Users : \A i \in 1..Len(stream[u]) : u = h => i < last
    BY <1>1
  <1>6. \A u \in Users : \A i \in 1..Len(stream[u]) :
           bcast # None /\ stream[u][i] = cur =>
              \A j \in 1..Len(stream[u]) : j > i => ~Complete(stream[u][j])
    BY DEF Order, CurrentInv
  <1> HIDE DEF cur, last
  <1>7. OnceInv'
    <2> SUFFICES ASSUME NEW u \in Users, NEW i \in 1..Len(stream'[u]), NEW j \in 1..Len(stream'[u]),
                        Complete(stream'[u][i]), stream'[u][i] = stream'[u][j]
                 PROVE  i = j
      BY DEF OnceInv, Complete
    <2> QED BY <1>2, <1>3 DEF Order, OnceInv
  <1>8. PastInv'
    <2> SUFFICES ASSUME NEW u \in Users, NEW i \in 1..Len(stream'[u]),
                        stream'[u][i].from \in Writers
                 PROVE  stream'[u][i].n =< sent[stream'[u][i].from]
      BY DEF PastInv
    <2>1. CASE i \in 1..Len(stream[u]) /\ stream'[u][i] = stream[u][i]
      BY <2>1 DEF Order, PastInv
    <2>2. CASE stream'[u][i] = x
      <3>1. x.from = bcast /\ x.n = sent[bcast] /\ bcast \in Writers
        BY <2>2 DEF Written
      <3> QED BY <2>2, <3>1 DEF TypeOK
    <2> QED BY <1>2, <2>1, <2>2
  <1>9. CurrentInv'
    <2> SUFFICES ASSUME bcast # None, NEW u \in Users, NEW i \in 1..Len(stream'[u]),
                        stream'[u][i] = cur
                 PROVE  /\ chunk[bcast] = Chunks
                        /\ ~(op[bcast] = "write" /\ ToVisit(bcast, u)')
                        /\ \A j \in 1..Len(stream'[u]) : j > i => ~Complete(stream'[u][j])
      BY DEF CurrentInv, cur, ToVisit, Complete
    <2>1. CASE i \in 1..Len(stream[u]) /\ stream'[u][i] = stream[u][i]
      <3>1. chunk[bcast] = Chunks /\ ~(op[bcast] = "write" /\ ToVisit(bcast, u))
        BY <2>1 DEF Order, CurrentInv, cur
      <3>2. \A j \in 1..Len(stream'[u]) : j > i => ~Complete(stream'[u][j])
        BY <1>2, <1>3, <1>6, <2>1
      <3> QED BY <3>1, <3>2
    <2>2. CASE u = h /\ i = last /\ stream'[u][i] = x
      <3>1. Complete(x)
        BY <1>4, <2>2
      <3>2. \A j \in 1..Len(stream'[u]) : ~(j > i)
        BY <1>1, <1>2, <1>5, <2>2
      <3>3. ~ToVisit(bcast, h)'
        BY <3>1 DEF Complete
      <3> QED BY <1>3, <2>2, <3>1, <3>2, <3>3
    <2> QED BY <1>2, <2>1, <2>2
  <1>10. SameOrder'
    <2> SUFFICES ASSUME NEW u \in Users, NEW v \in Users
                 PROVE  InOrder(stream'[u], stream'[v])
      BY DEF SameOrder
    <2> SUFFICES ASSUME NEW i \in 1..Len(stream'[u]), NEW j \in 1..Len(stream'[u]),
                        NEW k \in 1..Len(stream'[v]), NEW l \in 1..Len(stream'[v]),
                        i < j, Complete(stream'[u][i]), Complete(stream'[u][j]),
                        stream'[u][i] = stream'[v][k], stream'[u][j] = stream'[v][l]
                 PROVE  k < l
      BY DEF InOrder
    <2>1. stream'[u][i] # stream'[u][j]
      BY <1>7 DEF OnceInv, Complete
    <2>2. k # l
      BY <2>1
    <2>3. i \in 1..Len(stream[u]) /\ stream'[u][i] = stream[u][i]
      BY <1>1, <1>2, <1>5
    <2>4. CASE v = h /\ l = last /\ stream'[v][l] = x
      BY <1>1, <1>2, <1>5, <2>2, <2>4
    <2>5. CASE l \in 1..Len(stream[v]) /\ stream'[v][l] = stream[v][l]
      <3>1. CASE v = h /\ k = last /\ stream'[v][k] = x
        <4>1. bcast # None /\ stream[u][i] = cur /\ u # h
          BY <1>3, <2>3, <3>1
        <4>2. j \in 1..Len(stream[u]) /\ stream'[u][j] = stream[u][j]
          BY <1>2, <4>1
        <4> QED BY <1>6, <2>3, <4>1, <4>2
      <3>2. CASE k \in 1..Len(stream[v]) /\ stream'[v][k] = stream[v][k]
        <4>1. CASE u = h /\ j = last /\ stream'[u][j] = x
          <5>1. bcast # None /\ stream[v][l] = cur
            BY <1>3, <2>5, <4>1
          <5>2. ~(k > l)
            BY <1>6, <5>1, <2>5, <3>2
          <5> QED BY <1>1, <2>2, <2>5, <3>2, <5>2
        <4>2. CASE j \in 1..Len(stream[u]) /\ stream'[u][j] = stream[u][j]
          <5>1. InOrder(stream[u], stream[v])
            BY DEF Order, SameOrder
          <5> QED BY <2>3, <2>5, <3>2, <4>2, <5>1 DEF InOrder
        <4> QED BY <1>2, <4>1, <4>2
      <3> QED BY <1>2, <3>1, <3>2
    <2> QED BY <1>2, <2>4, <2>5
  <1> QED BY <1>7, <1>8, <1>9, <1>10 DEF Order

LEMMA VisitLockStep == ASSUME BInv, NEW w \in Writers, VisitLock(w) PROVE BInv'
  <1> DEFINE h == Head(todo[w])
  <1>1. /\ op[w] = "lock" /\ Visit(w) /\ lock[h] = None
        /\ lock' = [lock EXCEPT ![h] = w] /\ stream' = stream
    BY DEF VisitLock
  <1>2. UNCHANGED <<list, readers, bcast, op, chunk, sent, upc, part, midway>>
    BY <1>1 DEF Visit, uservars
  <1>3. /\ lock' \in [Users -> Users \union Writers \union {None}]
        /\ stream' \in [Users -> Seq(Writes)]
        /\ \A u \in Users \ {h} : lock'[u] = lock[u] /\ stream'[u] = stream[u]
    BY <1>1 DEF BInv, TypeOK
  <1>4. /\ Core' /\ bcast = w /\ bcast # None
        /\ h \in Users /\ Member(h) /\ ToVisit(w, h)
        /\ \A u : ToVisit(w, u)' <=> ToVisit(w, u) /\ u # h
        /\ \A u : Member(u)' <=> Member(u)
    BY <1>1, <1>3, VisitCore
  <1> HIDE DEF h
  <1>5. SocketInv'
    <2> SUFFICES ASSUME NEW u \in Users \ midway, Member(u)
                 PROVE  LockOK(u)' /\ StreamOK(u)'
      BY <1>1, <1>2, <1>4 DEF BInv, SocketInv
    <2>1. LockOK(u) /\ StreamOK(u)
      BY DEF BInv, SocketInv
    <2>2. CASE u = h
      <3>1. ~Held(u) /\ Held(u)'
        BY <1>1, <1>2, <1>4, <2>2 DEF Held
      <3>2. part[u] = None
        BY <1>1, <2>1, <2>2, <3>1, BroadcastAssumption DEF LockOK
      <3>3. chunk[w] = 0 /\ op[w] = "lock"
        BY <1>1 DEF BInv, WriterInv
      <3>4. Progress(u) = 0 /\ Progress(u)' = 0
        BY <1>2, <1>4, <3>1, <3>2, <3>3 DEF Progress
      <3>5. lock'[u] = w
        BY <1>1, <2>2 DEF BInv, TypeOK
      <3>6. LockOK(u)'
        BY <1>2, <1>4, <3>1, <3>2, <3>5 DEF LockOK
      <3>7. StreamOK(u)'
        BY <1>1, <2>1, <3>4 DEF StreamOK, EndsWith
      <3> QED BY <3>6, <3>7
    <2>3. CASE u # h
      <3>1. Held(u)' <=> Held(u)
        BY <1>2, <1>4, <2>3 DEF Held
      <3>2. Held(u) => Progress(u)' = Progress(u)
        BY <1>2, <1>4, <2>3, <3>1 DEF Progress
      <3> QED BY <1>2, <1>3, <2>1, <2>3, <3>1, <3>2, SocketUntouched
    <2> QED BY <2>2, <2>3
  <1>6. Order'
    BY <1>1, <1>2, <1>4, OrderUntouched DEF BInv, Order, ToVisit
  <1> QED BY <1>4, <1>5, <1>6 DEF BInv, Core, Order

LEMMA VisitUnlockStep == ASSUME BInv, NEW w \in Writers, VisitUnlock(w) PROVE BInv'
  <1> DEFINE h == Head(todo[w])
  <1>1. /\ op[w] = "unlock" /\ Visit(w)
        /\ lock' = [lock EXCEPT ![h] = None] /\ stream' = stream
    BY DEF VisitUnlock
  <1>2. UNCHANGED <<list, readers, bcast, op, chunk, sent, upc, part, midway>>
    BY <1>1 DEF Visit, uservars
  <1>3. /\ lock' \in [Users -> Users \union Writers \union {None}]
        /\ stream' \in [Users -> Seq(Writes)]
        /\ \A u \in Users \ {h} : lock'[u] = lock[u] /\ stream'[u] = stream[u]
    BY <1>1 DEF BInv, TypeOK
  <1>4. /\ Core' /\ bcast = w /\ bcast # None
        /\ h \in Users /\ Member(h) /\ ToVisit(w, h)
        /\ \A u : ToVisit(w, u)' <=> ToVisit(w, u) /\ u # h
        /\ \A u : Member(u)' <=> Member(u)
    BY <1>1, <1>3, VisitCore
  <1> HIDE DEF h
  <1>5. SocketInv'
    <2> SUFFICES ASSUME NEW u \in Users \ midway, Member(u)
                 PROVE  LockOK(u)' /\ StreamOK(u)'
      BY <1>1, <1>2, <1>4 DEF BInv, SocketInv
    <2>1. LockOK(u) /\ StreamOK(u)
      BY DEF BInv, SocketInv
    <2>2. CASE u = h
      <3>1. Held(u) /\ ~Held(u)'
        BY <1>1, <1>2, <1>4, <2>2 DEF Held
      <3>2. part[u] = None /\ part'[u] = None
        BY <1>2, <2>1, <3>1 DEF LockOK
      <3>3. chunk[w] = Chunks /\ op[w] = "unlock"
        BY <1>1 DEF BInv, WriterInv
      <3>4. Progress(u) = Chunks
        BY <1>4, <3>1, <3>3 DEF Progress
      <3>5. Progress(u)' = 0
        BY <3>1, <3>2 DEF Progress
      <3>6. lock'[u] = None
        BY <1>1, <2>2 DEF BInv, TypeOK
      <3>7. LockOK(u)'
        BY <3>1, <3>2, <3>6 DEF LockOK
      <3>8. stream[u][Len(stream[u])].k = Chunks
        BY <2>1, <3>4, BroadcastAssumption DEF StreamOK, EndsWith, Written
      <3>9. StreamOK(u)'
        BY <1>1, <3>5, <3>8 DEF StreamOK, EndsWith
      <3> QED BY <3>7, <3>9
    <2>3. CASE u # h
      <3>1. Held(u)' <=> Held(u)
        BY <1>2, <1>4, <2>3 DEF Held
      <3>2. Held(u) => Progress(u)' = Progress(u)
        BY <1>2, <1>4, <2>3, <3>1 DEF Progress
      <3> QED BY <1>2, <1>3, <2>1, <2>3, <3>1, <3>2, SocketUntouched
    <2> QED BY <2>2, <2>3
  <1>6. Order'
    BY <1>1, <1>2, <1>4, OrderUntouched DEF BInv, Order, ToVisit
  <1> QED BY <1>4, <1>5, <1>6 DEF BInv, Core, Order

\* __write_chunk_callback: the next write of the instruction, to a socket that the
\* writer holds unless the user was added midway.
LEMMA VisitWriteStep == ASSUME BInv, NEW w \in Writers, VisitWrite(w) PROVE BInv'
  <1> DEFINE h == Head(todo[w])
             x == Written(w, sent[w], chunk[w])
  <1>1. /\ op[w] = "write" /\ Visit(w) /\ lock' = lock
        /\ stream' = [stream EXCEPT ![h] = Append(@, x)]
    BY DEF VisitWrite
  <1>2. UNCHANGED <<list, readers, bcast, op, chunk, sent, upc, part, midway>>
    BY <1>1 DEF Visit, uservars
  <1>3. chunk[w] \in 1..Chunks /\ sent[w] \in Nat
    BY <1>1 DEF BInv, TypeOK, WriterInv
  <1>4. x \in Writes /\ x.from = w
    BY <1>3, WrittenType
  <1> HIDE DEF x
  <1>5. h \in Users => stream[h] \in Seq(Writes) /\ Append(stream[h], x) \in Seq(Writes)
    BY <1>4 DEF BInv, TypeOK
  <1>6. /\ lock' \in [Users -> Users \union Writers \union {None}]
        /\ stream' \in [Users -> Seq(Writes)]
        /\ \A u \in Users \ {h} : lock'[u] = lock[u] /\ stream'[u] = stream[u]
    BY <1>1, <1>5 DEF BInv, TypeOK
  <1>7. /\ Core' /\ bcast = w /\ bcast # None
        /\ h \in Users /\ Member(h) /\ ToVisit(w, h)
        /\ \A u : ToVisit(w, u)' <=> ToVisit(w, u) /\ u # h
        /\ \A u : Member(u)' <=> Member(u)
    BY <1>1, <1>6, VisitCore
  <1> HIDE DEF h
  <1>8. SocketInv'
    <2> SUFFICES ASSUME NEW u \in Users \ midway
                 PROVE  /\ Whole(stream'[u])
                        /\ Member(u) => LockOK(u)' /\ StreamOK(u)'
      BY <1>2, <1>7 DEF SocketInv
    <2>1. Whole(stream[u]) /\ (Member(u) => LockOK(u) /\ StreamOK(u))
      BY DEF BInv, SocketInv
    <2>2. CASE u = h
      <3>1. Held(u) /\ Held(u)'
        BY <1>1, <1>2, <1>7 DEF Held
      <3>2. Progress(u) = chunk[w] - 1 /\ Progress(u)' = chunk[w]
        BY <1>1, <1>2, <1>7, <2>2, <3>1 DEF Progress
      <3>3. /\ Sender(u) = w /\ Sender(u)' = w
            /\ Number(u) = sent[w] /\ Number(u)' = sent[w]
        BY <1>2, <1>7, <3>1 DEF Sender, Number
      <3>4. LockOK(u) /\ StreamOK(u)
        BY <1>7, <2>1, <2>2
      <3>5. EndsWith(stream[u], w, sent[w], chunk[w] - 1)
        BY <3>2, <3>3, <3>4 DEF StreamOK
      <3>6. stream'[u] = Append(stream[u], x) /\ stream[u] \in Seq(Writes)
        BY <1>1, <1>5, <1>7, <2>2 DEF BInv, TypeOK
      <3>7. Whole(stream'[u]) /\ EndsWith(stream'[u], w, sent[w], chunk[w])
        BY <1>3, <2>1, <3>5, <3>6, WholeAppend DEF x
      <3>8. ASSUME NEW k \in 1..chunk[w] PROVE Holds(stream'[u], Written(w, sent[w], k))
        <4>1. /\ Len(stream'[u]) = Len(stream[u]) + 1 /\ Len(stream[u]) \in Nat
              /\ stream'[u][Len(stream[u]) + 1] = x
              /\ \A i \in 1..Len(stream[u]) : stream'[u][i] = stream[u][i]
          BY <1>4, <3>6, AppendFacts
        <4>2. CASE k = chunk[w]
          BY <4>1, <4>2 DEF Holds, x
        <4>3. CASE k # chunk[w]
          <5>1. k \in 1..Progress(u)
            BY <1>3, <3>2, <4>3
          <5>2. PICK i \in 1..Len(stream[u]) : stream[u][i] = Written(w, sent[w], k)
            BY <3>3, <3>4, <5>1 DEF StreamOK, Holds
          <5>3. i \in 1..Len(stream'[u]) /\ stream'[u][i] = Written(w, sent[w], k)
            BY <4>1, <5>2
          <5> QED BY <5>3 DEF Holds
        <4> QED BY <4>2, <4>3
      <3>9. StreamOK(u)'
        BY <3>2, <3>3, <3>7, <3>8 DEF StreamOK
      <3>10. LockOK(u)'
        BY <1>1, <1>2, <3>1, <3>4 DEF LockOK
      <3> QED BY <3>7, <3>9, <3>10
    <2>3. CASE u # h
      <3>1. Held(u)' <=> Held(u)
        BY <1>2, <1>7, <2>3 DEF Held
      <3>2. Held(u) => Progress(u)' = Progress(u)
        BY <1>2, <1>7, <2>3, <3>1 DEF Progress
      <3>3. stream'[u] = stream[u] /\ lock'[u] = lock[u]
        BY <1>6, <2>3
      <3> QED BY <1>2, <2>1, <3>1, <3>2, <3>3, SocketUntouched
    <2> QED BY <2>2, <2>3
  <1>9. Order'
    <2>1. \A u \in Users : ToVisit(bcast, u)' => ToVisit(bcast, u)
      BY <1>2, <1>7 DEF ToVisit
    <2>2. PICK g \in Users : g = h
      BY <1>7
    <2>3. ~ToVisit(bcast, g)' /\ ToVisit(bcast, g) /\ x = Written(bcast, sent[bcast], chunk[bcast])
      BY <1>2, <1>7, <2>2 DEF ToVisit, x
    <2>4. stream' = [stream EXCEPT ![g] = Append(@, x)]
      BY <1>1, <2>2
    <2>5. TypeOK' /\ TypeOK /\ Order /\ op[bcast] = "write"
      BY <1>1, <1>7 DEF BInv, Core, Order
    <2> QED BY <1>2, <1>4, <1>7, <2>1, <2>3, <2>4, <2>5, OrderAppend
  <1> QED BY <1>7, <1>8, <1>9 DEF BInv, Core, Order

-----------------------------------------------------------------------------
(* The threads of a user.                                                  *)

\* They change nothing in the passes.
LEMMA PassesUntouched ==
    ASSUME UNCHANGED passvars
    PROVE  /\ UNCHANGED <<readers, bcast, op, todo, chunk, sent>>
           /\ \A u : ToVisit(bcast, u)' <=> ToVisit(bcast, u)
           /\ \A u : Held(u)' <=> Held(u)
           /\ \A u : Held(u) => Progress(u)' = Progress(u)
  <1>1. UNCHANGED <<readers, bcast, op, todo, chunk, sent>>
    BY DEF passvars
  <1>2. \A u : ToVisit(bcast, u)' <=> ToVisit(bcast, u)
    BY <1>1 DEF ToVisit
  <1>3. \A u : Held(u)' <=> Held(u)
    BY <1>1, <1>2 DEF Held, ToVisit
  <1>4. \A u : Held(u) => Progress(u)' = Progress(u)
    BY <1>1, <1>2, <1>3 DEF Progress, ToVisit
  <1> QED BY <1>1, <1>2, <1>3, <1>4

\* A step of u's thread that writes nothing and leaves the list alone.
LEMMA OwnSocketStep ==
    ASSUME BInv, UNCHANGED passvars, UNCHANGED <<list, stream, midway>>, NEW u \in Users,
           lock' \in [Users -> Users \union Writers \union {None}],
           upc' \in [Users -> {"add", "in", "bye", "remove", "free", "freed"}],
           part' \in [Users -> (0..Chunks) \union {None}],
           \A v \in Users \ {u} : lock'[v] = lock[v] /\ part'[v] = part[v] /\ upc'[v] = upc[v],
           upc[u] \in {"in", "bye", "remove"} <=> upc'[u] \in {"in", "bye", "remove"},
           upc'[u] # "add", part'[u] # None => upc'[u] = "bye",
           u \notin midway /\ Member(u) => LockOK(u)' /\ StreamOK(u)'
    PROVE  BInv'
  <1>1. /\ UNCHANGED <<readers, bcast, op, todo, chunk, sent>>
        /\ \A v : ToVisit(bcast, v)' <=> ToVisit(bcast, v)
        /\ \A v : Held(v)' <=> Held(v)
        /\ \A v : Held(v) => Progress(v)' = Progress(v)
    BY PassesUntouched
  <1>2. TypeOK' /\ WriterInv'
    BY <1>1 DEF BInv, TypeOK, WriterInv
  <1>3. ListInv'
    BY <1>1 DEF BInv, ListInv, Member, ToVisit
  <1>4. SocketInv'
    <2> SUFFICES ASSUME NEW v \in Users \ midway, Member(v), v # u
                 PROVE  LockOK(v)' /\ StreamOK(v)'
      BY DEF BInv, SocketInv, Member
    <2>1. LockOK(v) /\ StreamOK(v)
      BY DEF BInv, SocketInv
    <2> QED BY <1>1, <2>1, SocketUntouched
  <1>5. Order'
    BY <1>1, OrderUntouched DEF BInv, Order, ToVisit
  <1> QED BY <1>2, <1>3, <1>4, <1>5 DEF BInv, Order

LEMMA SayStep == ASSUME BInv, NEW u \in Users, Say(u) PROVE BInv'
  <1>1. /\ upc[u] = "bye" /\ part[u] = None /\ lock[u] = None
        /\ lock' = [lock EXCEPT ![u] = u] /\ part' = [part EXCEPT ![u] = 0]
        /\ UNCHANGED <<list, upc, stream, midway>> /\ UNCHANGED passvars
    BY DEF Say
  <1>2. \A v : (Held(v)' <=> Held(v)) /\ bcast' = bcast
    BY <1>1, PassesUntouched
  <1>3. ASSUME u \notin midway, Member(u) PROVE LockOK(u)' /\ StreamOK(u)'
    <2>1. LockOK(u) /\ StreamOK(u)
      BY <1>3 DEF BInv, SocketInv
    <2>2. ~Held(u)
      BY <1>1, <2>1 DEF LockOK, Held
    <2>3. lock'[u] = u /\ part'[u] = 0 /\ 0 # None
      BY <1>1, BroadcastAssumption DEF BInv, TypeOK
    <2>4. Progress(u) = 0 /\ Progress(u)' = 0
      BY <1>1, <1>2, <2>2, <2>3 DEF Progress
    <2>5. LockOK(u)'
      BY <1>2, <2>2, <2>3 DEF LockOK
    <2>6. StreamOK(u)'
      BY <1>1, <2>1, <2>4 DEF StreamOK, EndsWith
    <2> QED BY <2>5, <2>6
  <1>4. /\ lock' \in [Users -> Users \union Writers \union {None}]
        /\ part' \in [Users -> (0..Chunks) \union {None}]
        /\ \A v \in Users \ {u} : lock'[v] = lock[v] /\ part'[v] = part[v]
    <2>1. 0 \in 0..Chunks
      BY BroadcastAssumption
    <2> QED BY <1>1, <2>1 DEF BInv, TypeOK
  <1>5. upc' \in [Users -> {"add", "in", "bye", "remove", "free", "freed"}]
    BY <1>1 DEF BInv, TypeOK
  <1> QED BY <1>1, <1>3, <1>4, <1>5, OwnSocketStep

LEMMA SayEndStep == ASSUME BInv, NEW u \in Users, SayEnd(u) PROVE BInv'
  <1>1. /\ part[u] = Chunks
        /\ part' = [part EXCEPT ![u] = None] /\ lock' = [lock EXCEPT ![u] = None]
        /\ upc' = [upc EXCEPT ![u] = "remove"]
        /\ UNCHANGED <<list, stream, midway>> /\ UNCHANGED passvars
    BY DEF SayEnd
  <1>2. \A v : (Held(v)' <=> Held(v)) /\ bcast' = bcast
    BY <1>1, PassesUntouched
  <1>3. part[u] # None /\ upc[u] = "bye" /\ Chunks # 0
    BY <1>1, BroadcastAssumption DEF BInv, ListInv
  <1>4. ASSUME u \notin midway, Member(u) PROVE LockOK(u)' /\ StreamOK(u)'
    <2>1. LockOK(u) /\ StreamOK(u)
      BY <1>4 DEF BInv, SocketInv
    <2>2. ~Held(u)
      BY <1>3, <2>1 DEF LockOK
    <2>3. lock'[u] = None /\ part'[u] = None
      BY <1>1 DEF BInv, TypeOK
    <2>4. Progress(u) = Chunks
      BY <1>1, <1>3, <2>2 DEF Progress
    <2>5. Progress(u)' = 0
      BY <1>2, <2>2, <2>3 DEF Progress
    <2>6. LockOK(u)'
      BY <1>2, <2>2, <2>3 DEF LockOK
    <2>7. stream[u][Len(stream[u])].k = Chunks
      BY <1>3, <2>1, <2>4 DEF StreamOK, EndsWith, Written
    <2>8. StreamOK(u)'
      BY <1>1, <2>5, <2>7 DEF StreamOK, EndsWith
    <2> QED BY <2>6, <2>8
  <1>5. /\ lock' \in [Users -> Users \union Writers \union {None}]
        /\ part' \in [Users -> (0..Chunks) \union {None}] /\ part'[u] = None
        /\ upc' \in [Users -> {"add", "in", "bye", "remove", "free", "freed"}]
        /\ upc'[u] = "remove"
        /\ \A v \in Users \ {u} : lock'[v] = lock[v] /\ part'[v] = part[v] /\ upc'[v] = upc[v]
    BY <1>1 DEF BInv, TypeOK
  <1> QED BY <1>1, <1>3, <1>4, <1>5, OwnSocketStep

LEMMA InputEndsStep ==
    ASSUME BInv, NEW u \in Users, InputEnds(u) \/ AddUserFails(u)
    PROVE  BInv'
  <1>1. /\ \/ upc[u] = "in" /\ upc' = [upc EXCEPT ![u] = "bye"]
           \/ upc[u] = "add" /\ upc' = [upc EXCEPT ![u] = "free"]
        /\ UNCHANGED <<list, lock, part, stream, midway>> /\ UNCHANGED passvars
    BY DEF InputEnds, AddUserFails
  <1>2. part[u] = None
    BY <1>1 DEF BInv, ListInv
  <1>3. ASSUME u \notin midway, Member(u) PROVE LockOK(u)' /\ StreamOK(u)'
    <2>1. LockOK(u) /\ StreamOK(u)
      BY <1>3 DEF BInv, SocketInv
    <2> QED BY <1>1, <2>1, PassesUntouched, SocketUntouched
  <1>4. /\ lock' \in [Users -> Users \union Writers \union {None}]
        /\ part' \in [Users -> (0..Chunks) \union {None}]
        /\ upc' \in [Users -> {"add", "in", "bye", "remove", "free", "freed"}]
        /\ upc'[u] = IF upc[u] = "in" THEN "bye" ELSE "free"
        /\ \A v \in Users \ {u} : lock'[v] = lock[v] /\ part'[v] = part[v] /\ upc'[v] = upc[v]
    BY <1>1 DEF BInv, TypeOK
  <1> QED BY <1>1, <1>2, <1>3, <1>4, OwnSocketStep

LEMMA SayWriteStep == ASSUME BInv, NEW u \in Users, SayWrite(u) PROVE BInv'
  <1> DEFINE x == Written(u, 1, part[u] + 1)
  <1>1. /\ part[u] \in 0..(Chunks - 1) /\ part' = [part EXCEPT ![u] = @ + 1]
        /\ stream' = [stream EXCEPT ![u] = Append(@, x)]
        /\ UNCHANGED <<list, lock, upc, midway>> /\ UNCHANGED passvars
    BY DEF SayWrite
  <1>2. /\ UNCHANGED <<readers, bcast, op, todo, chunk, sent>>
        /\ \A v : ToVisit(bcast, v)' <=> ToVisit(bcast, v)
        /\ \A v : Held(v)' <=> Held(v)
        /\ \A v : Held(v) => Progress(v)' = Progress(v)
    BY <1>1, PassesUntouched
  <1>3. part[u] + 1 \in 1..Chunks /\ part[u] + 1 # None /\ part[u] # None
    BY <1>1, BroadcastAssumption
  <1>4. upc[u] = "bye"
    BY <1>3 DEF BInv, ListInv
  <1>5. x \in Writes /\ x.from = u /\ u \notin Writers
    BY <1>3, WrittenType, BroadcastAssumption
  <1> HIDE DEF x
  <1>6. /\ stream[u] \in Seq(Writes) /\ Append(stream[u], x) \in Seq(Writes)
        /\ stream'[u] = Append(stream[u], x) /\ part'[u] = part[u] + 1
        /\ \A v \in Users \ {u} : stream'[v] = stream[v] /\ part'[v] = part[v]
    BY <1>1, <1>5 DEF BInv, TypeOK
  <1>7. TypeOK'
    BY <1>1, <1>2, <1>3, <1>6 DEF BInv, TypeOK
  <1>8. WriterInv'
    BY <1>2 DEF BInv, WriterInv
  <1>9. ListInv'
    BY <1>1, <1>2, <1>4, <1>6 DEF BInv, ListInv, Member, ToVisit
  <1>10. SocketInv'
    <2> SUFFICES ASSUME NEW v \in Users \ midway
                 PROVE  Whole(stream'[v]) /\ (Member(v) => LockOK(v)' /\ StreamOK(v)')
      BY <1>1 DEF SocketInv, Member
    <2>1. Whole(stream[v]) /\ (Member(v) => LockOK(v) /\ StreamOK(v))
      BY DEF BInv, SocketInv
    <2>2. CASE v = u
      <3>1. LockOK(u) /\ StreamOK(u)
        BY <1>4, <2>1, <2>2 DEF BInv, ListInv
      <3>2. ~Held(u) /\ ~Held(u)'
        BY <1>2, <1>3, <3>1 DEF LockOK
      <3>3. Progress(u) = part[u] /\ Progress(u)' = part[u] + 1
        BY <1>3, <1>6, <3>2 DEF Progress
      <3>4. Sender(u) = u /\ Sender(u)' = u /\ Number(u) = 1 /\ Number(u)' = 1
        BY <3>2 DEF Sender, Number
      <3>5. PICK m \in 1..Chunks : m = part[u] + 1
        BY <1>3
      <3>6. Whole(stream'[u]) /\ EndsWith(stream'[u], u, 1, part[u] + 1)
        <4>1. m - 1 = part[u] /\ x = Written(u, 1, m)
          BY <1>1, <3>5 DEF x
        <4>2. EndsWith(stream[u], u, 1, m - 1)
          BY <3>1, <3>3, <3>4, <4>1 DEF StreamOK
        <4>3. /\ Whole(Append(stream[u], Written(u, 1, m)))
              /\ EndsWith(Append(stream[u], Written(u, 1, m)), u, 1, m)
          BY <1>6, <2>1, <2>2, <4>2, WholeAppend
        <4> QED BY <1>6, <3>5, <4>1, <4>3
      <3>7. ASSUME NEW k \in 1..(part[u] + 1) PROVE Holds(stream'[u], Written(u, 1, k))
        <4>1. /\ Len(stream'[u]) = Len(stream[u]) + 1 /\ Len(stream[u]) \in Nat
              /\ stream'[u][Len(stream[u]) + 1] = x
              /\ \A i \in 1..Len(stream[u]) : stream'[u][i] = stream[u][i]
          BY <1>5, <1>6, AppendFacts
        <4>2. CASE k = part[u] + 1
          BY <4>1, <4>2 DEF Holds, x
        <4>3. CASE k # part[u] + 1
          <5>1. k \in 1..Progress(u)
            BY <1>1, <3>3, <4>3
          <5>2. PICK i \in 1..Len(stream[u]) : stream[u][i] = Written(u, 1, k)
            BY <3>1, <3>4, <5>1 DEF StreamOK, Holds
          <5>3. i \in 1..Len(stream'[u]) /\ stream'[u][i] = Written(u, 1, k)
            BY <4>1, <5>2
          <5> QED BY <5>3 DEF Holds
        <4> QED BY <4>2, <4>3
      <3>8. StreamOK(u)'
        BY <3>3, <3>4, <3>6, <3>7 DEF StreamOK
      <3>9. LockOK(u)'
        BY <1>1, <1>3, <1>6, <3>1, <3>2 DEF LockOK
      <3> QED BY <2>2, <3>6, <3>8, <3>9
    <2>3. CASE v # u
      BY <1>1, <1>2, <1>6, <2>1, <2>3, SocketUntouched
    <2> QED BY <2>2, <2>3
  <1>11. Order'
    BY <1>1, <1>2, <1>5, <1>7, OrderAppend DEF BInv, Order
  <1> QED BY <1>7, <1>8, <1>9, <1>10, <1>11 DEF BInv, Order

\* guac_client_add_user: the new user's socket is nobody's, and nothing is under way on
\* it unless the user is added between the lock pass and the unlock pass.
LEMMA AddUserStep == ASSUME BInv, NEW u \in Users, AddUser(u) PROVE BInv'
  <1>1. /\ upc[u] = "add" /\ readers = {} /\ list' = <<u>> \o list
        /\ midway' = IF Broadcasting THEN midway \union {u} ELSE midway
        /\ upc' = [upc EXCEPT ![u] = "in"]
        /\ UNCHANGED <<lock, part, stream>> /\ UNCHANGED passvars
    BY DEF AddUser
  <1>2. /\ UNCHANGED <<readers, bcast, op, todo, chunk, sent>>
        /\ \A v : ToVisit(bcast, v)' <=> ToVisit(bcast, v)
        /\ \A v : Held(v)' <=> Held(v)
        /\ \A v : Held(v) => Progress(v)' = Progress(v)
    BY <1>1, PassesUntouched
  <1>3. /\ ~Member(u) /\ part[u] = None /\ lock[u] = None /\ stream[u] = <<>> /\ u \notin midway
        /\ list \in Seq(Users) /\ Distinct(list)
    BY <1>1 DEF BInv, TypeOK, ListInv
  <1>4. /\ list' \in Seq(Users) /\ Distinct(list') /\ \A v : Member(v)' <=> Member(v) \/ v = u
    BY <1>1, <1>3, ConsFacts DEF Member
  <1>5. TypeOK'
    BY <1>1, <1>2, <1>4 DEF BInv, TypeOK
  <1>6. WriterInv'
    BY <1>2 DEF BInv, WriterInv
  <1>7. ListInv'
    <2>1. /\ upc'[u] = "in" /\ \A v \in Users \ {u} : upc'[v] = upc[v]
      BY <1>1 DEF BInv, TypeOK
    <2>2. \A v \in Users : Member(v)' <=> upc'[v] \in {"in", "bye", "remove"}
      BY <1>4, <2>1 DEF BInv, ListInv
    <2>3. \A w \in Writers : Distinct(todo'[w]) /\ \A v \in Users : ToVisit(w, v)' => Member(v)'
      BY <1>2, <1>4 DEF BInv, ListInv, ToVisit
    <2>4. \A v \in Users : part'[v] # None => upc'[v] = "bye"
      BY <1>1, <1>3, <2>1 DEF BInv, ListInv
    <2>5. \A v \in Users : upc'[v] = "add" => lock'[v] = None /\ stream'[v] = <<>> /\ v \notin midway'
      BY <1>1, <2>1 DEF BInv, ListInv
    <2> QED BY <1>4, <2>2, <2>3, <2>4, <2>5 DEF ListInv
  <1>8. SocketInv'
    <2> SUFFICES ASSUME NEW v \in Users \ midway'
                 PROVE  Whole(stream'[v]) /\ (Member(v)' => LockOK(v)' /\ StreamOK(v)')
      BY DEF SocketInv
    <2>1. v \in Users \ midway
      BY <1>1
    <2>2. Whole(stream[v]) /\ (Member(v) => LockOK(v) /\ StreamOK(v))
      BY <2>1 DEF BInv, SocketInv
    <2>3. CASE v = u
      <3>1. ~Broadcasting
        BY <1>1, <1>3, <2>3
      <3>2. bcast # None => op[bcast] \notin {"lock", "write", "unlock", "open"}
        BY <1>1, <3>1 DEF BInv, TypeOK, WriterInv, Broadcasting
      <3>3. ~Held(u) /\ ~Held(u)'
        BY <1>2, <3>2 DEF Held
      <3>4. LockOK(u)'
        BY <1>1, <1>3, <3>3 DEF LockOK
      <3>5. Progress(u)' = 0
        BY <1>1, <1>3, <3>3 DEF Progress
      <3>6. StreamOK(u)'
        BY <1>1, <1>3, <3>5 DEF StreamOK, EndsWith
      <3> QED BY <1>1, <2>2, <2>3, <3>4, <3>6
    <2>4. CASE v # u
      BY <1>1, <1>2, <1>4, <2>2, <2>4, SocketUntouched
    <2> QED BY <2>3, <2>4
  <1>9. Order'
    BY <1>1, <1>2, OrderUntouched DEF BInv, Order, ToVisit
  <1> QED BY <1>5, <1>6, <1>7, <1>8, <1>9 DEF BInv, Order

\* guac_client_remove_user: no pass is under way, so nobody has the user still to visit.
LEMMA RemoveUserStep == ASSUME BInv, NEW u \in Users, RemoveUser(u) PROVE BInv'
  <1>1. /\ upc[u] = "remove" /\ readers = {}
        /\ upc' = [upc EXCEPT ![u] = "free"]
        /\ UNCHANGED <<lock, part, stream, midway>> /\ UNCHANGED passvars
    BY DEF RemoveUser
  <1>2. PICK i \in DOMAIN list : list[i] = u /\ list' = RemoveAt(list, i)
    BY DEF RemoveUser
  <1>3. /\ UNCHANGED <<readers, bcast, op, todo, chunk, sent>>
        /\ \A v : ToVisit(bcast, v)' <=> ToVisit(bcast, v)
        /\ \A v : Held(v)' <=> Held(v)
        /\ \A v : Held(v) => Progress(v)' = Progress(v)
    BY <1>1, PassesUntouched
  <1>4. list \in Seq(Users) /\ Distinct(list) /\ i \in 1..Len(list)
    BY <1>2 DEF BInv, TypeOK, ListInv
  <1>5. /\ list' \in Seq(Users) /\ Distinct(list')
        /\ \A v : Member(v)' <=> Member(v) /\ v # u
    BY <1>2, <1>4, RemoveFacts DEF Member
  <1>6. TypeOK' /\ WriterInv'
    BY <1>1, <1>3, <1>5 DEF BInv, TypeOK, WriterInv
  <1>7. ListInv'
    <2>1. /\ upc'[u] = "free" /\ \A v \in Users \ {u} : upc'[v] = upc[v]
      BY <1>1 DEF BInv, TypeOK
    <2>2. \A v \in Users : Member(v)' <=> upc'[v] \in {"in", "bye", "remove"}
      BY <1>5, <2>1 DEF BInv, ListInv
    <2>3. \A w \in Writers : todo'[w] = <<>> /\ Distinct(todo'[w])
      BY <1>1, <1>3 DEF BInv, WriterInv, ListInv
    <2>4. \A w \in Writers : \A v \in Users : ~ToVisit(w, v)'
      BY <2>3 DEF ToVisit, Holds
    <2>5. \A v \in Users : part'[v] # None => upc'[v] = "bye"
      BY <1>1, <2>1 DEF BInv, ListInv
    <2>6. \A v \in Users : upc'[v] = "add" => lock'[v] = None /\ stream'[v] = <<>> /\ v \notin midway'
      BY <1>1, <2>1 DEF BInv, ListInv
    <2> QED BY <1>5, <2>2, <2>3, <2>4, <2>5, <2>6 DEF ListInv
  <1>8. SocketInv'
    <2> SUFFICES ASSUME NEW v \in Users \ midway
                 PROVE  Whole(stream'[v]) /\ (Member(v)' => LockOK(v)' /\ StreamOK(v)')
      BY <1>1 DEF SocketInv
    <2>1. Whole(stream[v]) /\ (Member(v) => LockOK(v) /\ StreamOK(v))
      BY DEF BInv, SocketInv
    <2> QED BY <1>1, <1>3, <1>5, <2>1, SocketUntouched
  <1>9. Order'
    BY <1>1, <1>3, OrderUntouched DEF BInv, Order, ToVisit
  <1> QED BY <1>6, <1>7, <1>8, <1>9 DEF BInv, Order

LEMMA FreeUserStep == ASSUME BInv, NEW u \in Users, FreeUser(u) PROVE BInv'
  <1>1. /\ upc[u] = "free" /\ upc' = [upc EXCEPT ![u] = "freed"]
        /\ stream' = [stream EXCEPT ![u] = <<>>] /\ lock' = [lock EXCEPT ![u] = None]
        /\ UNCHANGED <<list, part, midway>> /\ UNCHANGED passvars
    BY DEF FreeUser
  <1>2. /\ UNCHANGED <<readers, bcast, op, todo, chunk, sent>>
        /\ \A v : ToVisit(bcast, v)' <=> ToVisit(bcast, v)
        /\ \A v : Held(v)' <=> Held(v)
        /\ \A v : Held(v) => Progress(v)' = Progress(v)
    BY <1>1, PassesUntouched
  <1>3. /\ stream'[u] = <<>> /\ lock'[u] = None /\ upc'[u] = "freed"
        /\ \A v \in Users \ {u} : stream'[v] = stream[v] /\ lock'[v] = lock[v] /\ upc'[v] = upc[v]
    BY <1>1 DEF BInv, TypeOK
  <1>4. ~Member(u) /\ part[u] = None
    BY <1>1 DEF BInv, ListInv
  <1>5. TypeOK' /\ WriterInv'
    BY <1>1, <1>2 DEF BInv, TypeOK, WriterInv
  <1>6. ListInv'
    BY <1>1, <1>2, <1>3, <1>4 DEF BInv, ListInv, Member, ToVisit
  <1>7. SocketInv'
    <2> SUFFICES ASSUME NEW v \in Users \ midway
                 PROVE  Whole(stream'[v]) /\ (Member(v) => LockOK(v)' /\ StreamOK(v)')
      BY <1>1 DEF SocketInv, Member
    <2>1. Whole(stream[v]) /\ (Member(v) => LockOK(v) /\ StreamOK(v))
      BY DEF BInv, SocketInv
    <2>2. CASE v = u
      BY <1>3, <1>4, <2>2 DEF Whole
    <2>3. CASE v # u
      BY <1>1, <1>2, <1>3, <2>1, <2>3, SocketUntouched
    <2> QED BY <2>2, <2>3
  <1>8. \A v \in Users : stream'[v] = stream[v] \/ Len(stream'[v]) = 0
    BY <1>3
  <1>9. OnceInv'
    BY <1>8 DEF BInv, OnceInv
  <1>10. PastInv'
    BY <1>2, <1>8 DEF BInv, PastInv
  <1>11. CurrentInv'
    BY <1>2, <1>8 DEF BInv, CurrentInv, ToVisit
  <1>12. SameOrder'
    <2> SUFFICES ASSUME NEW v \in Users, NEW w \in Users PROVE InOrder(stream'[v], stream'[w])
      BY DEF SameOrder
    <2>1. InOrder(stream[v], stream[w])
      BY DEF BInv, SameOrder
    <2>2. CASE Len(stream'[v]) = 0
      BY <2>2 DEF InOrder
    <2>3. CASE Len(stream'[w]) = 0
      BY <2>3 DEF InOrder
    <2> QED BY <1>8, <2>1, <2>2, <2>3
  <1> QED BY <1>5, <1>6, <1>7, <1>9, <1>10, <1>11, <1>12 DEF BInv

-----------------------------------------------------------------------------
LEMMA NextBInv == ASSUME BInv, [Next]_vars PROVE BInv'
  <1>1. ASSUME NEW w \in Writers, Writer(w) PROVE BInv'
    BY <1>1, BeginStep, StartPassStep, EndPassStep, VisitLockStep, VisitWriteStep,
       VisitUnlockStep DEF Writer
  <1>2. ASSUME NEW u \in Users, User(u) PROVE BInv'
    BY <1>2, SayStep, SayWriteStep, SayEndStep, AddUserStep, InputEndsStep, RemoveUserStep,
       FreeUserStep DEF User
  <1>3. ASSUME Done PROVE BInv'
    BY <1>3, Stutter DEF Done
  <1> QED BY <1>1, <1>2, <1>3, Stutter DEF Next

LEMMA BroadcastInvariant == Spec => []BInv
  BY InitBInv, NextBInv, PTL DEF Spec

\* What a user receives is interleaved at instruction boundaries only, whoever else
\* writes, joins or leaves, unless the user was added between the lock pass and the
\* unlock pass of a broadcast instruction.
THEOREM StreamsWhole == Spec => []InterleavedWhole
  <1>1. BInv => InterleavedWhole
    BY DEF BInv, SocketInv, InterleavedWhole
  <1> QED BY <1>1, BroadcastInvariant, PTL

\* No two users see two broadcast instructions in different orders.
THEOREM OneOrder == Spec => []SameOrder
  <1>1. BInv => SameOrder
    BY DEF BInv
  <1> QED BY <1>1, BroadcastInvariant, PTL

\* When __guac_socket_broadcast_unlock_handler comes to a user, every write of the
\* instruction has been passed on to it, except if it was added midway.
THEOREM EveryoneReached == Spec => []ReachesAll
  <1>1. ASSUME BInv PROVE ReachesAll
    <2> SUFFICES ASSUME NEW w \in Writers, op[w] = "unlock",
                        NEW u \in ToSet(todo[w]) \ midway, NEW k \in 1..Chunks
                 PROVE  Written(w, sent[w], k) \in ToSet(stream[u])
      BY DEF ReachesAll
    <2>1. todo[w] \in Seq(Users)
      BY <1>1 DEF BInv, TypeOK
    <2>2. u \in Users /\ ToVisit(w, u)
      BY <2>1 DEF ToSet, ToVisit, Holds
    <2>3. bcast = w /\ bcast # None /\ chunk[w] = Chunks
      BY <1>1, WriterAlone DEF BInv, WriterInv
    <2>4. Held(u)
      BY <2>2, <2>3 DEF Held
    <2>5. StreamOK(u)
      BY <1>1, <2>2 DEF BInv, ListInv, SocketInv
    <2>6. Progress(u) = Chunks /\ Sender(u) = w /\ Number(u) = sent[w]
      BY <2>3, <2>4 DEF Progress, Sender, Number
    <2>7. PICK i \in 1..Len(stream[u]) : stream[u][i] = Written(w, sent[w], k)
      BY <2>5, <2>6 DEF StreamOK, Holds
    <2>8. i \in DOMAIN stream[u]
      BY <1>1, <2>2 DEF BInv, TypeOK
    <2> QED BY <2>7, <2>8 DEF ToSet
  <1> QED BY <1>1, BroadcastInvariant, PTL

\* A pass of guac_client_foreach_user visits no user that has been removed.
THEOREM MembersOnly == Spec => []VisitsOnlyMembers
  <1>1. ASSUME BInv PROVE VisitsOnlyMembers
    <2> SUFFICES ASSUME NEW w \in Writers, NEW u \in ToSet(todo[w])
                 PROVE  upc[u] \in {"in", "bye", "remove"}
      BY DEF VisitsOnlyMembers
    <2>1. todo[w] \in Seq(Users)
      BY <1>1 DEF BInv, TypeOK
    <2>2. u \in Users /\ ToVisit(w, u)
      BY <2>1 DEF ToSet, ToVisit, Holds
    <2> QED BY <1>1, <2>2 DEF BInv, ListInv
  <1> QED BY <1>1, BroadcastInvariant, PTL

=============================================================================
