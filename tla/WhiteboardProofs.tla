-------------------------- MODULE WhiteboardProofs --------------------------
(***************************************************************************)
(* Around the whiteboards: messages come out of an inbox once and in order,*)
(* what the Pusher hears of a post agrees with the server, the states of a *)
(* user model follow its counters, and a client of the message store       *)
(* misses and repeats nothing.                                             *)
(***************************************************************************)
EXTENDS Inbox, Posting, UserModel, MessageStore, SequencingProofs, TLAPS

-----------------------------------------------------------------------------
(* Inbox: messages come once and in order *)

VideosIn(s) == {s[a][1] : a \in DOMAIN s}

\* Of one video the messages go up.
Ascending(s) == \A a, b \in DOMAIN s : a < b /\ s[a][1] = s[b][1] => s[a][2] < s[b][2]

\* What t has of a video comes before what s has of it.
Follows(s, t) == \A a \in DOMAIN t, b \in DOMAIN s : t[a][1] = s[b][1] => t[a][2] < s[b][2]

Apart(s, t) == \A a \in DOMAIN s, b \in DOMAIN t : s[a] # t[b]

\* What is true of the queue of messages of a reader, s, and of what each reader returned.
Waiting(s) ==
  /\ Ascending(s)
  /\ \A r \in Pullers : Follows(s, returned[r])

LEMMA HeadReturned ==
  ASSUME NEW s \in Seq(Messages), s # <<>>, NEW t \in Seq(Messages),
         Ascending(s), Ascending(t), Follows(s, t)
  PROVE  /\ Append(t, Head(s)) \in Seq(Messages) /\ Tail(s) \in Seq(Messages)
         /\ Ascending(Append(t, Head(s))) /\ Ascending(Tail(s))
         /\ Follows(Tail(s), Append(t, Head(s)))
         /\ VideosIn(Tail(s)) \subseteq VideosIn(s) /\ Head(s)[1] \in VideosIn(s)
         /\ VideosIn(Append(t, Head(s))) = VideosIn(t) \union {Head(s)[1]}
<1> DEFINE h == Head(s)
           u == Append(t, h)
           z == Tail(s)
<1>1. /\ Len(s) \in Nat \ {0} /\ DOMAIN s = 1..Len(s) /\ h = s[1] /\ h \in Messages
      /\ Len(t) \in Nat /\ DOMAIN t = 1..Len(t)
  OBVIOUS
<1>2. z \in Seq(Messages) /\ DOMAIN z = 1..Len(s) - 1 /\ \A a \in 1..Len(s) - 1 : z[a] = s[a + 1]
  OBVIOUS
<1>3. /\ u \in Seq(Messages) /\ DOMAIN u = 1..Len(t) + 1 /\ u[Len(t) + 1] = h
      /\ \A a \in 1..Len(t) : u[a] = t[a]
  BY <1>1, AppendProperties
<1> HIDE DEF h, u, z
<1>4. ASSUME NEW a \in DOMAIN z PROVE a + 1 \in DOMAIN s /\ 1 \in DOMAIN s /\ 1 < a + 1 /\ z[a] = s[a + 1]
  BY <1>1, <1>2
<1>5. ASSUME NEW a \in DOMAIN u PROVE a = Len(t) + 1 \/ a \in DOMAIN t
  BY <1>1, <1>3
<1>6. Ascending(z)
  <2>1. ASSUME NEW a \in DOMAIN z, NEW b \in DOMAIN z, a < b, z[a][1] = z[b][1] PROVE z[a][2] < z[b][2]
    <3>1. a + 1 < b + 1
      BY <1>2, <2>1
    <3>2. QED
      BY <1>4, <2>1, <3>1 DEF Ascending
  <2>2. QED
    BY <2>1 DEF Ascending
<1>7. Ascending(u)
  <2>1. ASSUME NEW a \in DOMAIN u, NEW b \in DOMAIN u, a < b, u[a][1] = u[b][1] PROVE u[a][2] < u[b][2]
    <3>1. a \in DOMAIN t /\ u[a] = t[a]
      BY <1>1, <1>3, <1>5, <2>1
    <3>2. CASE b = Len(t) + 1
      BY <1>1, <1>3, <2>1, <3>1, <3>2 DEF Follows
    <3>3. CASE b \in DOMAIN t
      BY <1>1, <1>3, <2>1, <3>1, <3>3 DEF Ascending
    <3>4. QED
      BY <1>5, <3>2, <3>3
  <2>2. QED
    BY <2>1 DEF Ascending
<1>8. Follows(z, u)
  <2>1. ASSUME NEW a \in DOMAIN u, NEW b \in DOMAIN z, u[a][1] = z[b][1] PROVE u[a][2] < z[b][2]
    <3>1. CASE a = Len(t) + 1
      BY <1>1, <1>3, <1>4, <2>1, <3>1 DEF Ascending
    <3>2. CASE a \in DOMAIN t
      BY <1>1, <1>3, <1>4, <2>1, <3>2 DEF Follows
    <3>3. QED
      BY <1>5, <3>1, <3>2
  <2>2. QED
    BY <2>1 DEF Follows
<1>9. VideosIn(z) \subseteq VideosIn(s) /\ h[1] \in VideosIn(s)
  BY <1>1, <1>4 DEF VideosIn
<1>10. VideosIn(u) = VideosIn(t) \union {h[1]}
  BY <1>1, <1>3, <1>5 DEF VideosIn
<1>11. QED
  BY <1>2, <1>3, <1>6, <1>7, <1>8, <1>9, <1>10 DEF h, u, z

\* A message taken is in no other list, and what is left follows what it followed.
LEMMA HeadApart ==
  ASSUME NEW s \in Seq(Messages), s # <<>>, NEW t \in Seq(Messages), NEW u \in Seq(Messages),
         Follows(s, u), Apart(t, u)
  PROVE  Follows(Tail(s), u) /\ Apart(Append(t, Head(s)), u) /\ Apart(u, Append(t, Head(s)))
<1> DEFINE h == Head(s)
           x == Append(t, h)
           z == Tail(s)
<1>1. /\ Len(s) \in Nat \ {0} /\ 1 \in DOMAIN s /\ h = s[1]
      /\ Len(t) \in Nat /\ DOMAIN t = 1..Len(t) /\ h \in Messages
  OBVIOUS
<1>2. DOMAIN z = 1..Len(s) - 1 /\ \A a \in 1..Len(s) - 1 : z[a] = s[a + 1] /\ a + 1 \in DOMAIN s
  OBVIOUS
<1>3. /\ DOMAIN x = 1..Len(t) + 1 /\ x[Len(t) + 1] = h
      /\ \A a \in 1..Len(t) : x[a] = t[a]
  BY <1>1, AppendProperties
<1>4. \A a \in DOMAIN u : u[a] \in Messages /\ u[a][2] \in Int
  BY DEF Messages
<1> HIDE DEF h, x, z
<1>5. Follows(z, u)
  BY <1>1, <1>2 DEF Follows
<1>6. \A a \in DOMAIN u : u[a] # h
  <2>1. ASSUME NEW a \in DOMAIN u, u[a] = h PROVE FALSE
    <3>1. u[a][1] = s[1][1] /\ u[a][2] = s[1][2]
      BY <1>1, <2>1
    <3>2. u[a][2] < u[a][2]
      BY <1>1, <3>1 DEF Follows
    <3>3. QED
      BY <1>4, <3>2
  <2>2. QED
    BY <2>1
<1>7. Apart(x, u) /\ Apart(u, x)
  <2>1. ASSUME NEW a \in DOMAIN x, NEW b \in DOMAIN u PROVE x[a] # u[b]
    <3>1. CASE a = Len(t) + 1
      BY <1>3, <1>6, <3>1
    <3>2. CASE a \in DOMAIN t
      BY <1>1, <1>3, <3>2 DEF Apart
    <3>3. QED
      BY <1>1, <1>3, <3>1, <3>2
  <2>2. QED
    BY <2>1 DEF Apart
<1>8. QED
  BY <1>5, <1>7 DEF h, x, z

\* A video is unpacked behind the messages of others.
LEMMA Unpacked ==
  ASSUME NEW s \in Seq(Messages), NEW v \in Videos, v \notin VideosIn(s)
  PROVE  /\ s \o Contents(v) \in Seq(Messages)
         /\ VideosIn(s \o Contents(v)) \subseteq VideosIn(s) \union {v}
         /\ Ascending(s) => Ascending(s \o Contents(v))
         /\ \A t \in Seq(Messages) : v \notin VideosIn(t) /\ Follows(s, t) => Follows(s \o Contents(v), t)
<1> DEFINE c == Contents(v)
           u == s \o c
<1>1. Packed \in Nat \ {0} /\ Len(s) \in Nat /\ DOMAIN s = 1..Len(s)
  BY InboxAssumption
<1>2. c \in Seq(Messages) /\ Len(c) = Packed /\ \A n \in 1..Packed : c[n] = <<v, n>>
  BY <1>1 DEF Contents, Messages
<1> HIDE DEF c
<1>3. /\ u \in Seq(Messages) /\ DOMAIN u = 1..Len(s) + Packed
      /\ \A a \in 1..Len(s) + Packed : u[a] = IF a <= Len(s) THEN s[a] ELSE c[a - Len(s)]
  <2>1. u \in Seq(Messages) /\ Len(u) = Len(s) + Packed
    BY <1>1, <1>2, ConcatProperties
  <2>2. \A a \in 1..Len(u) : u[a] = IF a <= Len(s) THEN s[a] ELSE c[a - Len(s)]
    BY <1>1, <1>2, ConcatProperties
  <2> HIDE DEF u
  <2>3. QED
    BY <2>1, <2>2
<1> HIDE DEF u
<1>4. ASSUME NEW a \in DOMAIN u
      PROVE  \/ a \in DOMAIN s /\ u[a] = s[a] /\ u[a][1] # v /\ a <= Len(s)
             \/ a > Len(s) /\ u[a] = <<v, a - Len(s)>>
  <2>1. CASE a <= Len(s)
    BY <1>1, <1>3, <2>1 DEF VideosIn
  <2>2. CASE ~(a <= Len(s))
    <3>1. a - Len(s) \in 1..Packed
      BY <1>1, <1>3, <2>2
    <3>2. QED
      BY <1>1, <1>2, <1>3, <2>2, <3>1
  <2>3. QED
    BY <2>1, <2>2
<1>5. VideosIn(u) \subseteq VideosIn(s) \union {v}
  BY <1>4 DEF VideosIn
<1>6. ASSUME Ascending(s), NEW a \in DOMAIN u, NEW b \in DOMAIN u, a < b, u[a][1] = u[b][1]
      PROVE  u[a][2] < u[b][2]
  <2>1. a \in Int /\ b \in Int
    BY <1>3
  <2>2. CASE a > Len(s) /\ u[a] = <<v, a - Len(s)>>
    <3>1. b > Len(s) /\ u[b] = <<v, b - Len(s)>>
      BY <1>1, <1>4, <1>6, <2>1, <2>2
    <3>2. QED
      BY <1>1, <1>6, <2>1, <2>2, <3>1
  <2>3. CASE a \in DOMAIN s /\ u[a] = s[a] /\ u[a][1] # v
    <3>1. b \in DOMAIN s /\ u[b] = s[b]
      BY <1>4, <1>6, <2>3
    <3>2. QED
      BY <1>6, <2>3, <3>1 DEF Ascending
  <2>4. QED
    BY <1>4, <2>2, <2>3
<1>7. ASSUME NEW t \in Seq(Messages), v \notin VideosIn(t), Follows(s, t)
      PROVE  Follows(u, t)
  <2>1. ASSUME NEW a \in DOMAIN t, NEW b \in DOMAIN u, t[a][1] = u[b][1] PROVE t[a][2] < u[b][2]
    <3>1. t[a][1] # v
      BY <1>7 DEF VideosIn
    <3>2. b \in DOMAIN s /\ u[b] = s[b]
      BY <1>4, <2>1, <3>1
    <3>3. QED
      BY <1>7, <2>1, <3>2 DEF Follows
  <2>2. QED
    BY <2>1 DEF Follows
<1>8. QED
  BY <1>3, <1>5, <1>6, <1>7 DEF c, u, Ascending

-----------------------------------------------------------------------------

ReturnedInv ==
  /\ server \in {"avideo", "dash"}
  /\ returned \in [Pullers -> Seq(Messages)]
  /\ \A r \in Pullers : Ascending(returned[r]) /\ VideosIn(returned[r]) \subseteq arrived

\* A video in the queue of a reader is in no other, and no message of it was unpacked.
AvideoInv ==
  /\ recvQueue \in [Pullers -> Seq(Videos)] /\ shared \in Seq(Messages)
  /\ Waiting(shared)
  /\ VideosIn(shared) \subseteq arrived
  /\ \A r \in Pullers : \A a \in DOMAIN recvQueue[r] :
       /\ recvQueue[r][a] \in arrived \ VideosIn(shared)
       /\ \A q \in Pullers : recvQueue[r][a] \notin VideosIn(returned[q])
  /\ \A r, q \in Pullers : \A a \in DOMAIN recvQueue[r], b \in DOMAIN recvQueue[q] :
       recvQueue[r][a] = recvQueue[q][b] => r = q /\ a = b
  /\ \A r, q \in Pullers : r # q => Apart(returned[r], returned[q])

\* The videos a reader took.
Unpacking(r) == {decoding[r][a] : a \in DOMAIN decoding[r]}
Mine(r) == VideosIn(recvQueue[r]) \union VideosIn(returned[r])

\* A stream is one reader's from the time it took it off the list.
DashInv ==
  /\ recvQueue \in [Pullers -> Seq(Messages)] /\ shared \in Seq(Videos)
  /\ decoding \in [Pullers -> {<<>>} \union {<<v>> : v \in Videos}]
  /\ \A r \in Pullers : Ascending(recvQueue[r]) /\ Follows(recvQueue[r], returned[r])
  /\ \A r \in Pullers : Mine(r) \union Unpacking(r) \subseteq arrived
  /\ \A r \in Pullers : Mine(r) \intersect Unpacking(r) = {}
  /\ \A r, q \in Pullers : r # q =>
       (Mine(r) \union Unpacking(r)) \intersect (Mine(q) \union Unpacking(q)) = {}
  /\ \A a \in DOMAIN shared :
       shared[a] \in arrived /\ \A r \in Pullers : shared[a] \notin Mine(r) \union Unpacking(r)
  /\ \A a, b \in DOMAIN shared : shared[a] = shared[b] => a = b

InboxInv ==
  /\ ReturnedInv
  /\ server = "avideo" => AvideoInv
  /\ server = "dash" => DashInv

LEMMA InboxStart == IInit => InboxInv
<1> SUFFICES ASSUME IInit PROVE InboxInv
  OBVIOUS
<1>1. DOMAIN <<>> = {} /\ VideosIn(<<>>) = {}
  BY DEF VideosIn
<1>2. ReturnedInv
  BY <1>1 DEF IInit, ReturnedInv, Ascending
<1>3. AvideoInv
  BY <1>1 DEF IInit, AvideoInv, Waiting, Ascending, Follows, Apart
<1>4. \A r \in Pullers : Mine(r) = {} /\ Unpacking(r) = {}
  BY <1>1 DEF IInit, Mine, Unpacking
<1>5. DashInv
  BY <1>1, <1>4 DEF IInit, DashInv, Ascending, Follows
<1>6. QED
  BY <1>2, <1>3, <1>5 DEF InboxInv

\* A Puller takes the first message of recv_msg_list.
LEMMA SharedReturned ==
  ASSUME InboxInv, server = "avideo", server' = server, NEW r \in Pullers, shared # <<>>, Return(r, Head(shared)),
         shared' = Tail(shared), UNCHANGED <<recvQueue, arrived>>
  PROVE  InboxInv'
<1>1. /\ returned \in [Pullers -> Seq(Messages)] /\ shared \in Seq(Messages)
      /\ Ascending(shared) /\ \A q \in Pullers : Follows(shared, returned[q]) /\ Ascending(returned[q])
      /\ VideosIn(shared) \subseteq arrived
      /\ \A q \in Pullers : VideosIn(returned[q]) \subseteq arrived
  BY DEF InboxInv, ReturnedInv, AvideoInv, Waiting
<1>2. returned'[r] = Append(returned[r], Head(shared)) /\ \A q \in Pullers \ {r} : returned'[q] = returned[q]
  BY <1>1 DEF Return
<1>3. /\ returned'[r] \in Seq(Messages) /\ shared' \in Seq(Messages)
      /\ Ascending(returned'[r]) /\ Ascending(shared')
      /\ Follows(shared', returned'[r])
      /\ VideosIn(shared') \subseteq VideosIn(shared)
      /\ VideosIn(returned'[r]) \subseteq VideosIn(returned[r]) \union VideosIn(shared)
  BY <1>1, <1>2, HeadReturned
<1>4. \A q \in Pullers \ {r} :
        Follows(shared', returned'[q]) /\ Apart(returned'[r], returned'[q]) /\ Apart(returned'[q], returned'[r])
  <2>1. ASSUME NEW q \in Pullers \ {r}
        PROVE  Follows(shared', returned'[q]) /\ Apart(returned'[r], returned'[q]) /\ Apart(returned'[q], returned'[r])
    <3>1. Apart(returned[r], returned[q]) /\ returned[q] \in Seq(Messages) /\ returned[r] \in Seq(Messages)
      BY <1>1 DEF InboxInv, AvideoInv
    <3>2. Follows(shared, returned[q])
      BY <1>1
    <3>3. QED
      BY <1>1, <1>2, <3>1, <3>2, HeadApart
  <2>2. QED
    BY <2>1
<1>5. returned' \in [Pullers -> Seq(Messages)]
  BY <1>1, <1>3 DEF Return
<1>6. ReturnedInv'
  BY <1>1, <1>2, <1>3, <1>5 DEF InboxInv, ReturnedInv
<1>7. \A q \in Pullers : VideosIn(returned'[q]) \subseteq VideosIn(returned[q]) \union VideosIn(shared)
  BY <1>2, <1>3
<1>8. Waiting(shared)'
  BY <1>3, <1>4 DEF Waiting
<1>9. \A p, q \in Pullers : p # q => Apart(returned'[p], returned'[q])
  BY <1>2, <1>4 DEF InboxInv, AvideoInv
<1>10. \A p \in Pullers : \A a \in DOMAIN recvQueue[p] :
         /\ recvQueue[p][a] \in arrived \ VideosIn(shared')
         /\ \A q \in Pullers : recvQueue[p][a] \notin VideosIn(returned'[q])
  BY <1>3, <1>7 DEF InboxInv, AvideoInv
<1>11. AvideoInv'
  BY <1>1, <1>3, <1>8, <1>9, <1>10 DEF InboxInv, AvideoInv
<1>12. QED
  BY <1>6, <1>11 DEF InboxInv

\* The head of a queue of videos is unpacked into recv_msg_list, or given up.
LEMMA VideoUnwedged ==
  ASSUME InboxInv, NEW r \in Pullers, UnwedgeVideo(r)
  PROVE  InboxInv'
<1> DEFINE q == recvQueue[r]
           v == Head(q)
<1>1. /\ server = "avideo" /\ server' = server /\ UNCHANGED <<arrived, returned>>
      /\ q # <<>> /\ recvQueue' = [recvQueue EXCEPT ![r] = Tail(q)]
      /\ shared' = shared \/ shared' = shared \o Contents(v)
  BY DEF UnwedgeVideo
<1>2. AvideoInv /\ ReturnedInv
  BY <1>1 DEF InboxInv
<1>3. recvQueue \in [Pullers -> Seq(Videos)] /\ shared \in Seq(Messages) /\ q \in Seq(Videos)
      /\ returned \in [Pullers -> Seq(Messages)]
  BY <1>2 DEF AvideoInv, ReturnedInv
<1>4. /\ Len(q) \in Nat \ {0} /\ DOMAIN q = 1..Len(q) /\ v = q[1] /\ v \in Videos /\ Tail(q) \in Seq(Videos)
      /\ DOMAIN Tail(q) = 1..Len(q) - 1 /\ \A a \in DOMAIN Tail(q) : Tail(q)[a] = q[a + 1]
  BY <1>1, <1>3
<1>5. recvQueue'[r] = Tail(q) /\ \A p \in Pullers \ {r} : recvQueue'[p] = recvQueue[p]
  BY <1>1, <1>3
<1>6. v \in arrived \ VideosIn(shared) /\ \A p \in Pullers : v \notin VideosIn(returned[p])
  BY <1>2, <1>4 DEF AvideoInv
<1> HIDE DEF v
<1>7. /\ shared' \in Seq(Messages) /\ VideosIn(shared') \subseteq VideosIn(shared) \union {v}
      /\ Ascending(shared') /\ \A p \in Pullers : Follows(shared', returned[p])
  <2>1. Ascending(shared) /\ \A p \in Pullers : Follows(shared, returned[p]) /\ returned[p] \in Seq(Messages)
    BY <1>2, <1>3 DEF AvideoInv, Waiting
  <2>2. CASE shared' = shared
    BY <1>3, <2>1, <2>2
  <2>3. CASE shared' = shared \o Contents(v)
    BY <1>3, <1>4, <1>6, <2>1, <2>3, Unpacked
  <2>4. QED
    BY <1>1, <2>2, <2>3
<1>8. Waiting(shared)'
  BY <1>1, <1>7 DEF Waiting
<1> DEFINE at(p, a) == IF p = r THEN a + 1 ELSE a
<1>9. \A p \in Pullers : \A a \in DOMAIN recvQueue'[p] :
        at(p, a) \in DOMAIN recvQueue[p] /\ recvQueue'[p][a] = recvQueue[p][at(p, a)] /\ a \in Nat
        /\ (p = r => at(p, a) # 1)
  <2>1. ASSUME NEW p \in Pullers, NEW a \in DOMAIN recvQueue'[p]
        PROVE  /\ at(p, a) \in DOMAIN recvQueue[p] /\ recvQueue'[p][a] = recvQueue[p][at(p, a)] /\ a \in Nat
               /\ (p = r => at(p, a) # 1)
    <3>1. CASE p = r
      <4>1. recvQueue'[p] = Tail(q) /\ a \in 1..Len(q) - 1
        BY <1>4, <1>5, <2>1, <3>1
      <4>2. Tail(q)[a] = q[a + 1] /\ a + 1 \in DOMAIN q /\ a \in Nat /\ a + 1 # 1
        BY <1>4, <4>1
      <4>3. QED
        BY <3>1, <4>1, <4>2
    <3>2. CASE p # r
      BY <1>3, <1>5, <2>1, <3>2
    <3>3. QED
      BY <3>1, <3>2
  <2>2. QED
    BY <2>1
<1>10. ASSUME NEW p \in Pullers, NEW a \in DOMAIN recvQueue'[p] PROVE recvQueue'[p][a] # v
  <2>1. at(p, a) \in DOMAIN recvQueue[p] /\ recvQueue'[p][a] = recvQueue[p][at(p, a)] /\ (p = r => at(p, a) # 1)
    BY <1>9
  <2>2. 1 \in DOMAIN recvQueue[r] /\ recvQueue[r][1] = v
    BY <1>4
  <2> HIDE DEF at
  <2>3. recvQueue[p][at(p, a)] = recvQueue[r][1] => p = r /\ at(p, a) = 1
    BY <1>2, <2>1, <2>2 DEF AvideoInv
  <2>4. QED
    BY <2>1, <2>2, <2>3
<1>11. ASSUME NEW p \in Pullers, NEW a \in DOMAIN recvQueue'[p]
       PROVE  /\ recvQueue'[p][a] \in arrived \ VideosIn(shared')
              /\ \A x \in Pullers : recvQueue'[p][a] \notin VideosIn(returned'[x])
  <2>1. at(p, a) \in DOMAIN recvQueue[p] /\ recvQueue'[p][a] = recvQueue[p][at(p, a)]
    BY <1>9
  <2> HIDE DEF at
  <2>2. /\ recvQueue'[p][a] \in arrived \ VideosIn(shared)
        /\ \A x \in Pullers : recvQueue'[p][a] \notin VideosIn(returned[x])
    BY <1>2, <2>1 DEF AvideoInv
  <2>3. QED
    BY <1>1, <1>7, <1>10, <2>2
<1>12. ASSUME NEW p \in Pullers, NEW x \in Pullers, NEW a \in DOMAIN recvQueue'[p],
              NEW b \in DOMAIN recvQueue'[x], recvQueue'[p][a] = recvQueue'[x][b]
       PROVE  p = x /\ a = b
  <2>1. /\ at(p, a) \in DOMAIN recvQueue[p] /\ recvQueue'[p][a] = recvQueue[p][at(p, a)] /\ a \in Nat
        /\ at(x, b) \in DOMAIN recvQueue[x] /\ recvQueue'[x][b] = recvQueue[x][at(x, b)] /\ b \in Nat
    BY <1>9
  <2>2. p = x /\ at(p, a) = at(x, b)
    <3> HIDE DEF at
    <3>1. \A c \in DOMAIN recvQueue[p], d \in DOMAIN recvQueue[x] :
            recvQueue[p][c] = recvQueue[x][d] => p = x /\ c = d
      BY <1>2 DEF AvideoInv
    <3>2. QED
      BY <1>12, <2>1, <3>1
  <2>3. QED
    BY <2>1, <2>2
<1>13. recvQueue' \in [Pullers -> Seq(Videos)]
  BY <1>1, <1>3, <1>4
<1>14. VideosIn(shared') \subseteq arrived'
  BY <1>1, <1>2, <1>6, <1>7 DEF AvideoInv
<1>15. AvideoInv'
  <2>1. \A p, x \in Pullers : p # x => Apart(returned'[p], returned'[x])
    BY <1>1, <1>2 DEF AvideoInv
  <2> HIDE DEF q, at
  <2>2. QED
    BY <1>1, <1>7, <1>8, <1>11, <1>12, <1>13, <1>14, <2>1 DEF AvideoInv
<1>16. QED
  BY <1>1, <1>2, <1>15 DEF InboxInv, ReturnedInv

\* A video arrives in a queue, or in the list of streams.
LEMMA VideoArrives ==
  ASSUME InboxInv, NEW v \in Videos, Arrives(v)
  PROVE  InboxInv'
<1>1. v \notin arrived /\ arrived' = arrived \union {v} /\ UNCHANGED <<server, rpc, decoding, lost, returned>>
  BY DEF Arrives
<1>2. ReturnedInv /\ ReturnedInv'
  BY <1>1 DEF InboxInv, ReturnedInv
<1>3. CASE server = "avideo"
  <2>1. AvideoInv /\ recvQueue \in [Pullers -> Seq(Videos)]
    BY <1>3 DEF InboxInv, AvideoInv
  <2>2. PICK r \in Pullers : recvQueue' = [recvQueue EXCEPT ![r] = Append(recvQueue[r], v)]
    BY <1>3 DEF Arrives
  <2>3. shared' = shared
    BY <1>3 DEF Arrives
  <2> DEFINE q == recvQueue[r]
  <2>4. q \in Seq(Videos) /\ Len(q) \in Nat /\ DOMAIN q = 1..Len(q)
    BY <2>1
  <2>5. /\ DOMAIN Append(q, v) = 1..Len(q) + 1 /\ Append(q, v)[Len(q) + 1] = v
        /\ \A a \in 1..Len(q) : Append(q, v)[a] = q[a]
        /\ Append(q, v) \in Seq(Videos)
    <3> HIDE DEF q
    <3>1. QED
      BY <2>4, AppendProperties
  <2>6. recvQueue'[r] = Append(q, v) /\ \A p \in Pullers \ {r} : recvQueue'[p] = recvQueue[p]
    BY <2>1, <2>2
  <2> HIDE DEF q
  <2>7. ASSUME NEW p \in Pullers, NEW a \in DOMAIN recvQueue'[p]
        PROVE  \/ p = r /\ a = Len(q) + 1 /\ recvQueue'[p][a] = v
               \/ /\ a \in DOMAIN recvQueue[p] /\ recvQueue'[p][a] = recvQueue[p][a]
                  /\ recvQueue'[p][a] # v
    <3>1. \A c \in DOMAIN recvQueue[p] : recvQueue[p][c] # v
      BY <1>1, <2>1 DEF AvideoInv
    <3>2. CASE p = r
      <4>1. a \in 1..Len(q) + 1
        BY <2>5, <2>6, <2>7, <3>2
      <4>2. a = Len(q) + 1 \/ a \in 1..Len(q)
        BY <2>4, <4>1
      <4>3. QED
        BY <2>4, <2>5, <2>6, <3>1, <3>2, <4>2 DEF q
    <3>3. CASE p # r
      BY <2>6, <2>7, <3>1, <3>3
    <3>4. QED
      BY <3>2, <3>3
  <2>8. v \notin VideosIn(shared) /\ \A p \in Pullers : v \notin VideosIn(returned[p])
    BY <1>1, <1>2, <2>1 DEF AvideoInv, ReturnedInv
  <2>9. \A p \in Pullers : \A a \in DOMAIN recvQueue'[p] :
          /\ recvQueue'[p][a] \in arrived' \ VideosIn(shared')
          /\ \A x \in Pullers : recvQueue'[p][a] \notin VideosIn(returned'[x])
    <3>1. ASSUME NEW p \in Pullers, NEW a \in DOMAIN recvQueue'[p]
          PROVE  /\ recvQueue'[p][a] \in arrived' \ VideosIn(shared')
                 /\ \A x \in Pullers : recvQueue'[p][a] \notin VideosIn(returned'[x])
      <4>1. CASE recvQueue'[p][a] = v
        BY <1>1, <2>3, <2>8, <4>1
      <4>2. CASE a \in DOMAIN recvQueue[p] /\ recvQueue'[p][a] = recvQueue[p][a]
        BY <1>1, <2>1, <2>3, <4>2 DEF AvideoInv
      <4>3. QED
        BY <2>7, <4>1, <4>2
    <3>2. QED
      BY <3>1
  <2>10. \A p, x \in Pullers : \A a \in DOMAIN recvQueue'[p], b \in DOMAIN recvQueue'[x] :
           recvQueue'[p][a] = recvQueue'[x][b] => p = x /\ a = b
    <3>1. ASSUME NEW p \in Pullers, NEW x \in Pullers, NEW a \in DOMAIN recvQueue'[p],
                 NEW b \in DOMAIN recvQueue'[x], recvQueue'[p][a] = recvQueue'[x][b]
          PROVE  p = x /\ a = b
      <4>1. CASE recvQueue'[p][a] = v
        <5>1. p = r /\ a = Len(q) + 1
          BY <2>7, <4>1
        <5>2. recvQueue'[x][b] = v
          BY <3>1, <4>1
        <5>3. x = r /\ b = Len(q) + 1
          BY <2>7, <5>2
        <5>4. QED
          BY <5>1, <5>3
      <4>2. CASE recvQueue'[p][a] # v
        <5>1. /\ a \in DOMAIN recvQueue[p] /\ recvQueue'[p][a] = recvQueue[p][a]
              /\ b \in DOMAIN recvQueue[x] /\ recvQueue'[x][b] = recvQueue[x][b]
          BY <2>7, <3>1, <4>2
        <5>2. \A c \in DOMAIN recvQueue[p], d \in DOMAIN recvQueue[x] :
                recvQueue[p][c] = recvQueue[x][d] => p = x /\ c = d
          BY <2>1 DEF AvideoInv
        <5>3. recvQueue[p][a] = recvQueue[x][b]
          BY <3>1, <5>1
        <5>4. QED
          BY <5>1, <5>2, <5>3
      <4>3. QED
        BY <4>1, <4>2
    <3>2. QED
      BY <3>1
  <2>11. recvQueue' \in [Pullers -> Seq(Videos)]
    BY <2>1, <2>2, <2>5 DEF q
  <2>12. /\ shared' \in Seq(Messages) /\ Waiting(shared)' /\ VideosIn(shared') \subseteq arrived'
         /\ \A p, x \in Pullers : p # x => Apart(returned'[p], returned'[x])
    BY <1>1, <2>1, <2>3 DEF AvideoInv, Waiting
  <2>13. AvideoInv'
    BY <2>9, <2>10, <2>11, <2>12 DEF AvideoInv
  <2>14. QED
    BY <1>1, <1>2, <1>3, <2>13 DEF InboxInv
<1>4. CASE server = "dash"
  <2>1. DashInv /\ shared \in Seq(Videos)
    BY <1>4 DEF InboxInv, DashInv
  <2>2. shared' = Append(shared, v) /\ recvQueue' = recvQueue
    BY <1>4 DEF Arrives
  <2>3. /\ shared' \in Seq(Videos) /\ DOMAIN shared' = 1..Len(shared) + 1 /\ shared'[Len(shared) + 1] = v
        /\ \A a \in 1..Len(shared) : shared'[a] = shared[a]
        /\ DOMAIN shared = 1..Len(shared) /\ Len(shared) \in Nat
    BY <2>1, <2>2, AppendProperties
  <2>4. \A r \in Pullers : Mine(r)' = Mine(r) /\ Unpacking(r)' = Unpacking(r)
    BY <1>1, <2>2 DEF Mine, Unpacking
  <2>5. v \notin {shared[a] : a \in DOMAIN shared} /\ \A r \in Pullers : v \notin Mine(r) \union Unpacking(r)
    BY <1>1, <2>1 DEF DashInv
  <2>6. \A a \in DOMAIN shared' : a = Len(shared) + 1 \/ a \in DOMAIN shared
    BY <2>3
  <2>7. \A a \in DOMAIN shared' :
          shared'[a] \in arrived' /\ \A r \in Pullers : shared'[a] \notin Mine(r) \union Unpacking(r)
    BY <1>1, <2>1, <2>3, <2>5, <2>6 DEF DashInv
  <2>8. \A a, b \in DOMAIN shared' : shared'[a] = shared'[b] => a = b
    BY <2>1, <2>3, <2>5, <2>6 DEF DashInv
  <2>9. DashInv'
    BY <1>1, <2>1, <2>2, <2>3, <2>4, <2>7, <2>8 DEF DashInv
  <2>10. QED
    BY <1>1, <1>2, <1>4, <2>9 DEF InboxInv
<1>5. QED
  BY <1>2, <1>3, <1>4 DEF ReturnedInv

\* A stream leaves the list for the thread that decodes it.
LEMMA URLTaken ==
  ASSUME InboxInv, NEW r \in Pullers, TakeURL(r)
  PROVE  InboxInv'
<1> DEFINE v == Head(shared)
<1>1. /\ server = "dash" /\ UNCHANGED <<server, arrived, recvQueue, returned>>
      /\ decoding[r] = <<>> /\ shared # <<>>
      /\ decoding' = [decoding EXCEPT ![r] = <<v>>] /\ shared' = Tail(shared)
  BY DEF TakeURL
<1>2. DashInv
  BY <1>1 DEF InboxInv
<1>3. /\ shared \in Seq(Videos) /\ Len(shared) \in Nat \ {0} /\ 1 \in DOMAIN shared /\ v = shared[1] /\ v \in Videos
      /\ Tail(shared) \in Seq(Videos) /\ DOMAIN Tail(shared) = 1..Len(shared) - 1
      /\ \A a \in DOMAIN Tail(shared) : Tail(shared)[a] = shared[a + 1] /\ a + 1 \in DOMAIN shared /\ a + 1 # 1
                                        /\ a \in Nat
  BY <1>1, <1>2 DEF DashInv
<1> HIDE DEF v
<1>4. /\ Unpacking(r)' = {v} /\ Unpacking(r) = {} /\ \A q \in Pullers \ {r} : Unpacking(q)' = Unpacking(q)
      /\ \A q \in Pullers : Mine(q)' = Mine(q)
      /\ decoding' \in [Pullers -> {<<>>} \union {<<x>> : x \in Videos}]
  <2>1. decoding \in [Pullers -> {<<>>} \union {<<x>> : x \in Videos}]
    BY <1>2 DEF DashInv
  <2>2. decoding'[r] = <<v>> /\ \A q \in Pullers \ {r} : decoding'[q] = decoding[q]
    BY <1>1, <2>1
  <2>3. DOMAIN <<v>> = {1} /\ <<v>>[1] = v /\ DOMAIN <<>> = {}
    OBVIOUS
  <2>4. decoding' \in [Pullers -> {<<>>} \union {<<x>> : x \in Videos}]
    BY <1>1, <1>3, <2>1
  <2>5. Unpacking(r)' = {v} /\ Unpacking(r) = {}
    BY <1>1, <2>2, <2>3 DEF Unpacking
  <2>6. QED
    BY <1>1, <2>2, <2>4, <2>5 DEF Unpacking, Mine
<1>5. v \in arrived /\ \A q \in Pullers : v \notin Mine(q) \union Unpacking(q)
  BY <1>2, <1>3 DEF DashInv
<1>6. \A a \in DOMAIN shared' : shared'[a] # v
  BY <1>1, <1>2, <1>3 DEF DashInv
<1>7. \A a \in DOMAIN shared' :
        shared'[a] \in arrived' /\ \A q \in Pullers : shared'[a] \notin Mine(q)' \union Unpacking(q)'
  BY <1>1, <1>2, <1>3, <1>4, <1>6 DEF DashInv
<1>8. \A a, b \in DOMAIN shared' : shared'[a] = shared'[b] => a = b
  BY <1>1, <1>2, <1>3 DEF DashInv
<1>9. \A q \in Pullers : Mine(q)' \union Unpacking(q)' \subseteq arrived' /\ Mine(q)' \intersect Unpacking(q)' = {}
  BY <1>1, <1>2, <1>4, <1>5 DEF DashInv
<1>10. \A p, q \in Pullers : p # q =>
         (Mine(p)' \union Unpacking(p)') \intersect (Mine(q)' \union Unpacking(q)') = {}
  BY <1>2, <1>4, <1>5 DEF DashInv
<1>11. DashInv'
  BY <1>1, <1>2, <1>3, <1>4, <1>7, <1>8, <1>9, <1>10 DEF DashInv
<1>12. QED
  BY <1>1, <1>11 DEF InboxInv, ReturnedInv

\* The messages of the stream are the reader's, or lost.
LEMMA StreamDecoded ==
  ASSUME InboxInv, NEW r \in Pullers, DecodeStream(r)
  PROVE  InboxInv'
<1> DEFINE v == Head(decoding[r])
           q == recvQueue[r]
<1>1. /\ server = "dash" /\ UNCHANGED <<server, arrived, shared, returned>>
      /\ decoding[r] # <<>> /\ decoding' = [decoding EXCEPT ![r] = <<>>]
      /\ recvQueue' = recvQueue \/ recvQueue' = [recvQueue EXCEPT ![r] = q \o Contents(v)]
  BY DEF DecodeStream
<1>2. DashInv /\ ReturnedInv
  BY <1>1 DEF InboxInv
<1>3. decoding[r] = <<v>> /\ v \in Videos /\ decoding \in [Pullers -> {<<>>} \union {<<x>> : x \in Videos}]
  <2>1. decoding \in [Pullers -> {<<>>} \union {<<x>> : x \in Videos}]
    BY <1>2 DEF DashInv
  <2>2. PICK x \in Videos : decoding[r] = <<x>>
    BY <1>1, <2>1
  <2>3. Head(<<x>>) = x
    OBVIOUS
  <2>4. QED
    BY <2>1, <2>2, <2>3
<1> HIDE DEF v
<1>4. /\ Unpacking(r) = {v} /\ Unpacking(r)' = {} /\ \A p \in Pullers \ {r} : Unpacking(p)' = Unpacking(p)
      /\ decoding' \in [Pullers -> {<<>>} \union {<<x>> : x \in Videos}]
  <2>1. decoding'[r] = <<>> /\ \A p \in Pullers \ {r} : decoding'[p] = decoding[p]
    BY <1>1, <1>3
  <2>2. DOMAIN <<v>> = {1} /\ <<v>>[1] = v /\ DOMAIN <<>> = {}
    OBVIOUS
  <2>3. decoding' \in [Pullers -> {<<>>} \union {<<x>> : x \in Videos}]
    BY <1>1, <1>3
  <2>4. QED
    BY <1>3, <2>1, <2>2, <2>3 DEF Unpacking
<1>5. /\ recvQueue \in [Pullers -> Seq(Messages)] /\ q \in Seq(Messages)
      /\ returned \in [Pullers -> Seq(Messages)] /\ returned[r] \in Seq(Messages)
      /\ Ascending(q) /\ Follows(q, returned[r])
      /\ v \notin VideosIn(q) /\ v \notin VideosIn(returned[r]) /\ v \in arrived
  BY <1>2, <1>4 DEF DashInv, ReturnedInv, Mine
<1>6. /\ recvQueue' \in [Pullers -> Seq(Messages)]
      /\ \A p \in Pullers \ {r} : recvQueue'[p] = recvQueue[p]
      /\ Ascending(recvQueue'[r]) /\ Follows(recvQueue'[r], returned[r])
      /\ VideosIn(recvQueue'[r]) \subseteq VideosIn(q) \union {v}
  <2>1. CASE recvQueue' = recvQueue
    BY <1>5, <2>1
  <2>2. CASE recvQueue' = [recvQueue EXCEPT ![r] = q \o Contents(v)]
    <3>1. /\ q \o Contents(v) \in Seq(Messages) /\ Ascending(q \o Contents(v))
          /\ Follows(q \o Contents(v), returned[r]) /\ VideosIn(q \o Contents(v)) \subseteq VideosIn(q) \union {v}
      <4> HIDE DEF q
      <4>1. QED
        BY <1>3, <1>5, Unpacked
    <3>2. recvQueue'[r] = q \o Contents(v)
      BY <1>5, <2>2
    <3>3. QED
      BY <1>5, <2>2, <3>1, <3>2
  <2>3. QED
    BY <1>1, <2>1, <2>2
<1>7. \A p \in Pullers : /\ Mine(p)' \union Unpacking(p)' \subseteq Mine(p) \union Unpacking(p)
                         /\ Mine(p)' \intersect Unpacking(p)' = {}
  <2>1. Mine(r)' \subseteq Mine(r) \union {v} /\ \A p \in Pullers \ {r} : Mine(p)' = Mine(p)
    BY <1>1, <1>6 DEF Mine
  <2>2. QED
    BY <1>2, <1>4, <2>1 DEF DashInv
<1>8. \A p \in Pullers : Ascending(recvQueue'[p]) /\ Follows(recvQueue'[p], returned'[p])
  BY <1>1, <1>2, <1>6 DEF DashInv
<1>9. DashInv'
  BY <1>1, <1>2, <1>4, <1>6, <1>7, <1>8 DEF DashInv
<1>10. QED
  BY <1>1, <1>2, <1>9 DEF InboxInv, ReturnedInv

\* A reader's recvMsg returns the first message of its queue.
LEMMA DashReturned ==
  ASSUME InboxInv, NEW r \in Pullers, DashRecvMsg(r)
  PROVE  InboxInv'
<1> DEFINE q == recvQueue[r]
<1>1. /\ server = "dash" /\ UNCHANGED <<server, arrived, shared, decoding>>
      /\ q # <<>> /\ Return(r, Head(q)) /\ recvQueue' = [recvQueue EXCEPT ![r] = Tail(q)]
  BY DEF DashRecvMsg
<1>2. DashInv /\ ReturnedInv
  BY <1>1 DEF InboxInv
<1>3. /\ recvQueue \in [Pullers -> Seq(Messages)] /\ q \in Seq(Messages)
      /\ returned \in [Pullers -> Seq(Messages)] /\ returned[r] \in Seq(Messages)
      /\ Ascending(q) /\ Ascending(returned[r]) /\ Follows(q, returned[r])
  BY <1>2 DEF DashInv, ReturnedInv
<1>4. /\ recvQueue'[r] = Tail(q) /\ \A p \in Pullers \ {r} : recvQueue'[p] = recvQueue[p]
      /\ returned'[r] = Append(returned[r], Head(q)) /\ \A p \in Pullers \ {r} : returned'[p] = returned[p]
  BY <1>1, <1>3 DEF Return
<1> HIDE DEF q
<1>5. /\ recvQueue'[r] \in Seq(Messages) /\ returned'[r] \in Seq(Messages)
      /\ Ascending(recvQueue'[r]) /\ Ascending(returned'[r]) /\ Follows(recvQueue'[r], returned'[r])
      /\ VideosIn(recvQueue'[r]) \subseteq VideosIn(q)
      /\ VideosIn(returned'[r]) \subseteq VideosIn(returned[r]) \union VideosIn(q)
  BY <1>1, <1>3, <1>4, HeadReturned
<1>6. recvQueue' \in [Pullers -> Seq(Messages)] /\ returned' \in [Pullers -> Seq(Messages)]
  BY <1>1, <1>3, <1>4, <1>5 DEF Return
<1>7. \A p \in Pullers : Mine(p)' \subseteq Mine(p) /\ Unpacking(p)' = Unpacking(p)
  BY <1>1, <1>4, <1>5 DEF Mine, Unpacking, q
<1>8. \A p \in Pullers : /\ Ascending(recvQueue'[p]) /\ Follows(recvQueue'[p], returned'[p])
                         /\ Ascending(returned'[p])
  BY <1>2, <1>4, <1>5 DEF DashInv, ReturnedInv
<1>9. DashInv'
  BY <1>1, <1>2, <1>6, <1>7, <1>8 DEF DashInv
<1>10. ReturnedInv'
  <2>1. \A p \in Pullers : VideosIn(returned'[p]) \subseteq Mine(p)'
    BY DEF Mine
  <2>2. \A p \in Pullers : VideosIn(returned'[p]) \subseteq arrived'
    BY <1>1, <1>2, <1>7, <2>1 DEF DashInv
  <2>3. QED
    BY <1>1, <1>2, <1>6, <1>8, <2>2 DEF ReturnedInv
<1>11. QED
  BY <1>1, <1>9, <1>10 DEF InboxInv

LEMMA InboxStep == InboxInv /\ [INext]_ivars => InboxInv'
<1> SUFFICES ASSUME InboxInv, [INext]_ivars PROVE InboxInv'
  OBVIOUS
<1>1. ASSUME UNCHANGED <<server, arrived, recvQueue, shared, returned, decoding>> PROVE InboxInv'
  <2>1. ReturnedInv' = ReturnedInv
    BY <1>1 DEF ReturnedInv
  <2>2. AvideoInv' = AvideoInv
    BY <1>1 DEF AvideoInv, Waiting
  <2>3. DashInv' = DashInv
    BY <1>1 DEF DashInv, Mine, Unpacking
  <2>4. QED
    BY <1>1, <2>1, <2>2, <2>3 DEF InboxInv
<1>2. ASSUME NEW r \in Pullers, RecvMsg(r) \/ PopUnpacked(r) PROVE InboxInv'
  <2>1. server = "avideo" /\ UNCHANGED <<server, arrived, recvQueue, decoding>>
    BY <1>2 DEF RecvMsg, PopUnpacked
  <2>2. \/ UNCHANGED <<shared, returned>>
        \/ shared # <<>> /\ Return(r, Head(shared)) /\ shared' = Tail(shared)
    BY <1>2, Zenon DEF RecvMsg, PopUnpacked
  <2>3. QED
    BY <1>1, <2>1, <2>2, SharedReturned
<1>3. QED
  BY <1>1, <1>2, VideoArrives, VideoUnwedged, URLTaken, StreamDecoded, DashReturned
  DEF INext, Pull, Decode, ivars

\* No message is returned twice, be it to two Pullers that share recv_msg_list, and the messages of
\* a video come in the order they were packed, for any Pullers and videos (AvideoRedis.py 207-232,
\* 272-280, DashSvr.py 86-101, 234-245, 262-317).
THEOREM MessagesOnce == InboxSpec => []MessagesComeOnceInOrder
<1>1. InboxInv => MessagesComeOnceInOrder
  <2> SUFFICES ASSUME InboxInv PROVE MessagesComeOnceInOrder
    OBVIOUS
  <2>1. /\ server \in {"avideo", "dash"} /\ returned \in [Pullers -> Seq(Messages)]
        /\ \A r \in Pullers : Ascending(returned[r])
    BY DEF InboxInv, ReturnedInv
  <2>2. ASSUME NEW r \in Pullers, NEW q \in Pullers, NEW a \in DOMAIN returned[r],
               NEW b \in DOMAIN returned[q], returned[r][a] = returned[q][b]
        PROVE  r = q /\ a = b
    <3>1. CASE r = q
      <4>1. a \in Int /\ b \in Int /\ returned[r][a] \in Messages
        BY <2>1, <3>1
      <4>2. returned[r][a][2] \in Int
        BY <4>1 DEF Messages
      <4>3. ~(a < b) /\ ~(b < a)
        BY <2>1, <2>2, <3>1, <4>2 DEF Ascending
      <4>4. QED
        BY <3>1, <4>1, <4>3
    <3>2. CASE r # q
      <4>1. CASE server = "avideo"
        BY <2>2, <3>2, <4>1 DEF InboxInv, AvideoInv, Apart
      <4>2. CASE server = "dash"
        <5>1. returned[r][a][1] \in Mine(r) /\ returned[q][b][1] \in Mine(q)
          BY DEF Mine, VideosIn
        <5>2. QED
          BY <2>2, <3>2, <4>2, <5>1 DEF InboxInv, DashInv
      <4>3. QED
        BY <2>1, <4>1, <4>2
    <3>3. QED
      BY <3>1, <3>2
  <2>3. QED
    BY <2>1, <2>2 DEF MessagesComeOnceInOrder, Ascending
<1>2. QED
  BY <1>1, InboxStart, InboxStep, PTL DEF InboxSpec

-----------------------------------------------------------------------------
(* Posting: copies on the server are paid for by calls *)

\* The types of what is counted; the flags need none.
PostingTypeOK ==
  /\ site \in Sites
  /\ spc \in {"idle", "try", "sent", "uploaded", "done"}
  /\ calls \in Nat /\ tries \in 0..2 /\ clicks \in 0..2
  /\ copies \in Nat /\ tracked \in Nat
  /\ result \in {"none", "false", "true", "raised"}

\* Where a call can be depends on the whiteboard, and an attempt is one of two.
PlaceInv ==
  /\ spc = "sent" => site \in {"pixelfed", "avideo"}
  /\ spc = "uploaded" => site \in Browsers
  /\ spc \in {"try", "sent", "uploaded"} => tries \in 1..2

\* A call that succeeded was the last; the user model was told then.
DoneInv ==
  /\ result = "true" <=> spc = "done"
  /\ spc = "done" /\ site # "avideoSelenium" => copies > 0
  /\ tracked = IF result = "true" /\ site \notin {"pixelfed", "dash"} THEN 1 ELSE 0

\* The copies the call under way may still make.
Left ==
  IF site = "pixelfedSelenium"
  THEN IF spc = "try" THEN 3 * tries
       ELSE IF spc = "uploaded" THEN 3 * (tries - 1) + (2 - clicks) ELSE 0
  ELSE IF spc = "try" THEN tries
       ELSE IF spc \in {"sent", "uploaded"} THEN tries - 1 ELSE 0

Budget == IF site = "pixelfedSelenium" THEN calls * 6 ELSE calls * 2

BudgetInv == copies + Left <= Budget

\* A copy nobody heard of is made by a request or a click whose outcome is not known yet.
HeardInv ==
  /\ spc = "sent" => copies > 0
  /\ site \notin Browsers => open \/ withdrawn
  /\ spc \in {"idle", "try"} /\ site # "avideoSelenium" /\ ~unheard /\ ~withdrawn => copies = 0

SIInv == PostingTypeOK /\ PlaceInv /\ DoneInv /\ BudgetInv /\ HeardInv

-----------------------------------------------------------------------------

\* The types, the places and what a success means, under every step.
LEMMA DoneStep ==
  ASSUME SIInv, SNext
  PROVE  PostingTypeOK' /\ PlaceInv' /\ DoneInv'
<1> USE DEF SIInv, PostingTypeOK, PlaceInv, DoneInv, HeardInv, Sites, Browsers
<1>1. CASE ClosesChannel
  BY <1>1 DEF ClosesChannel
<1>2. CASE SendMsgRefuses
  BY <1>2 DEF SendMsgRefuses
<1>3. CASE SendMsgStarts
  BY <1>3 DEF SendMsgStarts
<1>4. CASE FindsChannelClosed
  BY <1>4 DEF FindsChannelClosed, Ends
<1>5. CASE RequestFails
  BY <1>5 DEF RequestFails, AttemptFails, Ends
<1>6. CASE Request
  BY <1>6 DEF Request, Goes
<1>7. CASE AnswerLost
  BY <1>7 DEF AnswerLost, AttemptFails, Ends
<1>8. CASE AnswerComes
  BY <1>8 DEF AnswerComes, Ends
<1>9. CASE DashSends
  BY <1>9 DEF DashSends, Ends
<1>10. CASE PublishClicked
  BY <1>10 DEF PublishClicked, Goes
<1>11. CASE PublishRepeated
  BY <1>11 DEF PublishRepeated, Goes, AttemptFails, Ends
<1>12. CASE PublishConfirmed
  <2>1. /\ UNCHANGED <<site, calls, tries, clicks, open, driver, withdrawn, copies>>
        /\ \/ result' = "true" /\ spc' = "done" /\ copies > 0 /\ tracked' = tracked + 1 /\ unheard' = unheard
           \/ result' = "false" /\ spc' = "idle" /\ unheard' = TRUE /\ tracked' = tracked
    BY <1>12 DEF PublishConfirmed, Ends
  <2>2. spc = "uploaded" /\ site = "pixelfedSelenium"
    BY <1>12 DEF PublishConfirmed
  <2>3. QED
    BY <2>1, <2>2
<1>13. CASE SubmitClicked
  BY <1>13 DEF SubmitClicked, Goes
<1>14. CASE SubmitReturns
  BY <1>14 DEF SubmitReturns, Ends
<1>15. QED
  BY <1>1, <1>2, <1>3, <1>4, <1>5, <1>6, <1>7, <1>8, <1>9, <1>10, <1>11, <1>12, <1>13, <1>14
     DEF SNext

\* No copy goes unheard but those of a lost answer.
LEMMA HeardStep ==
  ASSUME SIInv, SNext
  PROVE  HeardInv'
<1> USE DEF SIInv, PostingTypeOK, PlaceInv, DoneInv, HeardInv, Sites, Browsers
<1>1. CASE ClosesChannel
  BY <1>1 DEF ClosesChannel
<1>2. CASE SendMsgRefuses
  BY <1>2 DEF SendMsgRefuses
<1>3. CASE SendMsgStarts
  BY <1>3 DEF SendMsgStarts
<1>4. CASE FindsChannelClosed
  BY <1>4 DEF FindsChannelClosed, Ends
<1>5. CASE RequestFails
  BY <1>5 DEF RequestFails, AttemptFails, Ends
<1>6. CASE Request
  BY <1>6 DEF Request, Goes
<1>7. CASE AnswerLost
  BY <1>7 DEF AnswerLost, AttemptFails, Ends
<1>8. CASE AnswerComes
  BY <1>8 DEF AnswerComes, Ends
<1>9. CASE DashSends
  BY <1>9 DEF DashSends, Ends
<1>10. CASE PublishClicked
  BY <1>10 DEF PublishClicked, Goes
<1>11. CASE PublishRepeated
  BY <1>11 DEF PublishRepeated, Goes, AttemptFails, Ends
<1>12. CASE PublishConfirmed
  BY <1>12 DEF PublishConfirmed, Ends
<1>13. CASE SubmitClicked
  BY <1>13 DEF SubmitClicked, Goes
<1>14. CASE SubmitReturns
  BY <1>14 DEF SubmitReturns, Ends
<1>15. QED
  BY <1>1, <1>2, <1>3, <1>4, <1>5, <1>6, <1>7, <1>8, <1>9, <1>10, <1>11, <1>12, <1>13, <1>14
     DEF SNext

\* Every step spends from the budget at least the copies it makes.
LEMMA BudgetStep ==
  ASSUME SIInv, SNext
  PROVE  BudgetInv'
<1> USE DEF SIInv, PostingTypeOK, PlaceInv, BudgetInv, Left, Budget, Sites, Browsers
<1>1. CASE ClosesChannel
  BY <1>1 DEF ClosesChannel
<1>2. CASE SendMsgRefuses
  BY <1>2 DEF SendMsgRefuses
<1>3. CASE SendMsgStarts
  BY <1>3 DEF SendMsgStarts
<1>4. CASE FindsChannelClosed
  BY <1>4 DEF FindsChannelClosed, Ends
<1>5. CASE RequestFails
  BY <1>5 DEF RequestFails, AttemptFails, Ends
<1>6. CASE Request
  BY <1>6 DEF Request, Goes
<1>7. CASE AnswerLost
  BY <1>7 DEF AnswerLost, AttemptFails, Ends
<1>8. CASE AnswerComes
  BY <1>8 DEF AnswerComes, Ends
<1>9. CASE DashSends
  BY <1>9 DEF DashSends, Ends
<1>10. CASE PublishClicked
  <2>1. /\ site = "pixelfedSelenium" /\ spc = "try" /\ spc' = "uploaded" /\ clicks' = 0
        /\ UNCHANGED <<site, calls, tries>>
    BY <1>10 DEF PublishClicked, Goes
  <2>2. copies' = copies \/ copies' = copies + 1
    BY <1>10 DEF PublishClicked
  <2>3. copies + 3 * tries <= calls * 6 /\ tries \in Nat /\ copies \in Nat /\ calls \in Nat
    BY <2>1
  <2>4. copies' + (3 * (tries - 1) + 2) <= calls * 6
    <3>1. CASE copies' = copies
      BY <2>3, <3>1
    <3>2. CASE copies' = copies + 1
      BY <2>3, <3>2
    <3>3. QED
      BY <2>2, <3>1, <3>2
  <2>5. QED
    BY <2>1, <2>4
<1>11. CASE PublishRepeated
  BY <1>11 DEF PublishRepeated, Goes, AttemptFails, Ends
<1>12. CASE PublishConfirmed
  <2>1. /\ UNCHANGED <<site, calls, tries, clicks, open, driver, withdrawn, copies>>
        /\ \/ result' = "true" /\ spc' = "done" /\ copies > 0 /\ tracked' = tracked + 1 /\ unheard' = unheard
           \/ result' = "false" /\ spc' = "idle" /\ unheard' = TRUE /\ tracked' = tracked
    BY <1>12 DEF PublishConfirmed, Ends
  <2>2. spc = "uploaded" /\ site = "pixelfedSelenium"
    BY <1>12 DEF PublishConfirmed
  <2>3. QED
    BY <2>1, <2>2
<1>13. CASE SubmitClicked
  <2>1. /\ site = "avideoSelenium" /\ spc = "try" /\ spc' = "uploaded"
        /\ UNCHANGED <<site, calls, tries>>
    BY <1>13 DEF SubmitClicked, Goes
  <2>2. copies' = copies \/ copies' = copies + 1
    BY <1>13 DEF SubmitClicked
  <2>3. copies + tries <= calls * 2 /\ tries \in Nat /\ copies \in Nat /\ calls \in Nat
    BY <2>1
  <2>4. copies' + (tries - 1) <= calls * 2
    <3>1. CASE copies' = copies
      BY <2>3, <3>1
    <3>2. CASE copies' = copies + 1
      BY <2>3, <3>2
    <3>3. QED
      BY <2>2, <3>1, <3>2
  <2>5. QED
    BY <2>1, <2>4
<1>14. CASE SubmitReturns
  BY <1>14 DEF SubmitReturns, Ends
<1>15. QED
  BY <1>1, <1>2, <1>3, <1>4, <1>5, <1>6, <1>7, <1>8, <1>9, <1>10, <1>11, <1>12, <1>13, <1>14
     DEF SNext

\* The strengthened invariant of posting (sendMsg of the whiteboards).
THEOREM PostingInvariance == PostingSpec => []SIInv
<1>1. SInit => SIInv
  <2> SUFFICES ASSUME SInit
               PROVE  SIInv
    OBVIOUS
  <2> USE DEF SInit, Sites, Browsers
  <2>1. PostingTypeOK /\ PlaceInv /\ DoneInv
    BY DEF PostingTypeOK, PlaceInv, DoneInv
  <2>2. BudgetInv /\ HeardInv
    BY DEF BudgetInv, HeardInv, Left, Budget
  <2>3. QED
    BY <2>1, <2>2 DEF SIInv
<1>2. SIInv /\ [SNext]_svars => SIInv'
  <2>1. ASSUME SIInv, UNCHANGED svars
        PROVE  SIInv'
    BY <2>1 DEF SIInv, PostingTypeOK, PlaceInv, DoneInv, BudgetInv, HeardInv, Left, Budget, svars
  <2>2. QED
    BY <2>1, DoneStep, HeardStep, BudgetStep DEF SIInv
<1>3. QED
  BY <1>1, <1>2, PTL DEF PostingSpec

\* A batch the Pusher drops is on the server, and the user model was told of it; one it keeps is not,
\* unless an answer was lost or the channel closed; and it is there a bounded number of times
\* (PixelfedRedis.py 352-389, AvideoRedis.py 510-560, PixelfedSelenium.py 896-1093).
THEOREM PostingResultAgrees == PostingSpec => []ResultAgrees
<1>1. SIInv => ResultAgrees
  <2>1. ASSUME SIInv
        PROVE  CopiesBounded
    BY <2>1 DEF SIInv, PostingTypeOK, PlaceInv, BudgetInv, Left, Budget, CopiesBounded
  <2>2. QED
    BY <2>1 DEF SIInv, PostingTypeOK, DoneInv, HeardInv, ResultAgrees
<1>2. QED
  BY <1>1, PostingInvariance, PTL

-----------------------------------------------------------------------------
(* UserModel: the states follow the counters *)

CountersOK ==
  /\ actions \in Nat /\ items \in Nat /\ posting \in 0..2
  /\ states \subseteq {"OK", "MAX_ACTION_CNT", "MAX_ITEM_CNT", "MAX_ACTION_RATE"}

UIInv == CountersOK /\ StatesFollowCounters

-----------------------------------------------------------------------------

\* A state is added beside others, and OK makes room for it.
LEMMA AddStateProperties ==
  ASSUME NEW set, "OK" \in set <=> set = {"OK"}, NEW s, s # "OK"
  PROVE  /\ s \in AddState(set, s) /\ "OK" \notin AddState(set, s)
         /\ \A x : x # "OK" /\ x # s => (x \in AddState(set, s) <=> x \in set)
         /\ AddState(set, s) \subseteq set \union {s}
BY DEF AddState

\* A state is removed, and OK comes back when it was the last.
LEMMA RemoveStateProperties ==
  ASSUME NEW set, set # {}, "OK" \in set <=> set = {"OK"}, NEW s, s # "OK"
  PROVE  /\ s \notin RemoveState(set, s) /\ RemoveState(set, s) # {}
         /\ "OK" \in RemoveState(set, s) <=> RemoveState(set, s) = {"OK"}
         /\ \A x : x # "OK" /\ x # s => (x \in RemoveState(set, s) <=> x \in set)
         /\ RemoveState(set, s) \subseteq set \union {"OK"}
BY DEF RemoveState

\* A post that is tracked while the model is good.
LEMMA TrackAddStep ==
  ASSUME UIInv, TrackAdd
  PROVE  UIInv'
<1> USE UserModelAssumption
<1> USE DEF UIInv, CountersOK, StatesFollowCounters
<1>1. CASE ~Good
  <2>1. posting' = 0 /\ UNCHANGED <<states, actions, items, tracker>>
    BY <1>1 DEF TrackAdd
  <2>2. QED
    BY <2>1
<1>2. CASE Good
  <2>1. states = {"OK"} /\ actions <= MaxActions /\ items <= MaxItems
    BY <1>2 DEF Good
  <2>2. /\ actions' = actions + 1 /\ items' = items + posting /\ posting' = 0
        /\ states' = Limit(Limit(states, actions' > MaxActions, "MAX_ACTION_CNT"),
                           items' > MaxItems, "MAX_ITEM_CNT")
        /\ NotifyTracker
    BY <1>2 DEF TrackAdd
  <2>3. tracker' # "none"
    BY <2>2 DEF NotifyTracker
  <2>4. /\ actions' \in Nat /\ items' \in Nat /\ posting' \in 0..2
        /\ actions' <= MaxActions + 1 /\ items' <= MaxItems + 2
    BY <2>1, <2>2
  <2>5. /\ "MAX_ACTION_CNT" \in states' <=> actions' > MaxActions
        /\ "MAX_ITEM_CNT" \in states' <=> items' > MaxItems
        /\ "OK" \in states' <=> states' = {"OK"}
        /\ states' # {}
        /\ states' \subseteq {"OK", "MAX_ACTION_CNT", "MAX_ITEM_CNT"}
    <3> DEFINE A == actions' > MaxActions
               I == items' > MaxItems
    <3> HIDE DEF A, I
    <3>1. states' = Limit(Limit({"OK"}, A, "MAX_ACTION_CNT"), I, "MAX_ITEM_CNT")
      BY <2>1, <2>2 DEF A, I
    <3>2. states' = IF A THEN IF I THEN {"MAX_ACTION_CNT", "MAX_ITEM_CNT"} ELSE {"MAX_ACTION_CNT"}
                    ELSE IF I THEN {"MAX_ITEM_CNT"} ELSE {"OK"}
      BY <3>1 DEF Limit, AddState
    <3>3. QED
      BY <3>2 DEF A, I
  <2>6. QED
    BY <2>3, <2>4, <2>5
<1>3. QED
  BY <1>1, <1>2

\* A round of the tracker touches the rate only.
LEMMA TrackerStep ==
  ASSUME UIInv, TrackerLooks
  PROVE  UIInv'
<1> USE DEF UIInv, CountersOK, StatesFollowCounters
<1>1. UNCHANGED <<actions, items, posting>> /\ tracker' = "looked"
  BY DEF TrackerLooks
<1>2. \/ states' = RemoveState(states, "MAX_ACTION_RATE")
      \/ states' = AddState(states, "MAX_ACTION_RATE")
  BY DEF TrackerLooks
<1>3. CASE states' = RemoveState(states, "MAX_ACTION_RATE")
  BY <1>1, <1>3, RemoveStateProperties
<1>4. CASE states' = AddState(states, "MAX_ACTION_RATE")
  BY <1>1, <1>4, AddStateProperties
<1>5. QED
  BY <1>2, <1>3, <1>4

\* The states of a user model say what its counters say (UserModel.py 282-299, 326-364, 383-419).
THEOREM StatesCorrect == UserModelSpec => []StatesFollowCounters
<1>1. UInit => UIInv
  BY UserModelAssumption DEF UInit, UIInv, CountersOK, StatesFollowCounters
<1>2. UIInv /\ [UNext]_uvars => UIInv'
  <2> SUFFICES ASSUME UIInv, [UNext]_uvars
               PROVE  UIInv'
    OBVIOUS
  <2> USE DEF UIInv, CountersOK, StatesFollowCounters
  <2>1. CASE BeginPost
    BY <2>1 DEF BeginPost
  <2>2. CASE TrackAdd
    BY <2>2, TrackAddStep
  <2>3. CASE TrackerLooks
    BY <2>3, TrackerStep
  <2>4. CASE TrackerWaits
    BY <2>4 DEF TrackerWaits
  <2>5. CASE TrackerTimesOut
    BY <2>5 DEF TrackerTimesOut
  <2>6. CASE Tick
    BY <2>6 DEF Tick
  <2>7. CASE UNCHANGED uvars
    BY <2>7 DEF uvars
  <2>8. QED
    BY <2>1, <2>2, <2>3, <2>4, <2>5, <2>6, <2>7 DEF UNext
<1>3. UIInv => StatesFollowCounters
  BY DEF UIInv
<1>4. QED
  BY <1>1, <1>2, <1>3, PTL DEF UserModelSpec

-----------------------------------------------------------------------------
(* MessageStore: what a client was told *)

\* The lock is held exactly inside save_message.
StoreOK ==
  /\ msgs \in Seq(Nat) /\ greatest \in Nat /\ least \in {0, 1}
  /\ save \in [Savers -> {"idle", "next", "least", "append"}]
  /\ lock \in Savers \union {NoThread}
  /\ \A s \in Savers : save[s] # "idle" <=> lock = s

\* A message is its number; the numbers run ahead of the list only in save_message.
NumbersInv ==
  /\ \A n \in 1..Len(msgs) : msgs[n] = n
  /\ (\A s \in Savers : save[s] \notin {"least", "append"}) => greatest = Len(msgs)
  /\ \A s \in Savers : save[s] \in {"least", "append"} => greatest = Len(msgs) + 1
  /\ Len(msgs) > 0 => least = 1
  /\ \A s \in Savers : save[s] = "append" => least = 1

ClientsOK ==
  /\ request \in [Clients -> {"idle", "info", "get", "copy"}]
  /\ first \in [Clients -> Nat] /\ count \in [Clients -> Nat]
  /\ got \in [Clients -> Seq(Nat)]

\* A client asks for the message after its last, and is admitted only to a store that is not empty.
RequestInv ==
  \A c \in Clients :
    /\ request[c] \in {"info", "get"} =>
         first[c] = IF Len(got[c]) = 0 THEN 0 ELSE Len(got[c]) + 1
    /\ request[c] = "copy" => least = 1 /\ first[c] = Len(got[c]) + 1

PrefixInv ==
  \A c \in Clients : Len(got[c]) <= Len(msgs) /\ \A n \in 1..Len(got[c]) : got[c][n] = n

SaverInv  == StoreOK /\ NumbersInv
ClientInv == ClientsOK /\ RequestInv /\ PrefixInv
MIInv == SaverInv /\ ClientInv

-----------------------------------------------------------------------------

\* save_message leaves the clients alone, and the list only grows.
LEMMA SaverStep ==
  ASSUME MIInv, NEW s \in Savers, Save(s)
  PROVE  MIInv'
<1> USE MessageStoreAssumption DEF MIInv, SaverInv
<1>1. Len(msgs) \in Nat
  BY LenProperties DEF StoreOK
<1>2. CASE SaveMessage(s)
  <2>1. /\ lock = NoThread /\ lock' = s /\ save' = [save EXCEPT ![s] = "next"]
        /\ UNCHANGED <<greatest, least, msgs, clientVars>>
    BY <1>2 DEF SaveMessage, LockStore
  <2>2. StoreOK' /\ NumbersInv'
    BY <2>1 DEF StoreOK, NumbersInv
  <2>3. ClientInv'
    BY <2>1 DEF ClientInv, ClientsOK, RequestInv, PrefixInv, clientVars
  <2>4. QED
    BY <2>2, <2>3
<1>3. CASE NextGreatest(s)
  <2>1. /\ save[s] = "next" /\ greatest' = greatest + 1 /\ save' = [save EXCEPT ![s] = "least"]
        /\ UNCHANGED <<lock, least, msgs, clientVars>>
    BY <1>3 DEF NextGreatest
  <2>2. \A t \in Savers : t # s => save[t] = "idle"
    BY <2>1 DEF StoreOK
  <2>3. greatest = Len(msgs)
    BY <2>1, <2>2 DEF NumbersInv
  <2>4. StoreOK' /\ NumbersInv'
    BY <1>1, <2>1, <2>2, <2>3 DEF StoreOK, NumbersInv
  <2>5. ClientInv'
    BY <2>1 DEF ClientInv, ClientsOK, RequestInv, PrefixInv, clientVars
  <2>6. QED
    BY <2>4, <2>5
<1>4. CASE NextLeast(s)
  <2>1. /\ save[s] = "least" /\ least' = 1 /\ save' = [save EXCEPT ![s] = "append"]
        /\ UNCHANGED <<lock, greatest, msgs, clientVars>>
    BY <1>4 DEF NextLeast, StoreOK
  <2>2. StoreOK' /\ NumbersInv'
    BY <2>1 DEF StoreOK, NumbersInv
  <2>3. ClientInv'
    BY <2>1 DEF ClientInv, ClientsOK, RequestInv, PrefixInv, clientVars
  <2>4. QED
    BY <2>2, <2>3
<1>5. CASE AppendMessage(s)
  <2>1. /\ save[s] = "append" /\ msgs' = Append(msgs, greatest) /\ lock' = NoThread
        /\ save' = [save EXCEPT ![s] = "idle"] /\ UNCHANGED <<greatest, least, clientVars>>
    BY <1>5 DEF AppendMessage
  <2>2. greatest = Len(msgs) + 1 /\ least = 1 /\ \A t \in Savers : t # s => save[t] = "idle"
    BY <2>1 DEF StoreOK, NumbersInv
  <2>3. /\ msgs' \in Seq(Nat) /\ Len(msgs') = Len(msgs) + 1
        /\ \A n \in 1..Len(msgs) : msgs'[n] = msgs[n]
        /\ msgs'[Len(msgs) + 1] = greatest
    BY <2>1, AppendProperties DEF StoreOK
  <2>4. \A n \in 1..Len(msgs') : msgs'[n] = n
    BY <1>1, <2>2, <2>3 DEF NumbersInv
  <2>5. StoreOK' /\ NumbersInv'
    BY <1>1, <2>1, <2>2, <2>3, <2>4 DEF StoreOK, NumbersInv
  <2>6. ASSUME NEW c \in Clients
        PROVE  Len(got[c]) \in Nat
    BY LenProperties DEF ClientInv, ClientsOK
  <2>7. ClientInv'
    BY <1>1, <2>1, <2>3, <2>6 DEF ClientInv, ClientsOK, RequestInv, PrefixInv, clientVars
  <2>8. QED
    BY <2>5, <2>7
<1>6. QED
  BY <1>2, <1>3, <1>4, <1>5 DEF Save

\* What a client copies continues what it has.
LEMMA Continued ==
  ASSUME NEW s \in Seq(Nat), \A n \in 1..Len(s) : s[n] = n,
         NEW g \in Seq(Nat), Len(g) <= Len(s), \A n \in 1..Len(g) : g[n] = n,
         NEW e \in Nat, e <= Len(s)
  PROVE  LET h == g \o SubSeq(s, Len(g) + 1, e)
         IN  h \in Seq(Nat) /\ Len(h) <= Len(s) /\ \A n \in 1..Len(h) : h[n] = n
<1> DEFINE k == Len(g)
           t == SubSeq(s, Len(g) + 1, e)
           h == g \o t
<1>1. k \in Nat /\ Len(s) \in Nat
  BY LenProperties
<1>2. \A n \in (k + 1)..e : s[n] \in Nat
  BY <1>1
<1>3. /\ t \in Seq(Nat) /\ Len(t) = IF k + 1 <= e THEN e - (k + 1) + 1 ELSE 0
      /\ \A n \in 1..(e - (k + 1) + 1) : t[n] = s[(k + 1) + n - 1]
  BY <1>1, <1>2, SubSeqProperties
<1> HIDE DEF t
<1>4. /\ h \in Seq(Nat) /\ Len(h) = k + Len(t)
      /\ \A n \in 1..(k + Len(t)) : h[n] = IF n <= k THEN g[n] ELSE t[n - k]
  BY <1>3, ConcatProperties
<1>5. Len(h) <= Len(s)
  BY <1>1, <1>3, <1>4
<1>6. ASSUME NEW n \in 1..Len(h)
      PROVE  h[n] = n
  <2>1. CASE n <= k
    BY <1>1, <1>3, <1>4, <2>1
  <2>2. CASE n > k
    <3>1. k + 1 <= e /\ Len(t) = e - k /\ n \in (k + 1)..e
      BY <1>1, <1>3, <1>4, <2>2
    <3>2. n - k \in 1..(e - (k + 1) + 1) /\ (k + 1) + (n - k) - 1 = n
      BY <1>1, <3>1
    <3>3. h[n] = t[n - k]
      BY <1>1, <1>3, <1>4, <2>2, <3>1
    <3>4. t[n - k] = s[n]
      BY <1>3, <3>2
    <3>5. QED
      BY <1>1, <3>1, <3>3, <3>4
  <2>3. QED
    BY <1>1, <1>3, <1>4, <2>1, <2>2
<1>7. QED
  BY <1>4, <1>5, <1>6 DEF t

\* A client's steps leave the store alone.
LEMMA ClientStep ==
  ASSUME MIInv, NEW c \in Clients, Read(c)
  PROVE  MIInv'
<1> USE MessageStoreAssumption DEF MIInv, SaverInv, ClientInv
<1>1. UNCHANGED <<lock, greatest, least, msgs, save>>
  BY DEF Read, Follow, InfoDict, GetMessages, CopyMessages
<1>2. StoreOK' /\ NumbersInv'
  BY <1>1 DEF StoreOK, NumbersInv
<1>3. /\ Len(msgs) \in Nat
      /\ \A d \in Clients : Len(got[d]) \in Nat /\ DOMAIN got[d] = 1..Len(got[d])
      /\ \A d \in Clients : got[d] = <<>> <=> Len(got[d]) = 0
  BY LenProperties, EmptySeq DEF StoreOK, ClientsOK
<1>4. CASE Follow(c)
  <2> DEFINE next == IF Len(got[c]) = 0 THEN 0 ELSE Len(got[c]) + 1
  <2>1. request' = [request EXCEPT ![c] = "info"] /\ UNCHANGED got
    BY <1>4 DEF Follow
  <2>2. count' \in [Clients -> Nat]
    BY <1>4 DEF Follow, ClientsOK
  <2>3. Len(got[c]) # 0 => got[c][Len(got[c])] = Len(got[c])
    BY <1>3 DEF PrefixInv
  <2>4. first' = [first EXCEPT ![c] = next]
    BY <1>3, <1>4, <2>3 DEF Follow
  <2>5. next \in Nat
    BY <1>3
  <2> HIDE DEF next
  <2>6. ClientsOK'
    BY <2>1, <2>2, <2>4, <2>5 DEF ClientsOK
  <2>7. RequestInv'
    BY <1>1, <2>1, <2>4 DEF RequestInv, ClientsOK, next
  <2>8. PrefixInv'
    BY <1>1, <2>1 DEF PrefixInv
  <2>9. QED
    BY <1>2, <2>6, <2>7, <2>8
<1>5. CASE InfoDict(c)
  BY <1>1, <1>2, <1>5 DEF InfoDict, ClientsOK, RequestInv, PrefixInv
<1>6. CASE GetMessages(c)
  <2>1. /\ request[c] = "get" /\ first' = [first EXCEPT ![c] = From(c)] /\ UNCHANGED got
    BY <1>6 DEF GetMessages
  <2>2. From(c) = (IF first[c] <= 0 THEN least ELSE first[c]) /\ From(c) \in Nat
    BY DEF From, ClientsOK, StoreOK
  <2>3. PrefixInv'
    BY <1>1, <2>1 DEF PrefixInv
  <2>4. CASE least # 0 /\ least <= From(c) /\ From(c) <= greatest
    <3>1. /\ count' = [count EXCEPT ![c] = IF @ < greatest - least + 1 THEN @ ELSE greatest - least + 1]
          /\ request' = [request EXCEPT ![c] = "copy"]
      BY <1>6, <2>4 DEF GetMessages
    <3>2. greatest - least + 1 \in Nat
      BY <2>2, <2>4 DEF StoreOK
    <3>3. least = 1 /\ From(c) = Len(got[c]) + 1
      BY <1>3, <2>1, <2>2, <2>4 DEF StoreOK, RequestInv, ClientsOK
    <3>4. ClientsOK'
      <4>1. request' \in [Clients -> {"idle", "info", "get", "copy"}]
        BY <3>1 DEF ClientsOK
      <4>2. first' \in [Clients -> Nat]
        BY <2>1, <2>2 DEF ClientsOK
      <4>3. count' \in [Clients -> Nat]
        BY <3>1, <3>2 DEF ClientsOK
      <4>4. QED
        BY <2>1, <4>1, <4>2, <4>3 DEF ClientsOK
    <3>5. RequestInv'
      BY <1>1, <2>1, <3>1, <3>3 DEF RequestInv, ClientsOK
    <3>6. QED
      BY <1>2, <2>3, <3>4, <3>5
  <2>5. CASE ~(least # 0 /\ least <= From(c) /\ From(c) <= greatest)
    <3>1. request' = [request EXCEPT ![c] = "idle"] /\ UNCHANGED count
      BY <1>6, <2>5 DEF GetMessages
    <3>2. ClientsOK' /\ RequestInv'
      BY <1>1, <2>1, <2>2, <3>1 DEF ClientsOK, RequestInv
    <3>3. QED
      BY <1>2, <2>3, <3>2
  <2>6. QED
    BY <2>4, <2>5
<1>7. CASE CopyMessages(c)
  <2> DEFINE end == IndexOf(first[c]) + count[c]
             e == IF end < Len(msgs) THEN end ELSE Len(msgs)
             h == got[c] \o SubSeq(msgs, Len(got[c]) + 1, e)
  <2>1. IndexOf(first[c]) = Len(got[c])
    BY <1>3, <1>7 DEF CopyMessages, RequestInv, IndexOf
  <2>2. e \in Nat /\ e <= Len(msgs)
    BY <1>3, <2>1 DEF ClientsOK
  <2>3. /\ request' = [request EXCEPT ![c] = "idle"] /\ UNCHANGED <<first, count>>
        /\ got' = [got EXCEPT ![c] = h]
    BY <1>7, <2>1 DEF CopyMessages
  <2>4. h \in Seq(Nat) /\ Len(h) <= Len(msgs) /\ \A n \in 1..Len(h) : h[n] = n
    BY <2>2, Continued DEF StoreOK, NumbersInv, ClientsOK, PrefixInv
  <2> HIDE DEF h
  <2>5. ClientsOK' /\ PrefixInv'
    BY <1>1, <2>3, <2>4 DEF ClientsOK, PrefixInv
  <2>6. RequestInv'
    BY <1>1, <2>3 DEF RequestInv, ClientsOK
  <2>7. QED
    BY <1>2, <2>5, <2>6
<1>8. QED
  BY <1>4, <1>5, <1>6, <1>7 DEF Read

\* A client that follows the store has the messages saved first, each once and in order
\* (AbsMsgStore.py 35-42, 72-90, MsgMemStore.py 21-35).
THEOREM ClientsFollow == MessageStoreSpec => []ClientsHaveAPrefix
<1>1. MInit => MIInv
  <2> SUFFICES ASSUME MInit
               PROVE  MIInv
    OBVIOUS
  <2>1. StoreOK /\ NumbersInv
    BY MessageStoreAssumption, EmptySeq DEF MInit, StoreOK, NumbersInv
  <2>2. ClientsOK /\ RequestInv /\ PrefixInv
    BY EmptySeq DEF MInit, ClientsOK, RequestInv, PrefixInv
  <2>3. QED
    BY <2>1, <2>2 DEF MIInv, SaverInv, ClientInv
<1>2. MIInv /\ [MNext]_mvars => MIInv'
  <2>1. ASSUME MIInv, UNCHANGED mvars
        PROVE  MIInv'
    BY <2>1 DEF MIInv, SaverInv, ClientInv, StoreOK, NumbersInv, ClientsOK, RequestInv, PrefixInv,
                mvars
  <2>2. QED
    BY <2>1, SaverStep, ClientStep DEF MNext
<1>3. MIInv => ClientsHaveAPrefix
  <2> SUFFICES ASSUME MIInv, NEW c \in Clients
               PROVE  Len(got[c]) <= Len(msgs) /\ \A n \in DOMAIN got[c] : got[c][n] = n /\ msgs[n] = n
    BY DEF ClientsHaveAPrefix
  <2>1. Len(msgs) \in Nat /\ Len(got[c]) \in Nat /\ DOMAIN got[c] = 1..Len(got[c])
    BY LenProperties DEF MIInv, SaverInv, ClientInv, StoreOK, ClientsOK
  <2>2. QED
    BY <2>1 DEF MIInv, SaverInv, ClientInv, NumbersInv, PrefixInv
<1>4. QED
  BY <1>1, <1>2, <1>3, PTL DEF MessageStoreSpec

=============================================================================
