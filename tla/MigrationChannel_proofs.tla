---------------------- MODULE MigrationChannel_proofs ----------------------
(***************************************************************************)
(* MigrationChannel's safety properties, and that it implements            *)
(* ImageHandoff, for every number of clients, every size of the fields,    *)
(* of the connections and of the queue, and any number of server runs.     *)
(*                                                                         *)
(* The file goes from the order of the fields and the places of bytes in   *)
(* an image to the two lemmas about one write and one read, then action by *)
(* action through the parts of ChannelInv, and from it to the properties.  *)
(***************************************************************************)
EXTENDS MigrationChannel, SequenceTheorems, WellFoundedInduction, TLAPS

-----------------------------------------------------------------------------
(* A set of naturals has a least element: NatLessThanWellFounded, without  *)
(* its operator parameter.                                                 *)
LEMMA LeastNatural ==
  ASSUME NEW S, S \subseteq Nat, S # {}
  PROVE  \E m \in S : \A n \in S : m <= n
<1> DEFINE Less == {ss \in Nat \X Nat : ss[1] < ss[2]}
<1>1. IsWellFoundedOn(Less, Nat)
  BY NatLessThanWellFounded, Zenon DEF OpToRel
<1>2. PICK m \in S : \A n \in S : <<n, m>> \notin Less
  <2> HIDE DEF Less
  <2> QED BY <1>1, WFMin
<1>3. \A n \in S : ~ (n < m)
  BY <1>2
<1> QED
  BY <1>3

(* The two sides go through the same nine fields in the same order, and    *)
(* none comes twice.                                                       *)
LEMMA FieldOrder ==
  /\ ReceiveOrder = SendOrder
  /\ Len(SendOrder) = 9 /\ DOMAIN SendOrder = 1..9
  /\ \A i \in 1..9 : SendOrder[i] \in Field
  /\ \A f \in Field : \E i \in 1..9 : f = SendOrder[i]
  /\ \A i, j \in 1..9 : SendOrder[i] = SendOrder[j] => i = j
<1>1. /\ ReceiveOrder = SendOrder
      /\ Len(SendOrder) = 9 /\ DOMAIN SendOrder = 1..9
  BY DEF SendOrder, ReceiveOrder
<1>2. \A i, j \in 1..9 : SendOrder[i] = SendOrder[j] => i = j
  BY DEF SendOrder
<1> QED
  BY <1>1, <1>2 DEF Field

(* Every field has a positive size.                                        *)
LEMMA SizeOfField ==
  ASSUME NEW i \in 1..9
  PROVE  FieldSize[SendOrder[i]] \in Nat \ {0}
BY FieldOrder, ChannelAssumption

(* The bytes of images, and what can be read off one of them.              *)
LEMMA ImageBytes ==
  /\ \A v \in Vm, f \in Field : \A k \in 1..FieldSize[f] :
       ByteOf(v, f, k) \in ImageByte
  /\ \A b \in ImageByte :
       \E v \in Vm, f \in Field : \E k \in 1..FieldSize[f] : b = ByteOf(v, f, k)
<1>1. \A f \in Field : FieldSize[f] \in Nat
  BY ChannelAssumption
<1>2. \A v \in Vm, f \in Field : \A k \in 1..FieldSize[f] :
        ByteOf(v, f, k) \in ImageByte
  BY <1>1 DEF ImageByte, ByteOf
<1>3. \A b \in ImageByte : /\ b = ByteOf(b.vm, b.field, b.at)
                           /\ b.vm \in Vm /\ b.field \in Field
                           /\ b.at \in 1..FieldSize[b.field]
  BY <1>1 DEF ImageByte, ByteOf
<1> QED
  BY <1>2, <1>3

(* A byte tells its place, and its place and its VM tell the byte.         *)
LEMMA PlaceOfByte ==
  ASSUME NEW v, NEW i \in 1..9, NEW k \in Nat
  PROVE  PlaceOf(ByteOf(v, SendOrder[i], k)) = [field |-> i, done |-> k - 1]
BY FieldOrder DEF PlaceOf, ByteOf

LEMMA ByteOfPlace ==
  ASSUME NEW b \in ImageByte, NEW i \in 1..9, NEW k \in Nat,
         PlaceOf(b) = [field |-> i, done |-> k]
  PROVE  b = ByteOf(b.vm, SendOrder[i], k + 1)
<1>1. PICK v \in Vm, f \in Field :
        \E m \in 1..FieldSize[f] : b = ByteOf(v, f, m)
  BY ImageBytes
<1>2. PICK m \in 1..FieldSize[f] : b = ByteOf(v, f, m)
  BY <1>1
<1>3. PICK j \in 1..9 : f = SendOrder[j]
  BY FieldOrder
<1>4. m \in Nat
  BY <1>2, <1>3, SizeOfField
<1>5. PlaceOf(b) = [field |-> j, done |-> m - 1]
  BY <1>2, <1>3, <1>4, PlaceOfByte
<1>6. i = j /\ k = m - 1
  <2> DEFINE p == [field |-> i, done |-> k]
             q == [field |-> j, done |-> m - 1]
  <2>1. p = q /\ p.field = i /\ p.done = k /\ q.field = j /\ q.done = m - 1
    BY <1>5
  <2> QED BY <2>1
<1>7. b.vm = v
  BY <1>2 DEF ByteOf
<1> QED
  BY <1>2, <1>3, <1>4, <1>6, <1>7

(* A place moves on through its field byte by byte, and then to the next.  *)
LEMMA AdvanceTypes ==
  ASSUME NEW i \in 1..9, NEW d \in Nat, NEW n \in Nat,
         d + n <= FieldSize[SendOrder[i]]
  PROVE  Advance([field |-> i, done |-> d], n) =
           IF d + n = FieldSize[SendOrder[i]]
             THEN [field |-> i + 1, done |-> 0]
             ELSE [field |-> i, done |-> d + n]
BY SizeOfField DEF Advance

-----------------------------------------------------------------------------
(* One write: where it starts, the bytes it adds and where it leaves the   *)
(* writer.                                                                 *)
LEMMA WritersPlace ==
  ASSUME ChannelTypeOK, NEW v \in Vm, ~ AllSent(v)
  PROVE  /\ wpos[v].field \in 1..9 /\ wpos[v].done \in Nat
         /\ wpos[v] = [field |-> wpos[v].field, done |-> wpos[v].done]
         /\ wpos[v].done < FieldSize[SendOrder[wpos[v].field]]
<1>1. /\ wpos[v] \in [field : 1..(Len(SendOrder) + 1), done : Nat]
      /\ wpos[v].done < FieldSize[SendOrder[wpos[v].field]]
  BY DEF ChannelTypeOK
<1>2. ~ (wpos[v].field > 9)
  BY FieldOrder DEF AllSent
<1>3. wpos[v].field \in 1..10
  BY <1>1, FieldOrder
<1> QED
  BY <1>1, <1>2, <1>3

NewBytes(v, n) ==
  [k \in 1..n |-> ByteOf(v, SendOrder[wpos[v].field], wpos[v].done + k)]

LEMMA WrittenBytes ==
  ASSUME ChannelTypeOK, NEW v \in Vm, ~ AllSent(v), NEW n \in Nat,
         wpos[v].done + n <= FieldSize[SendOrder[wpos[v].field]]
  PROVE  /\ NewBytes(v, n) \in Seq(ImageByte) /\ Len(NewBytes(v, n)) = n
         /\ \A k \in 1..n : PlaceOf(NewBytes(v, n)[k]) =
              [field |-> wpos[v].field, done |-> wpos[v].done + k - 1]
         /\ Advance(wpos[v], n) =
              IF wpos[v].done + n = FieldSize[SendOrder[wpos[v].field]]
                THEN [field |-> wpos[v].field + 1, done |-> 0]
                ELSE [field |-> wpos[v].field, done |-> wpos[v].done + n]
<1> DEFINE i == wpos[v].field
           d == wpos[v].done
<1>1. /\ i \in 1..9 /\ d \in Nat /\ wpos[v] = [field |-> i, done |-> d]
      /\ SendOrder[i] \in Field /\ FieldSize[SendOrder[i]] \in Nat
  BY WritersPlace, FieldOrder, SizeOfField
<1>2. \A k \in 1..n : ByteOf(v, SendOrder[i], d + k) \in ImageByte
  BY <1>1, ImageBytes
<1>3. NewBytes(v, n) \in [1..n -> ImageByte]
  BY <1>2 DEF NewBytes
<1>4. NewBytes(v, n) \in Seq(ImageByte) /\ Len(NewBytes(v, n)) = n
  BY <1>3
<1>5. ASSUME NEW k \in 1..n
      PROVE  PlaceOf(NewBytes(v, n)[k]) = [field |-> i, done |-> d + k - 1]
  <2>1. NewBytes(v, n)[k] = ByteOf(v, SendOrder[i], d + k)
    BY DEF NewBytes
  <2>2. PICK m \in Nat : m = d + k
    BY <1>1
  <2>3. PlaceOf(ByteOf(v, SendOrder[i], m)) = [field |-> i, done |-> m - 1]
    <3> HIDE DEF i
    <3> QED BY <1>1, PlaceOfByte
  <2>4. ByteOf(v, SendOrder[i], d + k) = ByteOf(v, SendOrder[i], m)
    BY <2>2
  <2>5. m - 1 = d + k - 1
    BY <1>1, <2>2
  <2> HIDE DEF i, d
  <2> QED
    BY <2>1, <2>3, <2>4, <2>5
<1>6. Advance(wpos[v], n) =
        IF d + n = FieldSize[SendOrder[i]]
          THEN [field |-> i + 1, done |-> 0]
          ELSE [field |-> i, done |-> d + n]
  BY <1>1, AdvanceTypes
<1> QED
  BY <1>4, <1>5, <1>6

(* One read takes the front of what has arrived from the accepted client.  *)
LEMMA Cut ==
  ASSUME NEW s \in Seq(ImageByte), NEW n \in Nat, n <= Len(s)
  PROVE  /\ SubSeq(s, 1, n) \in Seq(ImageByte)
         /\ Len(SubSeq(s, 1, n)) = n
         /\ \A k \in 1..n : SubSeq(s, 1, n)[k] = s[k]
         /\ SubSeq(s, n + 1, Len(s)) \in Seq(ImageByte)
         /\ Len(SubSeq(s, n + 1, Len(s))) = Len(s) - n
         /\ \A k \in 1..(Len(s) - n) :
              SubSeq(s, n + 1, Len(s))[k] = s[n + k]
<1>1. \A k \in 1..Len(s) : s[k] \in ImageByte
  BY ElementOfSeq
<1>2. Len(s) \in Nat
  OBVIOUS
<1>3. \A k \in 1..n : s[k] \in ImageByte
  BY <1>1, <1>2
<1>4. \A k \in (n + 1)..Len(s) : s[k] \in ImageByte
  BY <1>1, <1>2
<1>5. /\ SubSeq(s, 1, n) \in Seq(ImageByte)
      /\ Len(SubSeq(s, 1, n)) = IF 1 <= n THEN n - 1 + 1 ELSE 0
      /\ \A k \in 1..(n - 1 + 1) : SubSeq(s, 1, n)[k] = s[1 + k - 1]
  BY <1>3, SubSeqProperties, 1 \in Int, n \in Int
<1>6. /\ SubSeq(s, n + 1, Len(s)) \in Seq(ImageByte)
      /\ Len(SubSeq(s, n + 1, Len(s))) =
           IF n + 1 <= Len(s) THEN Len(s) - (n + 1) + 1 ELSE 0
      /\ \A k \in 1..(Len(s) - (n + 1) + 1) :
           SubSeq(s, n + 1, Len(s))[k] = s[(n + 1) + k - 1]
  BY <1>2, <1>4, SubSeqProperties, n + 1 \in Int, Len(s) \in Int
<1>7. \A k \in 1..(Len(s) - n) :
           SubSeq(s, n + 1, Len(s))[k] = s[n + k]
  <2>1. \A k \in 1..(Len(s) - n) : (n + 1) + k - 1 = n + k
    BY <1>2
  <2>2. Len(s) - (n + 1) + 1 = Len(s) - n
    BY <1>2
  <2> QED BY <1>6, <2>1, <2>2
<1>8. \A k \in 1..n : SubSeq(s, 1, n)[k] = s[k]
  BY <1>5
<1> QED
  BY <1>2, <1>5, <1>6, <1>7, <1>8

LEMMA WriteEffect ==
  ASSUME ChannelTypeOK, NEW v \in Vm, Write(v)
  PROVE  \E n \in Nat \ {0} :
           /\ ~ AllSent(v)
           /\ wpos[v].done + n <= FieldSize[SendOrder[wpos[v].field]]
           /\ conn[v] # "closed" => Len(stream[v]) + n <= SocketBuffer
           /\ stream' = IF conn[v] = "closed" THEN stream
                        ELSE [stream EXCEPT ![v] = stream[v] \o NewBytes(v, n)]
           /\ wpos' = [wpos EXCEPT ![v] = Advance(wpos[v], n)]
<1>1. ~ AllSent(v)
  BY DEF Write
<1>2. PICK n \in 1..(FieldSize[SendOrder[wpos[v].field]] - wpos[v].done) :
           /\ conn[v] # "closed" => Len(stream[v]) + n <= SocketBuffer
           /\ stream' = IF conn[v] = "closed" THEN stream
                        ELSE [stream EXCEPT ![v] = stream[v] \o NewBytes(v, n)]
           /\ wpos' = [wpos EXCEPT ![v] = Advance(wpos[v], n)]
  BY DEF Write, NewBytes
<1>3. /\ wpos[v].done \in Nat
      /\ FieldSize[SendOrder[wpos[v].field]] \in Nat
  BY <1>1, WritersPlace, SizeOfField
<1>4. n \in Nat \ {0} /\ wpos[v].done + n <= FieldSize[SendOrder[wpos[v].field]]
  BY <1>3
<1> QED
  BY <1>1, <1>2, <1>4

Front(n) == SubSeq(stream[peer], 1, n)
Rest(n)  == SubSeq(stream[peer], n + 1, Len(stream[peer]))

LEMMA ReadEffect ==
  ASSUME ChannelTypeOK, ConnectionsMatchServer, ImageInOrder, Read
  PROVE  /\ peer \in Vm /\ server = "receiving" /\ rfield \in 1..9
         /\ conn[peer] = "accepted"
         /\ \E n \in Nat \ {0} :
              LET f == SendOrder[rfield] IN
              /\ n <= Len(stream[peer])
              /\ Len(image[f]) + n <= FieldSize[f]
              /\ image' = [image EXCEPT ![f] = image[f] \o Front(n)]
              /\ stream' = [stream EXCEPT ![peer] = Rest(n)]
              /\ rfield' = IF Len(image[f]) + n = FieldSize[f]
                             THEN rfield + 1 ELSE rfield
<1>1. server = "receiving" /\ ~ AllReceived
  BY DEF Read
<1>2. peer \in Vm /\ conn[peer] = "accepted"
  BY <1>1 DEF ConnectionsMatchServer, ChannelTypeOK
<1>3. rfield \in 1..9
  BY <1>1, FieldOrder DEF AllReceived, ChannelTypeOK
<1> DEFINE f == SendOrder[rfield]
<1>4. PICK n \in 1..(FieldSize[f] - Len(image[f])) :
        /\ n <= Len(stream[peer])
        /\ image' = [image EXCEPT ![f] = image[f] \o Front(n)]
        /\ stream' = [stream EXCEPT ![peer] = Rest(n)]
        /\ rfield' = IF n = FieldSize[f] - Len(image[f])
                       THEN rfield + 1 ELSE rfield
  BY FieldOrder DEF Read, Front, Rest
<1>5. FieldSize[f] \in Nat /\ Len(image[f]) \in Nat
  <2>1. f \in Field /\ FieldSize[f] \in Nat
    BY <1>3, FieldOrder, SizeOfField
  <2> HIDE DEF f
  <2>2. image[f] \in Seq(ImageByte)
    BY <2>1 DEF ChannelTypeOK
  <2> QED BY <2>1, <2>2
<1>6. /\ n \in Nat \ {0} /\ Len(image[f]) + n <= FieldSize[f]
      /\ n = FieldSize[f] - Len(image[f]) <=> Len(image[f]) + n = FieldSize[f]
  BY <1>5
<1> QED
  BY <1>1, <1>2, <1>3, <1>4, <1>6

-----------------------------------------------------------------------------
(* Type correctness, initially and action by action.                       *)
LEMMA InitTypes == ChannelInit => ChannelTypeOK
<1> SUFFICES ASSUME ChannelInit PROVE ChannelTypeOK
  OBVIOUS
<1>1. stream \in [Vm -> Seq(ImageByte)] /\ image \in [Field -> Seq(ImageByte)]
  BY EmptySeq DEF ChannelInit, BlankImage
<1>2. /\ \A v \in Vm : Len(stream[v]) = 0
      /\ \A f \in Field : Len(image[f]) = 0 /\ FieldSize[f] \in Nat
  BY EmptySeq, ChannelAssumption DEF ChannelInit, BlankImage
<1>3. \A v \in Vm : wpos[v].done < FieldSize[SendOrder[wpos[v].field]]
  <2>1. FieldSize[SendOrder[1]] \in Nat \ {0}
    BY SizeOfField
  <2> QED BY <2>1 DEF ChannelInit
<1>4. wpos \in [Vm -> [field : 1..(Len(SendOrder) + 1), done : Nat]]
  BY FieldOrder DEF ChannelInit
<1>5. rfield \in 1..(Len(ReceiveOrder) + 1)
  BY FieldOrder DEF ChannelInit
<1> QED
  BY <1>1, <1>2, <1>3, <1>4, <1>5, ChannelAssumption
  DEF ChannelTypeOK, ChannelInit

LEMMA BlankTypes ==
  /\ BlankImage \in [Field -> Seq(ImageByte)]
  /\ \A f \in Field : Len(BlankImage[f]) <= FieldSize[f]
<1>1. \A f \in Field : FieldSize[f] \in Nat
  BY ChannelAssumption
<1> QED
  BY <1>1, EmptySeq DEF BlankImage

LEMMA HangupTypes ==
  ASSUME ChannelTypeOK, NEW lost, Hangup(lost)
  PROVE  /\ conn' \in [Vm -> {"none", "queued", "accepted", "closed"}]
         /\ stream' \in [Vm -> Seq(ImageByte)]
         /\ \A v \in Vm : Len(stream'[v]) <= SocketBuffer
<1>1. <<>> \in Seq(ImageByte) /\ Len(<<>>) <= SocketBuffer
  BY EmptySeq, ChannelAssumption
<1> QED
  BY <1>1 DEF ChannelTypeOK, Hangup

LEMMA WriteTypes ==
  ASSUME ChannelTypeOK, NEW v \in Vm, Write(v)
  PROVE  ChannelTypeOK'
<1>1. PICK n \in Nat \ {0} :
           /\ ~ AllSent(v)
           /\ wpos[v].done + n <= FieldSize[SendOrder[wpos[v].field]]
           /\ conn[v] # "closed" => Len(stream[v]) + n <= SocketBuffer
           /\ stream' = IF conn[v] = "closed" THEN stream
                        ELSE [stream EXCEPT ![v] = stream[v] \o NewBytes(v, n)]
           /\ wpos' = [wpos EXCEPT ![v] = Advance(wpos[v], n)]
  BY WriteEffect
<1> DEFINE i == wpos[v].field
           d == wpos[v].done
           a == Advance(wpos[v], n)
<1>2. /\ i \in 1..9 /\ d \in Nat /\ d + n <= FieldSize[SendOrder[i]]
      /\ FieldSize[SendOrder[i]] \in Nat
  BY <1>1, WritersPlace, SizeOfField
<1>3. /\ NewBytes(v, n) \in Seq(ImageByte) /\ Len(NewBytes(v, n)) = n
      /\ a = IF d + n = FieldSize[SendOrder[i]]
               THEN [field |-> i + 1, done |-> 0]
               ELSE [field |-> i, done |-> d + n]
  BY <1>1, WrittenBytes
<1>4. stream' \in [Vm -> Seq(ImageByte)]
      /\ \A u \in Vm : Len(stream'[u]) <= SocketBuffer
  <2>1. /\ stream[v] \o NewBytes(v, n) \in Seq(ImageByte)
        /\ Len(stream[v] \o NewBytes(v, n)) = Len(stream[v]) + n
    BY <1>3, ConcatProperties DEF ChannelTypeOK
  <2> QED
    BY <1>1, <2>1 DEF ChannelTypeOK
<1>5. /\ a \in [field : 1..10, done : Nat]
      /\ a.field <= 9 => a.done < FieldSize[SendOrder[a.field]]
  <2> HIDE DEF i, d, a
  <2>1. CASE d + n = FieldSize[SendOrder[i]]
    <3>1. i + 1 <= 9 => FieldSize[SendOrder[i + 1]] \in Nat \ {0}
      BY <1>2, SizeOfField
    <3>2. a = [field |-> i + 1, done |-> 0]
      BY <1>3, <2>1
    <3> QED
      BY <1>2, <3>1, <3>2
  <2>2. CASE d + n # FieldSize[SendOrder[i]]
    <3>1. a = [field |-> i, done |-> d + n]
      BY <1>3, <2>2
    <3>2. d + n < FieldSize[SendOrder[i]]
      BY <1>2, <2>2
    <3> QED
      BY <1>2, <3>1, <3>2
  <2> QED
    BY <2>1, <2>2
<1>6. wpos' \in [Vm -> [field : 1..10, done : Nat]]
  BY <1>1, <1>5, FieldOrder DEF ChannelTypeOK
<1>7. ASSUME NEW u \in Vm, ~ AllSent(u)'
      PROVE  wpos'[u].done < FieldSize[SendOrder[wpos'[u].field]]
  <2>0. wpos'[u].field \in 1..10 /\ ~ (wpos'[u].field > 9)
    BY <1>6, <1>7, FieldOrder DEF AllSent
  <2>1. CASE u = v
    BY <1>1, <1>5, <2>0, <2>1 DEF ChannelTypeOK
  <2>2. CASE u # v
    BY <1>1, <1>7, <2>2 DEF ChannelTypeOK, AllSent
  <2> QED
    BY <2>1, <2>2
<1>8. UNCHANGED <<client, conn, server, peer, rfield, image, starts>>
  BY DEF Write, serverVars
<1>9. /\ client' \in [Vm -> {"connecting", "sending", "exited", "failed"}]
      /\ conn' \in [Vm -> {"none", "queued", "accepted", "closed"}]
      /\ server' \in {"down", "listening", "accepted", "receiving", "creating",
                     "running"}
      /\ peer' \in Vm \cup {NoVm}
      /\ rfield' \in 1..(Len(ReceiveOrder) + 1)
      /\ image' \in [Field -> Seq(ImageByte)]
      /\ \A f \in Field : Len(image'[f]) <= FieldSize[f]
      /\ starts' \in 0..MaxStarts
  BY <1>8 DEF ChannelTypeOK
<1>10. wpos' \in [Vm -> [field : 1..(Len(SendOrder) + 1), done : Nat]]
  BY <1>6, FieldOrder
<1> QED
  BY <1>4, <1>7, <1>9, <1>10 DEF ChannelTypeOK

LEMMA ReadTypes ==
  ASSUME ChannelTypeOK, ConnectionsMatchServer, ImageInOrder, Read
  PROVE  ChannelTypeOK'
<1> DEFINE f == SendOrder[rfield]
<1>1. /\ peer \in Vm /\ server = "receiving" /\ rfield \in 1..9
      /\ f \in Field
  BY ReadEffect, FieldOrder
<1>2. PICK n \in Nat \ {0} :
        /\ n <= Len(stream[peer])
        /\ Len(image[f]) + n <= FieldSize[f]
        /\ image' = [image EXCEPT ![f] = image[f] \o Front(n)]
        /\ stream' = [stream EXCEPT ![peer] = Rest(n)]
        /\ rfield' = IF Len(image[f]) + n = FieldSize[f]
                       THEN rfield + 1 ELSE rfield
  BY ReadEffect
<1>3. /\ Front(n) \in Seq(ImageByte) /\ Len(Front(n)) = n
      /\ Rest(n) \in Seq(ImageByte) /\ Len(Rest(n)) <= SocketBuffer
  <2>1. stream[peer] \in Seq(ImageByte) /\ Len(stream[peer]) <= SocketBuffer
    BY <1>1 DEF ChannelTypeOK
  <2>2. Len(stream[peer]) \in Nat
    BY <2>1
  <2> QED
    BY <1>2, <2>1, <2>2, Cut, ChannelAssumption DEF Front, Rest
<1>4. /\ stream' \in [Vm -> Seq(ImageByte)]
      /\ \A u \in Vm : Len(stream'[u]) <= SocketBuffer
  BY <1>1, <1>2, <1>3 DEF ChannelTypeOK
<1>5. /\ image' \in [Field -> Seq(ImageByte)]
      /\ \A g \in Field : Len(image'[g]) <= FieldSize[g]
  <2> HIDE DEF f
  <2>0. image[f] \in Seq(ImageByte)
    BY <1>1 DEF ChannelTypeOK
  <2>1. /\ image[f] \o Front(n) \in Seq(ImageByte)
        /\ Len(image[f] \o Front(n)) = Len(image[f]) + n
    BY <1>3, <2>0, ConcatProperties
  <2> QED
    BY <1>1, <1>2, <2>1 DEF ChannelTypeOK
<1>6. rfield' \in 1..10
  BY <1>1, <1>2
<1>7. UNCHANGED <<client, wpos, conn, server, peer, starts>>
  BY DEF Read, clientVars
<1>8. /\ client' \in [Vm -> {"connecting", "sending", "exited", "failed"}]
      /\ wpos' \in [Vm -> [field : 1..(Len(SendOrder) + 1), done : Nat]]
      /\ \A v \in Vm :
           ~ AllSent(v)' => wpos'[v].done < FieldSize[SendOrder[wpos'[v].field]]
      /\ conn' \in [Vm -> {"none", "queued", "accepted", "closed"}]
      /\ server' \in {"down", "listening", "accepted", "receiving", "creating",
                     "running"}
      /\ peer' \in Vm \cup {NoVm}
      /\ starts' \in 0..MaxStarts
  BY <1>7 DEF ChannelTypeOK, AllSent
<1>9. rfield' \in 1..(Len(ReceiveOrder) + 1)
  BY <1>6, FieldOrder
<1> QED
  BY <1>4, <1>5, <1>8, <1>9 DEF ChannelTypeOK

LEMMA TypesStep ==
  ASSUME ChannelInv, [ChannelNext]_channelVars
  PROVE  ChannelTypeOK'
<1>0. ChannelTypeOK /\ ConnectionsMatchServer /\ ImageInOrder
  BY DEF ChannelInv
<1>1. ASSUME NEW v \in Vm, Connect(v) PROVE ChannelTypeOK'
  BY <1>0, <1>1 DEF Connect, serverVars, ChannelTypeOK, AllSent
<1>2. ASSUME NEW v \in Vm, Write(v) PROVE ChannelTypeOK'
  BY <1>0, <1>2, WriteTypes
<1>3. ASSUME NEW v \in Vm, WriteFails(v) PROVE ChannelTypeOK'
  BY <1>0, <1>3 DEF WriteFails, serverVars, ChannelTypeOK, AllSent
<1>4. ASSUME NEW v \in Vm, ClientExit(v) PROVE ChannelTypeOK'
  BY <1>0, <1>4 DEF ClientExit, serverVars, ChannelTypeOK, AllSent
<1>5. ASSUME NEW v \in Vm, ClientKilled(v) PROVE ChannelTypeOK'
  BY <1>0, <1>5 DEF ClientKilled, serverVars, ChannelTypeOK, AllSent
<1>6. CASE ServerStart
  BY <1>0, <1>6, ChannelAssumption
  DEF ServerStart, clientVars, ChannelTypeOK, AllSent
<1>7. ASSUME NEW v \in Vm, Accept(v) PROVE ChannelTypeOK'
  BY <1>0, <1>7 DEF Accept, clientVars, ChannelTypeOK, AllSent
<1>8. CASE CloseListener
  <2>1. 1 \in 1..(Len(ReceiveOrder) + 1)
    BY FieldOrder
  <2> QED
    BY <1>0, <1>8, <2>1, BlankTypes, HangupTypes
    DEF CloseListener, clientVars, ChannelTypeOK, AllSent
<1>9. CASE Read
  BY <1>0, <1>9, ReadTypes
<1>10. CASE ServerGone
  <2>1. 1 \in 1..(Len(ReceiveOrder) + 1)
    BY FieldOrder
  <2> QED
    BY <1>0, <1>10, <2>1, BlankTypes, HangupTypes
    DEF ServerGone, clientVars, ChannelTypeOK, AllSent
<1>11. CASE Received
  BY <1>0, <1>11, HangupTypes DEF Received, clientVars, ChannelTypeOK, AllSent
<1>12. CASE Resume
  BY <1>0, <1>12 DEF Resume, clientVars, ChannelTypeOK, AllSent
<1>13. CASE UNCHANGED channelVars
  BY <1>0, <1>13 DEF channelVars, ChannelTypeOK, AllSent
<1> QED
  BY <1>1, <1>2, <1>3, <1>4, <1>5, <1>6, <1>7, <1>8, <1>9, <1>10, <1>11,
     <1>12, <1>13
  DEF ChannelNext, ClientStep, ServerStep, ReadFails, ServerKilled

-----------------------------------------------------------------------------
(* Connections, clients and the server's place agree.                      *)
LEMMA ConnectionsStep ==
  ASSUME ChannelInv, [ChannelNext]_channelVars
  PROVE  ConnectionsMatchServer'
<1>0. ChannelTypeOK /\ ConnectionsMatchServer /\ ImageInOrder
  BY DEF ChannelInv
<1> USE DEF ConnectionsMatchServer, ListenerOpen, AllSent
<1>1. ASSUME NEW v \in Vm, Connect(v) PROVE ConnectionsMatchServer'
  BY <1>0, <1>1 DEF Connect, serverVars, ChannelTypeOK
<1>2. ASSUME NEW v \in Vm, Write(v) PROVE ConnectionsMatchServer'
  <2>1. PICK n \in Nat \ {0} :
           /\ stream' = IF conn[v] = "closed" THEN stream
                        ELSE [stream EXCEPT ![v] = stream[v] \o NewBytes(v, n)]
           /\ wpos' = [wpos EXCEPT ![v] = Advance(wpos[v], n)]
    BY <1>0, <1>2, WriteEffect
  <2>2. /\ client[v] = "sending"
        /\ UNCHANGED <<client, conn, server, peer>>
    BY <1>2 DEF Write, serverVars
  <2>3. conn[v] # "none"
    BY <1>0, <2>2
  <2> QED
    BY <1>0, <2>1, <2>2, <2>3 DEF ChannelTypeOK
<1>3. ASSUME NEW v \in Vm, WriteFails(v) PROVE ConnectionsMatchServer'
  BY <1>0, <1>3 DEF WriteFails, serverVars, ChannelTypeOK
<1>4. ASSUME NEW v \in Vm, ClientExit(v) PROVE ConnectionsMatchServer'
  BY <1>0, <1>4 DEF ClientExit, serverVars, ChannelTypeOK
<1>5. ASSUME NEW v \in Vm, ClientKilled(v) PROVE ConnectionsMatchServer'
  BY <1>0, <1>5 DEF ClientKilled, serverVars, ChannelTypeOK
<1>6. CASE ServerStart
  BY <1>0, <1>6 DEF ServerStart, clientVars, ChannelTypeOK
<1>7. ASSUME NEW v \in Vm, Accept(v) PROVE ConnectionsMatchServer'
  BY <1>0, <1>7, ChannelAssumption DEF Accept, clientVars, ChannelTypeOK
<1>8. CASE CloseListener
  BY <1>0, <1>8 DEF CloseListener, Hangup, Queued, clientVars, ChannelTypeOK
<1>9. CASE Read
  <2>1. PICK n \in Nat \ {0} : stream' = [stream EXCEPT ![peer] = Rest(n)]
    BY <1>0, <1>9, ReadEffect
  <2>2. UNCHANGED <<client, wpos, conn, server, peer>>
    BY <1>9 DEF Read, clientVars
  <2>3. server = "receiving" /\ peer \in Vm /\ conn[peer] = "accepted"
    BY <1>0, <1>9, ReadEffect
  <2> QED
    BY <1>0, <2>1, <2>2, <2>3 DEF ChannelTypeOK
<1>10. CASE ServerGone
  BY <1>0, <1>10 DEF ServerGone, Hangup, clientVars, ChannelTypeOK
<1>11. CASE Received
  BY <1>0, <1>11 DEF Received, Hangup, clientVars, ChannelTypeOK
<1>12. CASE Resume
  BY <1>0, <1>12 DEF Resume, clientVars, ChannelTypeOK
<1>13. CASE UNCHANGED channelVars
  BY <1>0, <1>13 DEF channelVars
<1> QED
  BY <1>1, <1>2, <1>3, <1>4, <1>5, <1>6, <1>7, <1>8, <1>9, <1>10, <1>11,
     <1>12, <1>13
  DEF ChannelNext, ClientStep, ServerStep, ReadFails, ServerKilled

-----------------------------------------------------------------------------
(* The first bytes of a connection, as many as fit into the field that is  *)
(* being received, are the next ones of that field; and what comes behind  *)
(* them is where the reader will be.                                       *)
LEMMA FrontInOrder ==
  ASSUME ChannelInv, peer \in Vm, server = "receiving", rfield \in 1..9,
         conn[peer] # "closed", NEW n \in Nat \ {0}, n <= Len(stream[peer]),
         Len(image[SendOrder[rfield]]) + n <= FieldSize[SendOrder[rfield]]
  PROVE  /\ \A k \in 1..n : stream[peer][k] =
              ByteOf(peer, SendOrder[rfield], Len(image[SendOrder[rfield]]) + k)
         /\ PlaceAt(peer, n + 1) =
              IF Len(image[SendOrder[rfield]]) + n = FieldSize[SendOrder[rfield]]
                THEN [field |-> rfield + 1, done |-> 0]
                ELSE [field |-> rfield,
                      done |-> Len(image[SendOrder[rfield]]) + n]
<1> DEFINE f == SendOrder[rfield]
           got == Len(image[f])
           s == stream[peer]
           Misplaced == {k \in 1..n :
                 PlaceOf(s[k]) # [field |-> rfield, done |-> got + (k - 1)]}
<1>1. /\ s \in Seq(ImageByte) /\ Len(s) \in Nat
      /\ f \in Field /\ FieldSize[f] \in Nat /\ got \in Nat
      /\ got + n <= FieldSize[f]
  <2>1. f \in Field /\ FieldSize[f] \in Nat
    BY FieldOrder, SizeOfField
  <2>2. s \in Seq(ImageByte)
    BY DEF ChannelInv, ChannelTypeOK
  <2>3. image[f] \in Seq(ImageByte)
    <3> HIDE DEF f
    <3> QED BY <2>1 DEF ChannelInv, ChannelTypeOK
  <2> QED
    BY <2>1, <2>2, <2>3
<1>2. /\ PlaceAt(peer, 1) = [field |-> rfield, done |-> got]
      /\ \A k \in 1..Len(s) :
           /\ s[k].vm = peer
           /\ PlaceAt(peer, k + 1) = Advance(PlaceAt(peer, k), 1)
  <2>1. BytesInOrder(peer)
    BY DEF ChannelInv, StreamInOrder
  <2>2. ReadPlace(peer) = [field |-> rfield, done |-> got]
    BY FieldOrder DEF ReadPlace, AllReceived
  <2> QED
    BY <2>1, <2>2 DEF BytesInOrder
<1>3. \A k \in 1..Len(s) : PlaceAt(peer, k) = PlaceOf(s[k])
  BY <1>1 DEF PlaceAt
<1> HIDE DEF f, got, s
<1>4. ASSUME NEW k \in 1..n,
             PlaceOf(s[k]) = [field |-> rfield, done |-> got + (k - 1)]
      PROVE  PlaceAt(peer, k + 1) =
               IF got + k = FieldSize[f]
                 THEN [field |-> rfield + 1, done |-> 0]
                 ELSE [field |-> rfield, done |-> got + k]
  <2>1. k \in 1..Len(s) /\ n <= Len(s)
    BY <1>1 DEF s
  <2>2. PlaceAt(peer, k + 1) = Advance(PlaceOf(s[k]), 1)
    BY <1>2, <1>3, <2>1
  <2>3. PICK d \in Nat : d = got + (k - 1)
    BY <1>1
  <2>4. d + 1 = got + k /\ d + 1 <= FieldSize[f]
    BY <1>1, <2>3
  <2>5. Advance([field |-> rfield, done |-> d], 1) =
           IF d + 1 = FieldSize[f]
             THEN [field |-> rfield + 1, done |-> 0]
             ELSE [field |-> rfield, done |-> d + 1]
    BY <2>4, AdvanceTypes DEF f
  <2> QED
    BY <1>4, <2>2, <2>3, <2>4, <2>5
<1>5. Misplaced = {}
  <2>1. SUFFICES ASSUME Misplaced # {} PROVE FALSE
    OBVIOUS
  <2>2. PICK m \in Misplaced : \A k \in Misplaced : m <= k
    BY <2>1, LeastNatural, Misplaced \subseteq Nat
  <2>3. m \in 1..n /\ m \in 1..Len(s)
    BY <1>1, <2>2 DEF s
  <2>4. CASE m = 1
    <3>1. PlaceOf(s[1]) = [field |-> rfield, done |-> got]
      BY <1>2, <1>3, <2>3, <2>4
    <3>2. got + (1 - 1) = got
      BY <1>1
    <3> QED
      BY <2>2, <2>4, <3>1, <3>2
  <2>5. CASE m > 1
    <3>1. m - 1 \in 1..n /\ ~ (m <= m - 1)
      BY <2>3, <2>5
    <3>2. m - 1 \notin Misplaced
      BY <2>2, <3>1
    <3>3. PlaceOf(s[m - 1]) =
            [field |-> rfield, done |-> got + ((m - 1) - 1)]
      BY <3>1, <3>2
    <3>4. got + (m - 1) < FieldSize[f] /\ (m - 1) + 1 = m
      BY <1>1, <2>3
    <3>5. PlaceAt(peer, m) = [field |-> rfield, done |-> got + (m - 1)]
      <4> DEFINE p == m - 1
      <4>1. p \in 1..n /\ p + 1 = m /\ got + p < FieldSize[f]
        BY <3>1, <3>4
      <4>2. PlaceOf(s[p]) = [field |-> rfield, done |-> got + (p - 1)]
        BY <3>3
      <4>3. got + p # FieldSize[f]
        BY <1>1, <4>1
      <4> HIDE DEF p
      <4>4. PlaceAt(peer, p + 1) = [field |-> rfield, done |-> got + p]
        BY <1>4, <4>1, <4>2, <4>3
      <4> QED
        BY <4>1, <4>4 DEF p
    <3> QED
      BY <1>3, <2>2, <2>3, <3>5
  <2> QED
    BY <2>3, <2>4, <2>5
<1>6. \A k \in 1..n :
        PlaceOf(s[k]) = [field |-> rfield, done |-> got + (k - 1)]
  BY <1>5
<1>7. ASSUME NEW k \in 1..n PROVE s[k] = ByteOf(peer, f, got + k)
  <2>1. k \in 1..Len(s)
    BY <1>1 DEF s
  <2>2. s[k] \in ImageByte /\ s[k].vm = peer
    BY <1>1, <1>2, <2>1, ElementOfSeq
  <2>3. PICK d \in Nat : d = got + (k - 1)
    BY <1>1
  <2>4. PlaceOf(s[k]) = [field |-> rfield, done |-> d]
    BY <1>6, <2>3
  <2>5. s[k] = ByteOf(s[k].vm, SendOrder[rfield], d + 1)
    BY <2>2, <2>4, ByteOfPlace
  <2>6. d + 1 = got + k
    BY <1>1, <2>3
  <2> QED
    BY <2>2, <2>5, <2>6 DEF f
<1>8. PlaceAt(peer, n + 1) =
        IF got + n = FieldSize[f]
          THEN [field |-> rfield + 1, done |-> 0]
          ELSE [field |-> rfield, done |-> got + n]
  BY <1>4, <1>6, n \in 1..n
<1> QED
  BY <1>7, <1>8 DEF f, got, s

-----------------------------------------------------------------------------
(* The image is the beginning of the accepted client's.                    *)
LEMMA EmptyFunction == \A f, v : [k \in 1..0 |-> ByteOf(v, f, k)] = <<>>
<1>1. 1..0 = {}
  OBVIOUS
<1> QED
  BY <1>1

LEMMA ImageBytesInOrder ==
  ASSUME ImageInOrder, server = "receiving" \/ server = "creating"
                                            \/ server = "running"
  PROVE  \A i \in 1..9 : image[SendOrder[i]] =
           [k \in 1..Got(i) |-> ByteOf(peer, SendOrder[i], k)]
<1>1. \A i \in DOMAIN ReceiveOrder : image[ReceiveOrder[i]] =
           [k \in 1..Got(i) |-> ByteOf(peer, ReceiveOrder[i], k)]
  BY DEF ImageInOrder
<1>2. \A i \in DOMAIN SendOrder : image[SendOrder[i]] =
           [k \in 1..Got(i) |-> ByteOf(peer, SendOrder[i], k)]
  BY <1>1 DEF SendOrder, ReceiveOrder
<1> QED
  BY <1>2, FieldOrder

LEMMA BlankInOrder ==
  ASSUME rfield' = 1, image' = BlankImage
  PROVE  ImageInOrder' \/ server' # "receiving"
<1>1. ASSUME NEW i \in 1..9
      PROVE  image'[SendOrder[i]] = <<>> /\ Got(i)' = 0
  <2>1. image'[SendOrder[i]] = <<>>
    BY FieldOrder DEF BlankImage
  <2> QED
    BY <2>1, FieldOrder DEF Got
<1>2. FieldSize[SendOrder[1]] \in Nat \ {0}
  BY SizeOfField
<1>3. Len(image'[SendOrder[1]]) < FieldSize[SendOrder[1]]
  BY <1>1, <1>2, EmptySeq
<1>4. \A i \in 1..9 : image'[SendOrder[i]] =
        [k \in 1..Got(i)' |-> ByteOf(peer', SendOrder[i], k)]
  BY <1>1, EmptyFunction
<1> QED
  BY <1>3, <1>4, FieldOrder DEF ImageInOrder

LEMMA ReadImage ==
  ASSUME ChannelInv, ChannelTypeOK', Read
  PROVE  ImageInOrder'
<1> DEFINE f == SendOrder[rfield]
           got == Len(image[f])
<1>1. /\ peer \in Vm /\ server = "receiving" /\ rfield \in 1..9
      /\ conn[peer] = "accepted"
  BY ReadEffect DEF ChannelInv
<1>2. PICK n \in Nat \ {0} :
        /\ n <= Len(stream[peer])
        /\ got + n <= FieldSize[f]
        /\ image' = [image EXCEPT ![f] = image[f] \o Front(n)]
        /\ rfield' = IF got + n = FieldSize[f] THEN rfield + 1 ELSE rfield
  BY ReadEffect DEF ChannelInv
<1>3. UNCHANGED <<server, peer>>
  BY DEF Read
<1>4. \A k \in 1..n : stream[peer][k] = ByteOf(peer, f, got + k)
  BY <1>1, <1>2, FrontInOrder
<1>5. f \in Field /\ FieldSize[f] \in Nat /\ got \in Nat
  <2>1. f \in Field
    BY <1>1, FieldOrder
  <2> HIDE DEF f
  <2>2. image[f] \in Seq(ImageByte)
    BY <2>1 DEF ChannelInv, ChannelTypeOK
  <2> QED
    BY <2>1, <2>2, ChannelAssumption
<1>6. /\ image[f] \in Seq(ImageByte)
      /\ image[f] = [k \in 1..got |-> ByteOf(peer, f, k)]
  <2>1. Got(rfield) = got
    BY <1>1, FieldOrder DEF Got
  <2>2. image[f] = [k \in 1..Got(rfield) |-> ByteOf(peer, f, k)]
    BY <1>1, ImageBytesInOrder DEF ChannelInv
  <2>3. image[f] \in Seq(ImageByte)
    <3> HIDE DEF f
    <3> QED BY <1>5 DEF ChannelInv, ChannelTypeOK
  <2> QED
    BY <2>1, <2>2, <2>3
<1>7. /\ image[f] \o Front(n) \in Seq(ImageByte)
      /\ Len(image[f] \o Front(n)) = got + n
      /\ image[f] \o Front(n) = [k \in 1..(got + n) |-> ByteOf(peer, f, k)]
  <2>1. /\ Front(n) \in Seq(ImageByte) /\ Len(Front(n)) = n
        /\ \A k \in 1..n : Front(n)[k] = ByteOf(peer, f, got + k)
    <3>1. stream[peer] \in Seq(ImageByte)
      BY <1>1 DEF ChannelInv, ChannelTypeOK
    <3> QED
      BY <1>2, <1>4, <3>1, Cut DEF Front
  <2> DEFINE s == image[f] \o Front(n)
             t == [k \in 1..(got + n) |-> ByteOf(peer, f, k)]
  <2>2. /\ s \in Seq(ImageByte) /\ Len(s) = got + n
        /\ \A k \in 1..(got + n) :
             s[k] = IF k <= got THEN image[f][k] ELSE Front(n)[k - got]
    <3>1. image[f] \in Seq(ImageByte) /\ Len(image[f]) = got
      BY <1>6
    <3>2. /\ s \in Seq(ImageByte) /\ Len(s) = Len(image[f]) + Len(Front(n))
          /\ \A k \in 1..(Len(image[f]) + Len(Front(n))) :
               s[k] = IF k <= Len(image[f]) THEN image[f][k]
                      ELSE Front(n)[k - Len(image[f])]
      <4> HIDE DEF f, got
      <4> QED BY <2>1, <3>1, ConcatProperties
    <3> HIDE DEF s
    <3> QED
      BY <2>1, <3>1, <3>2
  <2>3. DOMAIN s = 1..(got + n) /\ s = [k \in 1..(got + n) |-> s[k]]
    <3> HIDE DEF s
    <3> QED BY <2>2, LenProperties
  <2>4. ASSUME NEW k \in 1..(got + n) PROVE s[k] = ByteOf(peer, f, k)
    <3>1. CASE k <= got
      <4>1. k \in 1..got
        BY <1>5, <3>1
      <4> QED
        BY <1>6, <2>2, <3>1, <4>1
    <3>2. CASE ~ (k <= got)
      <4>1. PICK m \in 1..n : m = k - got
        <5> HIDE DEF got
        <5>1. k - got \in 1..n
          BY <1>5, <3>2
        <5> QED BY <5>1
      <4>2. got + m = k
        BY <1>5, <4>1
      <4> QED
        BY <2>1, <2>2, <3>2, <4>1, <4>2
    <3> QED
      BY <3>1, <3>2
  <2>5. s = t
    <3> HIDE DEF s
    <3> QED BY <2>3, <2>4
  <2> QED
    BY <2>2, <2>5
<1>8. /\ image'[f] = [k \in 1..(got + n) |-> ByteOf(peer, f, k)]
      /\ Len(image'[f]) = got + n
      /\ \A g \in Field : g # f => image'[g] = image[g]
  <2> HIDE DEF f, got
  <2> QED BY <1>2, <1>5, <1>7 DEF ChannelInv, ChannelTypeOK
<1>9. ASSUME NEW i \in 1..9
      PROVE  image'[SendOrder[i]] =
               [k \in 1..Got(i)' |-> ByteOf(peer, SendOrder[i], k)]
  <2>1. CASE i = rfield
    <3>1. Got(i)' = got + n
      <4>1. CASE got + n = FieldSize[f]
        BY <1>1, <1>2, <2>1, <4>1, FieldOrder DEF Got
      <4>2. CASE got + n # FieldSize[f]
        BY <1>1, <1>2, <1>8, <2>1, <4>2, FieldOrder DEF Got
      <4> QED
        BY <4>1, <4>2
    <3> QED
      BY <1>8, <2>1, <3>1
  <2>2. CASE i # rfield
    <3>1. SendOrder[i] # f /\ SendOrder[i] \in Field
      BY <1>1, <2>2, FieldOrder
    <3>2. image'[SendOrder[i]] = image[SendOrder[i]]
      BY <1>8, <3>1
    <3>3. Got(i)' = Got(i)
      <4>1. CASE i < rfield
        BY <1>1, <1>2, <4>1, FieldOrder DEF Got
      <4>2. CASE i > rfield /\ i # rfield'
        BY <1>1, <1>2, <4>2, FieldOrder DEF Got
      <4>3. CASE i > rfield /\ i = rfield'
        <5>1. Got(i) = 0
          BY <1>1, <4>3, FieldOrder DEF Got
        <5>2. image[SendOrder[i]] = <<>>
          <6>1. image[SendOrder[i]] =
                  [k \in 1..Got(i) |-> ByteOf(peer, SendOrder[i], k)]
            BY <1>1, ImageBytesInOrder DEF ChannelInv
          <6> QED
            BY <5>1, <6>1, EmptyFunction
        <5>3. Got(i)' = Len(image'[SendOrder[i]])
          BY <4>3, FieldOrder DEF Got
        <5> QED
          BY <3>2, <5>1, <5>2, <5>3, EmptySeq
      <4> QED
        BY <1>1, <4>1, <4>2, <4>3, <2>2
    <3>4. image[SendOrder[i]] =
            [k \in 1..Got(i) |-> ByteOf(peer, SendOrder[i], k)]
      BY <1>1, ImageBytesInOrder DEF ChannelInv
    <3> QED
      BY <3>2, <3>3, <3>4
  <2> QED
    BY <2>1, <2>2
<1>10. ASSUME ~ AllReceived'
       PROVE  Len(image'[SendOrder[rfield']]) < FieldSize[SendOrder[rfield']]
  <2>1. rfield' \in 1..9
    BY <1>1, <1>2, <1>10, FieldOrder DEF AllReceived
  <2>2. CASE got + n = FieldSize[f]
    <3>1. rfield' = rfield + 1
      BY <1>2, <2>2
    <3>2. SendOrder[rfield'] # f /\ SendOrder[rfield'] \in Field
      BY <1>1, <2>1, <3>1, FieldOrder
    <3>3. Got(rfield') = 0
      BY <1>1, <3>1, FieldOrder DEF Got
    <3>4. image[SendOrder[rfield']] =
            [k \in 1..Got(rfield') |-> ByteOf(peer, SendOrder[rfield'], k)]
      BY <1>1, <2>1, ImageBytesInOrder DEF ChannelInv
    <3>5. image'[SendOrder[rfield']] = <<>>
      BY <1>8, <3>2, <3>3, <3>4, EmptyFunction
    <3>6. FieldSize[SendOrder[rfield']] \in Nat \ {0}
      BY <2>1, SizeOfField
    <3> QED
      BY <3>5, <3>6, EmptySeq
  <2>3. CASE got + n # FieldSize[f]
    <3>1. rfield' = rfield /\ Len(image'[f]) = got + n
      BY <1>2, <1>8, <2>3
    <3>2. got + n < FieldSize[f]
      <4> HIDE DEF f, got
      <4> QED BY <1>2, <1>5, <2>3
    <3> QED
      BY <3>1, <3>2
  <2> QED
    BY <2>2, <2>3
<1> QED
  BY <1>1, <1>3, <1>9, <1>10, FieldOrder DEF ImageInOrder

LEMMA ImageStep ==
  ASSUME ChannelInv, [ChannelNext]_channelVars
  PROVE  ImageInOrder'
<1>0. ChannelTypeOK /\ ImageInOrder /\ ChannelTypeOK'
  BY TypesStep DEF ChannelInv
<1>1. ASSUME UNCHANGED <<server, peer, rfield, image>> PROVE ImageInOrder'
  <2>1. \A i : Got(i)' = Got(i)
    BY <1>1 DEF Got
  <2> QED
    BY <1>0, <1>1, <2>1 DEF ImageInOrder, AllReceived
<1>2. ASSUME server' \in {"down", "listening", "accepted"} PROVE ImageInOrder'
  BY <1>2 DEF ImageInOrder
<1>3. CASE \E v \in Vm : ClientStep(v) \/ ClientKilled(v)
  BY <1>1, <1>3
  DEF ClientStep, Connect, Write, WriteFails, ClientExit, ClientKilled, serverVars
<1>4. CASE ServerStart \/ (\E v \in Vm : Accept(v)) \/ ServerGone
  BY <1>2, <1>4 DEF ServerStart, Accept, ServerGone
<1>5. CASE CloseListener
  BY <1>5, BlankInOrder DEF CloseListener
<1>6. CASE Read
  BY <1>0, <1>6, ReadImage
<1>7. CASE Received \/ Resume
  <2>1. /\ UNCHANGED <<peer, rfield, image>>
        /\ server = "receiving" \/ server = "creating"
        /\ AllReceived
    BY <1>0, <1>7 DEF Received, Resume, ImageInOrder
  <2>2. \A i : Got(i)' = Got(i)
    BY <2>1 DEF Got
  <2> QED
    BY <1>0, <2>1, <2>2 DEF ImageInOrder, AllReceived
<1>8. CASE UNCHANGED channelVars
  BY <1>1, <1>8 DEF channelVars
<1> QED
  BY <1>3, <1>4, <1>5, <1>6, <1>7, <1>8
  DEF ChannelNext, ServerStep, ReadFails, ServerKilled

-----------------------------------------------------------------------------
(* Connections hold the bytes between the reader's and the writer's place. *)
LEMMA OrderKept ==
  ASSUME NEW v \in Vm, BytesInOrder(v), stream'[v] = stream[v],
         wpos'[v] = wpos[v], ReadPlace(v)' = ReadPlace(v)
  PROVE  BytesInOrder(v)'
<1>1. \A j : PlaceAt(v, j)' = PlaceAt(v, j)
  BY DEF PlaceAt
<1> QED
  BY <1>1 DEF BytesInOrder

(* Whoever is not the client of a server that is receiving has nothing     *)
(* read yet.                                                               *)
LEMMA NothingRead ==
  ASSUME NEW v, server # "receiving" \/ v # peer
  PROVE  ReadPlace(v) = [field |-> 1, done |-> 0]
BY DEF ReadPlace

LEMMA NothingReadNext ==
  ASSUME NEW v, server' # "receiving" \/ v # peer'
  PROVE  ReadPlace(v)' = [field |-> 1, done |-> 0]
BY DEF ReadPlace

LEMMA WriteOrder ==
  ASSUME ChannelInv, ChannelTypeOK', NEW v \in Vm, Write(v), conn[v] # "closed"
  PROVE  BytesInOrder(v)'
<1> DEFINE P(j) == PlaceAt(v, j)'
<1>0. ChannelTypeOK /\ BytesInOrder(v)
  BY DEF ChannelInv, StreamInOrder
<1>a. PICK s \in Seq(ImageByte) : s = stream[v]
  BY <1>0 DEF ChannelTypeOK
<1>b. PICK L \in Nat : L = Len(s)
  BY <1>a
<1>c. ~ AllSent(v)
  BY DEF Write
<1>d. PICK i \in 1..9, d \in Nat : wpos[v] = [field |-> i, done |-> d]
  BY <1>0, <1>c, WritersPlace
<1>e. wpos[v].field = i /\ wpos[v].done = d
  BY <1>d
<1>1. PICK n \in Nat \ {0} :
        /\ d + n <= FieldSize[SendOrder[i]]
        /\ stream' = [stream EXCEPT ![v] = s \o NewBytes(v, n)]
        /\ wpos' = [wpos EXCEPT ![v] = Advance(wpos[v], n)]
  BY <1>0, <1>a, <1>e, WriteEffect
<1>2. FieldSize[SendOrder[i]] \in Nat
  BY SizeOfField
<1>3. PICK t \in Seq(ImageByte) :
        /\ t = NewBytes(v, n) /\ Len(t) = n
        /\ \A k \in 1..n : PlaceOf(t[k]) = [field |-> i, done |-> d + k - 1]
        /\ \A k \in 1..n : t[k].vm = v
        /\ Advance(wpos[v], n) = IF d + n = FieldSize[SendOrder[i]]
                                 THEN [field |-> i + 1, done |-> 0]
                                 ELSE [field |-> i, done |-> d + n]
  BY <1>0, <1>1, <1>c, <1>e, WrittenBytes DEF NewBytes, ByteOf
<1>5. /\ Len(stream[v]) = L /\ Len(stream'[v]) = L + n
      /\ wpos'[v] = Advance(wpos[v], n)
      /\ \A j \in 1..L : stream'[v][j] = stream[v][j]
      /\ \A k \in 1..n : stream'[v][L + k] = t[k]
  <2>1. stream'[v] = s \o t /\ wpos'[v] = Advance(wpos[v], n)
    BY <1>0, <1>1, <1>3 DEF ChannelTypeOK
  <2>2. /\ Len(s \o t) = Len(s) + Len(t)
        /\ \A j \in 1..(Len(s) + Len(t)) : (s \o t)[j] =
              IF j <= Len(s) THEN s[j] ELSE t[j - Len(s)]
    BY ConcatProperties
  <2>3. ASSUME NEW j \in 1..L PROVE stream'[v][j] = s[j]
    BY <1>3, <1>b, <2>1, <2>2
  <2>4. ASSUME NEW k \in 1..n PROVE stream'[v][L + k] = t[k]
    <3>1. /\ L + k \in 1..(L + n) /\ ~ (L + k <= L) /\ (L + k) - L = k
      BY <1>b
    <3> QED BY <1>3, <1>b, <2>1, <2>2, <3>1
  <2> QED
    BY <1>a, <1>b, <1>3, <2>1, <2>2, <2>3, <2>4
<1>6. \A j \in 1..L : P(j) = PlaceAt(v, j)
  BY <1>b, <1>5 DEF PlaceAt
<1>7. ASSUME NEW k \in 1..n PROVE P(L + k) = [field |-> i, done |-> d + k - 1]
  <2>1. L + k <= Len(stream'[v])
    BY <1>b, <1>5
  <2> QED
    BY <1>3, <1>5, <2>1 DEF PlaceAt
<1>8. P(L + n + 1) = Advance(wpos[v], n)
  <2>1. ~ (L + n + 1 <= Len(stream'[v]))
    BY <1>b, <1>5
  <2> QED
    BY <1>5, <2>1 DEF PlaceAt
<1>9. P(L + 1) = PlaceAt(v, L + 1)
  <2>1. P(L + 1) = [field |-> i, done |-> d + 1 - 1]
    BY <1>7, 1 \in 1..n
  <2>2. d + 1 - 1 = d /\ ~ (L + 1 <= L)
    BY <1>2, <1>b
  <2>3. PlaceAt(v, L + 1) = wpos[v]
    BY <1>5, <2>2 DEF PlaceAt
  <2> QED
    BY <1>d, <2>1, <2>2, <2>3
<1>10. P(1) = ReadPlace(v)'
  <2>1. ReadPlace(v)' = ReadPlace(v)
    BY DEF ReadPlace, Write, serverVars, AllReceived
  <2>2. PlaceAt(v, 1) = ReadPlace(v)
    BY <1>0 DEF BytesInOrder
  <2>3. P(1) = PlaceAt(v, 1)
    <3>1. CASE L = 0
      BY <1>9, <3>1
    <3>2. CASE L # 0
      BY <1>b, <1>6, <3>2
    <3> QED BY <3>1, <3>2
  <2> QED
    BY <2>1, <2>2, <2>3
<1> HIDE DEF P
<1>11. ASSUME NEW j \in 1..(L + n)
       PROVE  stream'[v][j].vm = v /\ P(j + 1) = Advance(P(j), 1)
  <2>1. CASE j <= L
    <3>1. j \in 1..L
      BY <1>b, <2>1
    <3>2. stream[v][j].vm = v /\ PlaceAt(v, j + 1) = Advance(PlaceAt(v, j), 1)
      BY <1>0, <1>5, <3>1 DEF BytesInOrder
    <3>3. P(j + 1) = PlaceAt(v, j + 1)
      <4>1. CASE j = L
        BY <1>9, <4>1
      <4>2. CASE j # L
        <5>1. j + 1 \in 1..L
          BY <1>b, <3>1, <4>2
        <5> QED BY <1>6, <5>1
      <4> QED BY <4>1, <4>2
    <3> QED
      BY <1>5, <1>6, <3>1, <3>2, <3>3
  <2>2. CASE ~ (j <= L)
    <3>1. PICK k \in 1..n : j = L + k
      <4>1. j - L \in 1..n /\ j = L + (j - L)
        BY <1>b, <2>2
      <4> QED BY <4>1
    <3>2. PICK b \in Nat : b = d + k - 1
      BY <1>2
    <3>3. b + 1 = d + k /\ b + 1 <= FieldSize[SendOrder[i]]
      BY <1>1, <1>2, <3>2
    <3>4. P(j) = [field |-> i, done |-> b]
      BY <1>7, <3>1, <3>2
    <3>5. Advance(P(j), 1) = IF b + 1 = FieldSize[SendOrder[i]]
                               THEN [field |-> i + 1, done |-> 0]
                               ELSE [field |-> i, done |-> b + 1]
      <4>1. Advance([field |-> i, done |-> b], 1) =
              IF b + 1 = FieldSize[SendOrder[i]]
                THEN [field |-> i + 1, done |-> 0]
                ELSE [field |-> i, done |-> b + 1]
        BY <1>2, <3>3, AdvanceTypes
      <4> QED BY <3>4, <4>1
    <3>6. P(j + 1) = Advance(P(j), 1)
      <4>1. CASE k = n
        <5>1. j + 1 = L + n + 1
          BY <1>b, <3>1, <4>1
        <5> QED BY <1>3, <1>8, <3>3, <3>5, <4>1, <5>1
      <4>2. CASE k # n
        <5>1. k + 1 \in 1..n /\ j + 1 = L + (k + 1)
          BY <1>b, <3>1, <4>2
        <5>2. P(j + 1) = [field |-> i, done |-> d + (k + 1) - 1]
          BY <1>7, <5>1
        <5>3. /\ d + (k + 1) - 1 = b + 1 /\ b + 1 < d + n
              /\ b + 1 # FieldSize[SendOrder[i]]
          BY <1>1, <1>2, <3>3, <4>2
        <5> QED BY <3>5, <5>2, <5>3
      <4> QED BY <4>1, <4>2
    <3> QED
      BY <1>3, <1>5, <3>1, <3>6
  <2> QED
    BY <2>1, <2>2
<1> QED
  BY <1>5, <1>10, <1>11 DEF BytesInOrder, P

LEMMA ReadOrder ==
  ASSUME ChannelInv, ChannelTypeOK', ImageInOrder', Read
  PROVE  BytesInOrder(peer)'
<1>0. /\ ChannelTypeOK /\ ConnectionsMatchServer /\ ImageInOrder
      /\ UNCHANGED <<server, peer, wpos>>
  BY DEF ChannelInv, Read, clientVars
<1>1. PICK v \in Vm : /\ v = peer /\ server = "receiving"
                      /\ rfield \in 1..9 /\ conn[v] = "accepted"
  BY <1>0, ReadEffect
<1>2. BytesInOrder(v)
  BY <1>1 DEF ChannelInv, StreamInOrder
<1>3. PICK s \in Seq(ImageByte) : s = stream[v]
  BY <1>0 DEF ChannelTypeOK
<1>4. PICK L \in Nat : L = Len(s)
  BY <1>3
<1>5. PICK f \in Field : f = SendOrder[rfield]
  BY <1>1, FieldOrder
<1>6. PICK got \in Nat : got = Len(image[f])
  <2>1. image[f] \in Seq(ImageByte)
    BY <1>0 DEF ChannelTypeOK
  <2> QED BY <2>1
<1>7. PICK n \in Nat \ {0} :
        /\ n <= L
        /\ got + n <= FieldSize[f]
        /\ image' = [image EXCEPT ![f] = image[f] \o Front(n)]
        /\ stream' = [stream EXCEPT ![v] = SubSeq(s, n + 1, Len(s))]
        /\ rfield' = IF got + n = FieldSize[f] THEN rfield + 1 ELSE rfield
  BY <1>0, <1>1, <1>3, <1>4, <1>5, <1>6, ReadEffect DEF Rest
<1>8. PlaceAt(v, n + 1) =
        IF got + n = FieldSize[f] THEN [field |-> rfield + 1, done |-> 0]
        ELSE [field |-> rfield, done |-> got + n]
  BY <1>1, <1>3, <1>4, <1>5, <1>6, <1>7, FrontInOrder
<1>9. /\ Len(stream'[v]) = L - n
      /\ \A k \in 1..(L - n) : stream'[v][k] = stream[v][n + k]
  BY <1>0, <1>3, <1>4, <1>7, Cut DEF ChannelTypeOK
<1>10. ASSUME NEW j \in 1..(L - n + 1) PROVE PlaceAt(v, j)' = PlaceAt(v, n + j)
  <2>1. CASE j <= L - n
    <3>1. j \in 1..(L - n) /\ n + j <= L
      BY <1>4, <2>1
    <3> QED
      BY <1>3, <1>4, <1>9, <2>1, <3>1 DEF PlaceAt
  <2>2. CASE ~ (j <= L - n)
    <3>1. ~ (n + j <= L)
      BY <1>4, <2>2
    <3> QED
      BY <1>0, <1>3, <1>4, <1>9, <2>2, <3>1 DEF PlaceAt
  <2> QED
    BY <2>1, <2>2
<1>11. PlaceAt(v, 1)' = ReadPlace(v)'
  <2>1. PlaceAt(v, 1)' = PlaceAt(v, n + 1)
    <3>1. 1 \in 1..(L - n + 1)
      BY <1>4, <1>7
    <3> QED BY <1>10, <3>1
  <2>2. rfield' \in 1..10 /\ (AllReceived' <=> rfield' = 10)
    BY <1>1, <1>7, FieldOrder DEF AllReceived
  <2>3. CASE got + n = FieldSize[f]
    <3>1. rfield' = rfield + 1
      BY <1>7, <2>3
    <3>2. ~ AllReceived' => Len(image'[SendOrder[rfield']]) = 0
      <4>1. SUFFICES ASSUME ~ AllReceived'
                     PROVE  image'[SendOrder[rfield']] = <<>>
        BY EmptySeq
      <4>2. rfield' \in 1..9 /\ rfield' # rfield
        BY <1>1, <2>2, <3>1, <4>1
      <4>3. SendOrder[rfield'] # f /\ SendOrder[rfield'] \in Field
        BY <1>1, <1>5, <4>2, FieldOrder
      <4>4. image'[SendOrder[rfield']] = image[SendOrder[rfield']]
        BY <1>0, <1>7, <4>3 DEF ChannelTypeOK
      <4>5. Got(rfield') = 0
        BY <1>1, <3>1, FieldOrder DEF Got
      <4>6. image[SendOrder[rfield']] =
              [k \in 1..Got(rfield') |-> ByteOf(peer, SendOrder[rfield'], k)]
        BY <1>0, <1>1, <4>2, ImageBytesInOrder
      <4> QED
        BY <4>4, <4>5, <4>6, EmptyFunction
    <3>3. ReadPlace(v)' = [field |-> rfield + 1, done |-> 0]
      BY <1>0, <1>1, <3>1, <3>2, FieldOrder DEF ReadPlace
    <3> QED
      BY <1>8, <2>1, <2>3, <3>3
  <2>4. CASE got + n # FieldSize[f]
    <3>1. rfield' = rfield /\ ~ AllReceived'
      BY <1>1, <1>7, <2>2, <2>4
    <3>2. Len(image'[f]) = got + n
      <4>1. image[f] \in Seq(ImageByte)
        BY <1>0 DEF ChannelTypeOK
      <4>2. Front(n) \in Seq(ImageByte) /\ Len(Front(n)) = n
        BY <1>1, <1>3, <1>4, <1>7, Cut DEF Front
      <4>3. Len(image[f] \o Front(n)) = Len(image[f]) + Len(Front(n))
        BY <4>1, <4>2, ConcatProperties
      <4> QED
        BY <1>0, <1>6, <1>7, <4>2, <4>3 DEF ChannelTypeOK
    <3>3. ReadPlace(v)' = [field |-> rfield, done |-> got + n]
      BY <1>0, <1>1, <1>5, <3>1, <3>2, FieldOrder DEF ReadPlace
    <3> QED
      BY <1>8, <2>1, <2>4, <3>3
  <2> QED
    BY <2>3, <2>4
<1>12. ASSUME NEW j \in 1..(L - n)
       PROVE  /\ stream'[v][j].vm = v
              /\ PlaceAt(v, j + 1)' = Advance(PlaceAt(v, j)', 1)
  <2>1. /\ j \in 1..(L - n + 1) /\ j + 1 \in 1..(L - n + 1)
        /\ n + j \in 1..L /\ n + (j + 1) = (n + j) + 1
    BY <1>4, <1>7
  <2>2. /\ stream[v][n + j].vm = v
        /\ PlaceAt(v, (n + j) + 1) = Advance(PlaceAt(v, n + j), 1)
    BY <1>2, <1>3, <1>4, <2>1 DEF BytesInOrder
  <2>3. PlaceAt(v, j + 1)' = PlaceAt(v, n + (j + 1))
    BY <1>10, <2>1
  <2>4. PlaceAt(v, j)' = PlaceAt(v, n + j)
    BY <1>10, <2>1
  <2> QED
    BY <1>9, <2>1, <2>2, <2>3, <2>4
<1>13. BytesInOrder(v)'
  BY <1>9, <1>11, <1>12 DEF BytesInOrder
<1> QED
  BY <1>0, <1>1, <1>13 DEF BytesInOrder, PlaceAt, ReadPlace

(* A new run of the server, a new connection and the end of one leave what *)
(* the other connections hold where it was.                                *)
LEMMA StreamStep ==
  ASSUME ChannelInv, [ChannelNext]_channelVars
  PROVE  StreamInOrder'
<1>0. /\ ChannelTypeOK /\ ConnectionsMatchServer /\ StreamInOrder
      /\ ChannelTypeOK' /\ ConnectionsMatchServer' /\ ImageInOrder'
  BY TypesStep, ConnectionsStep, ImageStep DEF ChannelInv
<1>1. ASSUME NEW v \in Vm, conn[v] # "closed",
             stream'[v] = stream[v], wpos'[v] = wpos[v],
             ReadPlace(v)' = ReadPlace(v)
      PROVE  BytesInOrder(v)'
  BY <1>0, <1>1, OrderKept DEF StreamInOrder
<1>2. ASSUME NEW v \in Vm,
             stream' = stream \/ Hangup(Queued) \/ Hangup({peer})
               \/ Hangup({u \in Vm : conn[u] \in {"queued", "accepted"}}),
             wpos' = wpos, conn'[v] # "closed"
      PROVE  stream'[v] = stream[v] /\ wpos'[v] = wpos[v]
  BY <1>2 DEF Hangup
<1>3. ASSUME UNCHANGED <<stream, wpos, server, peer, rfield, image>>,
             \A v \in Vm : conn'[v] # "closed" => conn[v] # "closed"
      PROVE  StreamInOrder'
  <2>1. \A v \in Vm : ReadPlace(v)' = ReadPlace(v)
    BY <1>3 DEF ReadPlace, AllReceived
  <2> QED
    BY <1>1, <1>3, <2>1 DEF StreamInOrder
<1>4. ASSUME NEW v \in Vm, Connect(v) PROVE StreamInOrder'
  <2>1. \A u \in Vm : conn'[u] # "closed" => conn[u] # "closed"
    BY <1>0, <1>4 DEF Connect, ConnectionsMatchServer, ChannelTypeOK
  <2> QED
    BY <1>3, <1>4, <2>1 DEF Connect, serverVars
<1>5. ASSUME NEW v \in Vm, Write(v) PROVE StreamInOrder'
  <2>1. UNCHANGED <<conn, server, peer, rfield, image>>
    BY <1>5 DEF Write, serverVars
  <2>2. conn[v] # "closed" => BytesInOrder(v)'
    BY <1>0, <1>5, WriteOrder
  <2>3. PICK n \in Nat \ {0} :
           /\ stream' = IF conn[v] = "closed" THEN stream
                        ELSE [stream EXCEPT ![v] = stream[v] \o NewBytes(v, n)]
           /\ wpos' = [wpos EXCEPT ![v] = Advance(wpos[v], n)]
    BY <1>0, <1>5, WriteEffect
  <2>4. ASSUME NEW u \in Vm, u # v, conn[u] # "closed" PROVE BytesInOrder(u)'
    <3>1. stream'[u] = stream[u] /\ wpos'[u] = wpos[u]
      BY <1>0, <2>3, <2>4 DEF ChannelTypeOK
    <3>2. ReadPlace(u)' = ReadPlace(u)
      BY <2>1 DEF ReadPlace, AllReceived
    <3> QED
      BY <1>1, <2>4, <3>1, <3>2
  <2> QED
    BY <2>1, <2>2, <2>4 DEF StreamInOrder
<1>6. ASSUME NEW v \in Vm, WriteFails(v) \/ ClientExit(v) \/ ClientKilled(v)
      PROVE  StreamInOrder'
  BY <1>3, <1>6 DEF WriteFails, ClientExit, ClientKilled, serverVars
<1>7. ASSUME server # "receiving", server' # "receiving",
             UNCHANGED <<stream, wpos>>,
             \A v \in Vm : conn'[v] # "closed" => conn[v] # "closed"
      PROVE  StreamInOrder'
  <2>1. \A v \in Vm : ReadPlace(v)' = ReadPlace(v)
    BY <1>7, NothingRead, NothingReadNext
  <2> QED
    BY <1>1, <1>7, <2>1 DEF StreamInOrder
<1>8. CASE ServerStart \/ Resume
  BY <1>7, <1>8 DEF ServerStart, Resume, clientVars
<1>9. ASSUME NEW v \in Vm, Accept(v) PROVE StreamInOrder'
  <2>1. \A u \in Vm : conn'[u] # "closed" => conn[u] # "closed"
    BY <1>0, <1>9 DEF Accept, ChannelTypeOK
  <2> QED
    BY <1>7, <1>9, <2>1 DEF Accept, clientVars
<1>10. CASE CloseListener
  <2>1. ASSUME NEW v \in Vm PROVE ReadPlace(v)' = ReadPlace(v)
    <3>1. ReadPlace(v) = [field |-> 1, done |-> 0]
      BY <1>10, NothingRead DEF CloseListener
    <3>2. Len(image'[SendOrder[1]]) = 0 /\ rfield' = 1 /\ ~ AllReceived'
      BY <1>10, FieldOrder, EmptySeq DEF CloseListener, BlankImage, AllReceived
    <3>3. ReadPlace(v)' = [field |-> 1, done |-> 0]
      BY <3>2, FieldOrder DEF ReadPlace
    <3> QED
      BY <3>1, <3>3
  <2>2. wpos' = wpos /\ Hangup(Queued)
    BY <1>10 DEF CloseListener, clientVars
  <2>3. \A v \in Vm : conn'[v] # "closed" => conn[v] # "closed"
    BY <2>2 DEF Hangup
  <2> QED
    BY <1>1, <1>2, <2>1, <2>2, <2>3 DEF StreamInOrder
<1>11. CASE Read
  <2>1. UNCHANGED <<conn, wpos, server, peer>>
    BY <1>11 DEF Read, clientVars
  <2>2. BytesInOrder(peer)' /\ peer \in Vm
    BY <1>0, <1>11, ReadOrder, ReadEffect DEF ChannelInv
  <2>3. PICK n \in Nat \ {0} : stream' = [stream EXCEPT ![peer] = Rest(n)]
    BY <1>0, <1>11, ReadEffect DEF ChannelInv
  <2>4. ASSUME NEW u \in Vm, u # peer, conn[u] # "closed"
        PROVE  BytesInOrder(u)'
    <3>1. stream'[u] = stream[u]
      BY <1>0, <2>2, <2>3, <2>4 DEF ChannelTypeOK
    <3>2. ReadPlace(u)' = ReadPlace(u)
      BY <2>1, <2>4, NothingRead, NothingReadNext
    <3> QED
      BY <1>1, <2>1, <2>4, <3>1, <3>2
  <2>5. \A u \in Vm : conn'[u] # "closed" => BytesInOrder(u)'
    BY <2>1, <2>2, <2>4
  <2> QED
    BY <2>5 DEF StreamInOrder
<1>12. ASSUME server' # "receiving", wpos' = wpos,
              Hangup({peer})
               \/ Hangup({u \in Vm : conn[u] \in {"queued", "accepted"}}),
              \A v \in Vm : conn'[v] # "closed" =>
                             server # "receiving" \/ v # peer
       PROVE  StreamInOrder'
  <2>1. \A v \in Vm : conn'[v] # "closed" => ReadPlace(v)' = ReadPlace(v)
    BY <1>12, NothingRead, NothingReadNext
  <2>2. \A v \in Vm : conn'[v] # "closed" => conn[v] # "closed"
    BY <1>12 DEF Hangup
  <2> QED
    BY <1>1, <1>2, <1>12, <2>1, <2>2 DEF StreamInOrder
<1>13. CASE ServerGone
  <2>1. ASSUME NEW v \in Vm, conn'[v] # "closed"
        PROVE  server # "receiving" \/ v # peer
    BY <1>0, <1>13, <2>1 DEF ServerGone, Hangup, ConnectionsMatchServer
  <2> QED
    BY <1>12, <1>13, <2>1 DEF ServerGone, clientVars
<1>14. CASE Received
  <2>1. ASSUME NEW v \in Vm, conn'[v] # "closed" PROVE v # peer
    BY <1>0, <1>14, <2>1 DEF Received, Hangup
  <2> QED
    BY <1>12, <1>14, <2>1 DEF Received, clientVars
<1>15. CASE UNCHANGED channelVars
  BY <1>3, <1>15 DEF channelVars
<1> QED
  BY <1>4, <1>5, <1>6, <1>8, <1>9, <1>10, <1>11, <1>13, <1>14, <1>15
  DEF ChannelNext, ClientStep, ServerStep, ReadFails, ServerKilled

-----------------------------------------------------------------------------
(* The inductive invariant, and what it comes to.                          *)
LEMMA InitInv == ChannelInit => ChannelInv
<1> SUFFICES ASSUME ChannelInit PROVE ChannelInv
  OBVIOUS
<1>1. ChannelTypeOK
  BY InitTypes
<1>2. ConnectionsMatchServer
  BY ChannelAssumption DEF ConnectionsMatchServer, ChannelInit
<1>3. ImageInOrder
  BY DEF ImageInOrder, ChannelInit
<1>4. ASSUME NEW v \in Vm PROVE BytesInOrder(v)
  <2>1. stream[v] = <<>> /\ wpos[v] = [field |-> 1, done |-> 0]
    BY DEF ChannelInit
  <2>2. Len(stream[v]) = 0 /\ 1..0 = {}
    BY <2>1, EmptySeq
  <2>3. ReadPlace(v) = [field |-> 1, done |-> 0]
    BY NothingRead DEF ChannelInit
  <2> QED
    BY <2>1, <2>2, <2>3 DEF BytesInOrder, PlaceAt
<1> QED
  BY <1>1, <1>2, <1>3, <1>4 DEF ChannelInv, StreamInOrder

LEMMA InvStep == ChannelInv /\ [ChannelNext]_channelVars => ChannelInv'
BY TypesStep, ConnectionsStep, ImageStep, StreamStep DEF ChannelInv

(* However connections are made, cut up, turned away and lost: the bytes   *)
(* in every connection and in the image being received are in their place. *)
THEOREM ChannelIsInOrder == ChannelSpec => []ChannelInv
BY InitInv, InvStep, PTL DEF ChannelSpec

(* Every variable stays in its range, in every step of every process.      *)
THEOREM ChannelIsTyped == ChannelSpec => []ChannelTypeOK
<1>1. ChannelInv => ChannelTypeOK
  BY DEF ChannelInv
<1> QED
  BY <1>1, ChannelIsInOrder, PTL

(* A client that has come to its exit(0) has written its whole image; when *)
(* its connection is empty, all of that has been read, and no read of the  *)
(* server can find the end of the stream before the end of the image.      *)
LEMMA ExitedClientIsRead ==
  ASSUME ChannelInv, ReadFails
  PROVE  client[peer] = "failed"
<1>1. /\ server = "receiving" /\ ~ AllReceived
      /\ stream[peer] = <<>> /\ client[peer] \in {"exited", "failed"}
  BY DEF ReadFails, EndOfStream
<1>2. peer \in Vm /\ conn[peer] = "accepted"
  BY <1>1 DEF ChannelInv, ConnectionsMatchServer, ChannelTypeOK
<1>3. wpos[peer] = ReadPlace(peer)
  <2>1. PlaceAt(peer, 1) = ReadPlace(peer)
    BY <1>2 DEF ChannelInv, StreamInOrder, BytesInOrder
  <2>2. Len(stream[peer]) = 0
    BY <1>1, EmptySeq
  <2> QED
    BY <2>1, <2>2 DEF PlaceAt
<1>4. wpos[peer].field = rfield /\ rfield \in 1..9
  BY <1>1, <1>3, FieldOrder
  DEF ReadPlace, AllReceived, ChannelInv, ChannelTypeOK
<1>5. ~ AllSent(peer)
  BY <1>4, FieldOrder DEF AllSent
<1> QED
  BY <1>1, <1>2, <1>5 DEF ChannelInv, ConnectionsMatchServer

THEOREM ExitedClientsDeliver == ChannelSpec => ExitedClientDelivers
<1>1. ChannelInv => [ReadFails => client[peer] = "failed"]_channelVars
  BY ExitedClientIsRead
<1> QED
  BY <1>1, ChannelIsInOrder, PTL DEF ExitedClientDelivers

-----------------------------------------------------------------------------
(* MigrationChannel implements ImageHandoff.                               *)
LEMMA WholeImage ==
  ASSUME ChannelInv, AllReceived,
         server = "receiving" \/ server = "creating" \/ server = "running"
  PROVE  peer \in Vm /\ image = ImageOf(peer)
<1>1. peer \in Vm
  BY DEF ChannelInv, ConnectionsMatchServer, ChannelTypeOK
<1>2. ASSUME NEW i \in 1..9
      PROVE  image[SendOrder[i]] = ImageOf(peer)[SendOrder[i]]
  <2>1. Got(i) = FieldSize[SendOrder[i]]
    BY FieldOrder DEF AllReceived, Got, ChannelInv, ChannelTypeOK
  <2>2. image[SendOrder[i]] =
          [k \in 1..Got(i) |-> ByteOf(peer, SendOrder[i], k)]
    BY ImageBytesInOrder DEF ChannelInv
  <2>3. SendOrder[i] \in Field
    BY FieldOrder
  <2> QED
    BY <2>1, <2>2, <2>3 DEF ImageOf
<1>3. ASSUME NEW f \in Field PROVE image[f] = ImageOf(peer)[f]
  BY <1>2, FieldOrder
<1> QED
  BY <1>1, <1>3 DEF ChannelInv, ChannelTypeOK, ImageOf

Offered == {v \in Vm : conn[v] # "closed"}

LEMMA HandoffInit == ChannelInit => Handoff!Init
BY DEF ChannelInit, Handoff!Init, DestinationVm

LEMMA HandoffStep ==
  ASSUME ChannelInv, [ChannelNext]_channelVars
  PROVE  [Handoff!Next]_(Handoff!vars)
<1>0. ChannelTypeOK /\ ConnectionsMatchServer /\ ChannelInv'
  BY InvStep DEF ChannelInv
<1>1. ASSUME Offered' = Offered, DestinationVm' = DestinationVm
      PROVE  UNCHANGED Handoff!vars
  BY <1>1 DEF Handoff!vars, Offered
<1>2. ASSUME UNCHANGED <<server, peer, image>>
      PROVE  DestinationVm' = DestinationVm
  BY <1>2 DEF DestinationVm
<1>3. ASSUME server \notin {"creating", "running"},
             server' \notin {"creating", "running"}
      PROVE  DestinationVm = NoVm /\ DestinationVm' = NoVm
  BY <1>3 DEF DestinationVm
<1>4. ASSUME NEW lost, Hangup(lost) PROVE Offered' = Offered \ lost
  BY <1>4 DEF Hangup, Offered
<1>5. CASE \E v \in Vm : ClientStep(v) \/ ClientKilled(v)
  <2>1. Offered' = Offered
    BY <1>0, <1>5
    DEF Offered, ClientStep, Connect, Write, WriteFails, ClientExit,
        ClientKilled, ConnectionsMatchServer, ChannelTypeOK
  <2>2. UNCHANGED <<server, peer, image>>
    BY <1>5 DEF ClientStep, Connect, Write, WriteFails, ClientExit,
                ClientKilled, serverVars
  <2> QED
    BY <1>1, <1>2, <2>1, <2>2
<1>6. CASE ServerStart \/ \E v \in Vm : Accept(v)
  <2>1. Offered' = Offered
    BY <1>0, <1>6 DEF Offered, ServerStart, Accept, ChannelTypeOK
  <2>2. DestinationVm' = DestinationVm
    BY <1>3, <1>6 DEF ServerStart, Accept
  <2> QED
    BY <1>1, <2>1, <2>2
<1>7. CASE CloseListener
  <2>1. Offered' = Offered \ (Queued \cap Offered)
    BY <1>4, <1>7 DEF CloseListener
  <2>2. DestinationVm' = DestinationVm
    BY <1>3, <1>7 DEF CloseListener
  <2>3. Queued \cap Offered \in SUBSET Offered
    OBVIOUS
  <2>4. Handoff!Lapse
    BY <2>1, <2>2, <2>3 DEF Handoff!Lapse, Offered
  <2> QED
    BY <2>4 DEF Handoff!Next
<1>8. CASE Read
  <2>1. Offered' = Offered
    BY <1>8 DEF Read, Offered
  <2>2. DestinationVm' = DestinationVm
    BY <1>3, <1>8 DEF Read
  <2> QED
    BY <1>1, <2>1, <2>2
<1>9. CASE ServerGone
  <2> DEFINE lost == {v \in Vm : conn[v] \in {"queued", "accepted"}}
  <2>1. Offered' = Offered \ (lost \cap Offered)
    BY <1>4, <1>9 DEF ServerGone
  <2>2. DestinationVm' = NoVm
    BY <1>9 DEF ServerGone, DestinationVm
  <2>3. lost \cap Offered \in SUBSET Offered
    OBVIOUS
  <2>4. Handoff!Leave
    <3> HIDE DEF lost
    <3> QED BY <2>1, <2>2, <2>3 DEF Handoff!Leave, Offered
  <2> QED
    BY <2>4 DEF Handoff!Next
<1>10. CASE Received
  <2>1. /\ server = "receiving" /\ server' = "creating" /\ AllReceived
        /\ UNCHANGED <<peer, image>> /\ Hangup({peer})
    BY <1>10 DEF Received
  <2>2. peer \in Vm /\ image = ImageOf(peer)
    BY <2>1, WholeImage
  <2>3. DestinationVm = NoVm /\ DestinationVm' = peer
    BY <2>1, <2>2 DEF DestinationVm, ImageOf
  <2>4. Offered' = Offered \ {peer} /\ peer \in Offered
    BY <1>0, <1>4, <2>1, <2>2 DEF ConnectionsMatchServer, Offered
  <2>5. PICK v \in Vm : v = peer
    BY <2>2
  <2>6. Handoff!Take(v)
    BY <2>3, <2>4, <2>5 DEF Handoff!Take, Offered
  <2> QED
    BY <2>6 DEF Handoff!Next
<1>11. CASE Resume
  <2>1. Offered' = Offered
    BY <1>11 DEF Resume, Offered
  <2>2. DestinationVm' = DestinationVm
    BY <1>11 DEF Resume, DestinationVm
  <2> QED
    BY <1>1, <2>1, <2>2
<1>12. CASE UNCHANGED channelVars
  BY <1>1, <1>2, <1>12 DEF channelVars, Offered
<1> QED
  BY <1>5, <1>6, <1>7, <1>8, <1>9, <1>10, <1>11, <1>12
  DEF ChannelNext, ServerStep, ReadFails, ServerKilled

(* The transfer keeps the promise of a hand-over: the destination has the  *)
(* whole image of one VM or none, and no VM is taken twice.                *)
THEOREM ChannelImplementsHandoff == ChannelSpec => ImplementsHandoff
BY HandoffInit, HandoffStep, ChannelIsInOrder, PTL
DEF ChannelSpec, ImplementsHandoff, Handoff!Spec
=============================================================================
