-------------------------- MODULE MigrationChannel --------------------------
(***************************************************************************)
(* A VM image on its way from the VMM that stopped it (VMM_client.c) to    *)
(* the one that will run it (VMM_server.c), as vm_migration/migration.c    *)
(* sends and receives it: nine fields, one after the other, on a TCP       *)
(* connection that splits and joins what is written to it as it likes.     *)
(*                                                                         *)
(* Any number of clients may be waiting for the port of one server.  A     *)
(* process may be killed at any time; the server may be started again.     *)
(* Each client is in SAVE, after save_vm_image has written the image file, *)
(* so its guest is stopped and it sends its image at most once.            *)
(***************************************************************************)
EXTENDS Naturals, Sequences, FiniteSets

CONSTANTS Vm,            \* the clients, by the VM each of them has stopped
          NoVm,
          FieldSize,     \* bytes of every field of VM_image, scaled down
          SocketBuffer,  \* bytes a connection holds between the processes
          Backlog,       \* of listen(conn_fd, 1)
          MaxStarts      \* bound of the model: runs of VMM_server

(* The calls of send_vm_image and receive_vm_image, in their order.        *)
SendOrder ==
  <<"registers", "sregisters", "msrs", "fpu", "memory_size",
    "guest_memory_physical_base", "guest_memory", "n_open_files", "open_files">>

FpuBeforeMsrs ==  \* a slip: two calls of the receiver are swapped
  <<"registers", "sregisters", "fpu", "msrs", "memory_size",
    "guest_memory_physical_base", "guest_memory", "n_open_files", "open_files">>

ReceiveOrder ==
  <<"registers", "sregisters", "msrs", "fpu", "memory_size",
    "guest_memory_physical_base", "guest_memory", "n_open_files", "open_files">>

Field == {SendOrder[i] : i \in DOMAIN SendOrder}

ASSUME ChannelAssumption ==
  /\ NoVm \notin Vm
  /\ FieldSize \in [Field -> Nat \ {0}]
  /\ SocketBuffer \in Nat \ {0} /\ Backlog \in Nat /\ MaxStarts \in Nat

VARIABLES client,  \* where each client is
          wpos,    \* and how far its my_write calls have got
          conn,    \* the server's end of each client's connection
          stream,  \* bytes written to it and not yet read
          server,  \* where the server is
          peer,    \* the client it has accepted
          rfield,  \* the field its my_read is at
          image,   \* what it has received so far
          starts   \* runs of VMM_server

clientVars == <<client, wpos>>
serverVars == <<server, peer, rfield, image, starts>>
channelVars == <<client, wpos, conn, stream, server, peer, rfield, image, starts>>

(* A byte of an image, told apart by where it belongs.                     *)
ByteOf(v, f, k) == [vm |-> v, field |-> f, at |-> k]
ImageOf(v)  == [f \in Field |-> [k \in 1..FieldSize[f] |-> ByteOf(v, f, k)]]
BlankImage  == [f \in Field |-> <<>>]

ListenerOpen == server \in {"listening", "accepted"}
Queued       == {v \in Vm : conn[v] = "queued"}

ChannelInit ==
  /\ client = [v \in Vm |-> "connecting"]
  /\ wpos = [v \in Vm |-> [field |-> 1, done |-> 0]]
  /\ conn = [v \in Vm |-> "none"]
  /\ stream = [v \in Vm |-> <<>>]
  /\ server = "down"
  /\ peer = NoVm
  /\ rfield = 1
  /\ image = BlankImage
  /\ starts = 0

-----------------------------------------------------------------------------
(* connect is tried every second until it succeeds, that is, until the     *)
(* port is open and the queue of listen has room.  Tries that fail change  *)
(* nothing.                                                                *)
Connect(v) ==
  /\ client[v] = "connecting"
  /\ ListenerOpen
  /\ Cardinality(Queued) <= Backlog
  /\ conn' = [conn EXCEPT ![v] = "queued"]
  /\ client' = [client EXCEPT ![v] = "sending"]
  /\ UNCHANGED <<wpos, stream, serverVars>>

(* The loop of my_write: left counts down, and the next field follows when *)
(* it is 0.                                                                *)
PartIsAll(pos, n) ==  \* a slip: what write has not taken is forgotten
  [field |-> pos.field + 1, done |-> 0]

NeverDone(pos, n) ==  \* a slip: while (left >= 0)
  [pos EXCEPT !.done = @ + n]

Advance(pos, n) ==
  IF pos.done + n = FieldSize[SendOrder[pos.field]]
    THEN [field |-> pos.field + 1, done |-> 0]
    ELSE [pos EXCEPT !.done = @ + n]

AllSent(v) == wpos[v].field > Len(SendOrder)

(* One write of my_write.  The kernel takes some of the bytes as long as   *)
(* there is room; when the other end is gone it may still take them.       *)
Write(v) ==
  /\ client[v] = "sending"
  /\ ~ AllSent(v)
  /\ LET f    == SendOrder[wpos[v].field]
         done == wpos[v].done
     IN \E n \in 1..(FieldSize[f] - done) :
          /\ conn[v] # "closed" => Len(stream[v]) + n <= SocketBuffer
          /\ stream' =
               IF conn[v] = "closed" THEN stream
               ELSE [stream EXCEPT ![v] =
                       @ \o [k \in 1..n |-> ByteOf(v, f, done + k)]]
          /\ wpos' = [wpos EXCEPT ![v] = Advance(@, n)]
  /\ UNCHANGED <<client, conn, serverVars>>

(* write fails, or SIGPIPE kills the process: exit(1) either way.          *)
WriteFails(v) ==
  /\ client[v] = "sending"
  /\ ~ AllSent(v)
  /\ conn[v] = "closed"
  /\ client' = [client EXCEPT ![v] = "failed"]
  /\ UNCHANGED <<wpos, conn, stream, serverVars>>

(* close(conn_fd), and the exit(0) that ends SAVE.  Nothing is awaited.    *)
ClientExit(v) ==
  /\ client[v] = "sending"
  /\ AllSent(v)
  /\ client' = [client EXCEPT ![v] = "exited"]
  /\ UNCHANGED <<wpos, conn, stream, serverVars>>

(* The kernel still delivers what a killed client had written.             *)
ClientKilled(v) ==
  /\ client[v] \in {"connecting", "sending"}
  /\ client' = [client EXCEPT ![v] = "failed"]
  /\ UNCHANGED <<wpos, conn, stream, serverVars>>

-----------------------------------------------------------------------------
(* server_connection up to its listen.                                     *)
ServerStart ==
  /\ server = "down"
  /\ starts < MaxStarts
  /\ server' = "listening"
  /\ starts' = starts + 1
  /\ UNCHANGED <<clientVars, conn, stream, peer, rfield, image>>

Accept(v) ==
  /\ server = "listening"
  /\ conn[v] = "queued"
  /\ server' = "accepted"
  /\ peer' = v
  /\ conn' = [conn EXCEPT ![v] = "accepted"]
  /\ UNCHANGED <<clientVars, stream, rfield, image, starts>>

(* Connections of which the server's end is gone lose what they held.      *)
Hangup(lost) ==
  /\ conn' = [v \in Vm |-> IF v \in lost THEN "closed" ELSE conn[v]]
  /\ stream' = [v \in Vm |-> IF v \in lost THEN <<>> ELSE stream[v]]

(* close(conn_fd) turns away whoever else is in the queue; then            *)
(* receive_vm_image begins with a zeroed image.                            *)
CloseListener ==
  /\ server = "accepted"
  /\ Hangup(Queued)
  /\ server' = "receiving"
  /\ rfield' = 1
  /\ image' = BlankImage
  /\ UNCHANGED <<clientVars, peer, starts>>

AllReceived == rfield > Len(ReceiveOrder)

(* One read of my_read: any number of the bytes that have arrived, but no  *)
(* more than are left of the field.                                        *)
Read ==
  /\ server = "receiving"
  /\ ~ AllReceived
  /\ LET f    == ReceiveOrder[rfield]
         left == FieldSize[f] - Len(image[f])
     IN \E n \in 1..left :
          /\ n <= Len(stream[peer])
          /\ image' = [image EXCEPT ![f] = @ \o SubSeq(stream[peer], 1, n)]
          /\ stream' = [stream EXCEPT ![peer] = SubSeq(@, n + 1, Len(@))]
          /\ rfield' = IF n = left THEN rfield + 1 ELSE rfield
  /\ UNCHANGED <<clientVars, conn, server, peer, starts>>

OnlyErrors ==  \* a slip: recv < 0 for recv <= 0
  FALSE

(* read returns 0: all is read, and the client has closed or is gone.      *)
EndOfStream ==
  stream[peer] = <<>> /\ client[peer] \in {"exited", "failed"}

(* The process is gone: every connection to it, and the VM in it.          *)
ServerGone ==
  /\ server' = "down"
  /\ Hangup({v \in Vm : conn[v] \in {"queued", "accepted"}})
  /\ peer' = NoVm
  /\ rfield' = 1
  /\ image' = BlankImage
  /\ UNCHANGED <<clientVars, starts>>

ReadFails ==
  /\ server = "receiving"
  /\ ~ AllReceived
  /\ EndOfStream
  /\ ServerGone

(* close(client_fd) at the end of receive_vm_image.                        *)
Received ==
  /\ server = "receiving"
  /\ AllReceived
  /\ server' = "creating"
  /\ Hangup({peer})
  /\ UNCHANGED <<clientVars, peer, rfield, image, starts>>

(* create_vm, create_bootstrap, add_memory, create_stack and               *)
(* restore_from_image (ColdMigration), then continue_vm.                   *)
Resume ==
  /\ server = "creating"
  /\ server' = "running"
  /\ UNCHANGED <<clientVars, conn, stream, peer, rfield, image, starts>>

(* Killed, ended by an err() of VM creation, or by its guest's exit.       *)
ServerKilled ==
  /\ server # "down"
  /\ ServerGone

-----------------------------------------------------------------------------
ClientStep(v) == Connect(v) \/ Write(v) \/ WriteFails(v) \/ ClientExit(v)

ServerStep ==
  \/ \E v \in Vm : Accept(v)
  \/ CloseListener \/ Read \/ ReadFails \/ Received \/ Resume

ChannelNext ==
  \/ \E v \in Vm : ClientStep(v) \/ ClientKilled(v)
  \/ ServerStart \/ ServerStep \/ ServerKilled

ChannelSpec == ChannelInit /\ [][ChannelNext]_channelVars

(* Processes that are not blocked run, and a client that finds the port    *)
(* open connects at its next try.  Nobody need start a server.             *)
FairChannelSpec ==
  /\ ChannelSpec
  /\ \A v \in Vm : WF_channelVars(ClientStep(v))
  /\ WF_channelVars(ServerStep)

-----------------------------------------------------------------------------
ImageByte ==
  {b \in [vm : Vm, field : Field, at : Nat \ {0}] : b.at <= FieldSize[b.field]}

(* Every variable stays in its range.                                      *)
ChannelTypeOK ==
  /\ client \in [Vm -> {"connecting", "sending", "exited", "failed"}]
  /\ wpos \in [Vm -> [field : 1..(Len(SendOrder) + 1), done : Nat]]
  /\ \A v \in Vm :
       ~ AllSent(v) => wpos[v].done < FieldSize[SendOrder[wpos[v].field]]
  /\ conn \in [Vm -> {"none", "queued", "accepted", "closed"}]
  /\ stream \in [Vm -> Seq(ImageByte)]
  /\ \A v \in Vm : Len(stream[v]) <= SocketBuffer
  /\ server \in {"down", "listening", "accepted", "receiving", "creating",
                 "running"}
  /\ peer \in Vm \cup {NoVm}
  /\ rfield \in 1..(Len(ReceiveOrder) + 1)
  /\ image \in [Field -> Seq(ImageByte)]
  /\ \A f \in Field : Len(image[f]) <= FieldSize[f]
  /\ starts \in 0..MaxStarts

(* What the connections, the clients and the server's place in its program *)
(* say of each other.                                                      *)
ConnectionsMatchServer ==
  /\ \A v \in Vm :
       /\ client[v] = "connecting" => conn[v] = "none"
       /\ client[v] = "sending" => conn[v] # "none"
       /\ client[v] = "exited" => AllSent(v)
       /\ conn[v] = "none" => wpos[v] = [field |-> 1, done |-> 0]
       /\ conn[v] \in {"none", "closed"} => stream[v] = <<>>
       /\ conn[v] = "queued" => ListenerOpen
       /\ conn[v] = "accepted" <=> v = peer /\ server \in {"accepted", "receiving"}
  /\ peer = NoVm <=> server \in {"down", "listening"}

(* What has been received is the beginning of the accepted client's image, *)
(* field by field.                                                         *)
Got(i) == IF i < rfield THEN FieldSize[ReceiveOrder[i]]
          ELSE IF i = rfield THEN Len(image[ReceiveOrder[i]]) ELSE 0

ImageInOrder ==
  server \in {"receiving", "creating", "running"} =>
    /\ \A i \in DOMAIN ReceiveOrder :
         image[ReceiveOrder[i]] =
           [k \in 1..Got(i) |-> ByteOf(peer, ReceiveOrder[i], k)]
    /\ ~ AllReceived =>
         /\ server = "receiving"
         /\ Len(image[ReceiveOrder[rfield]]) < FieldSize[ReceiveOrder[rfield]]

(* The place in the image of a byte, of the j-th byte in a connection (the *)
(* one to be written next, behind the last), and of the next byte to read. *)
PlaceOf(b) == [field |-> CHOOSE i \in DOMAIN SendOrder : SendOrder[i] = b.field,
               done  |-> b.at - 1]

PlaceAt(v, j) == IF j <= Len(stream[v]) THEN PlaceOf(stream[v][j]) ELSE wpos[v]

ReadPlace(v) ==
  IF server = "receiving" /\ v = peer
    THEN [field |-> rfield,
          done  |-> IF AllReceived THEN 0 ELSE Len(image[ReceiveOrder[rfield]])]
    ELSE [field |-> 1, done |-> 0]

(* A connection holds the bytes of its own client's image from the         *)
(* reader's place to the writer's, each next to the other: none is lost,   *)
(* repeated, swapped or another VM's, however writes and reads cut them.   *)
BytesInOrder(v) ==
  /\ PlaceAt(v, 1) = ReadPlace(v)
  /\ \A j \in 1..Len(stream[v]) :
       /\ stream[v][j].vm = v
       /\ PlaceAt(v, j + 1) = Advance(PlaceAt(v, j), 1)

StreamInOrder == \A v \in Vm : conn[v] # "closed" => BytesInOrder(v)

(* The inductive invariant: from the writer of a connection to the image   *)
(* that is being received, every byte is in its place.                     *)
ChannelInv ==
  /\ ChannelTypeOK
  /\ ConnectionsMatchServer
  /\ ImageInOrder
  /\ StreamInOrder

(* The VM that the destination holds once receive_vm_image has returned;   *)
(* anything else than the whole image of one VM is none of them.           *)
DestinationVm ==
  IF server \notin {"creating", "running"} THEN NoVm
  ELSE IF peer \in Vm /\ image = ImageOf(peer) THEN peer
  ELSE "corrupt"

Handoff == INSTANCE ImageHandoff WITH
  offered     <- {v \in Vm : conn[v] # "closed"},
  destination <- DestinationVm

(* However the stream is cut up, whoever is killed or turned away, and     *)
(* however often the server is started again, the destination ends up with *)
(* the whole image of one VM or with none, and never takes a VM twice.     *)
ImplementsHandoff == Handoff!Spec

(* A server gives up on an image only when the client was killed or failed *)
(* while sending: a client that has come to its exit(0), which waits for   *)
(* no acknowledgement, leaves the whole image behind in the connection.    *)
ExitedClientDelivers ==
  [][ReadFails => client[peer] = "failed"]_channelVars

(* No client and no server waits for ever once they are connected, though  *)
(* both block on a full or empty connection: a client that sends comes to  *)
(* an exit, a server that receives runs the VM or ends, and a server that  *)
(* listens while clients retry gets one.                                   *)
TransferEnds ==
  /\ \A v \in Vm : client[v] = "sending" ~> client[v] \in {"exited", "failed"}
  /\ server = "receiving" ~> server \in {"running", "down"}
  /\ (server = "listening" /\ \E v \in Vm : client[v] = "connecting")
       ~> (server # "listening" \/ \A v \in Vm : client[v] # "connecting")
=============================================================================
