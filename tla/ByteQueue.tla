----------------------------- MODULE ByteQueue -----------------------------
(***************************************************************************)
(* What an io_buffer promises its clients: a bounded first-in first-out    *)
(* queue of bytes.  Nothing is lost, repeated or reordered, a write is     *)
(* refused exactly when its bytes do not fit in what is free, and a read   *)
(* exactly when fewer bytes are queued than it asks for.  There is no      *)
(* memory, no window and no compaction here; module IoBufferQueue is shown *)
(* to implement this specification.                                        *)
(***************************************************************************)
EXTENDS Integers, Sequences

CONSTANTS
  Capacity,  \* bytes the queue holds
  Writes,    \* the byte strings a client may offer
  ReadSizes  \* the sizes a client asks for in one piece

VARIABLES
  queue,     \* the unread bytes
  result     \* what the last operation returned

Result(status, bytes) == [status |-> status, bytes |-> bytes]

QueueInit == queue = <<>> /\ result = Result("ok", <<>>)

Push(s) ==
  /\ Len(queue) + Len(s) <= Capacity
  /\ queue' = queue \o s
  /\ result' = Result("ok", <<>>)

RefusePush(s) ==
  /\ Len(queue) + Len(s) > Capacity
  /\ result' = Result("refused", <<>>)
  /\ UNCHANGED queue

Pop(n) ==
  /\ queue' = SubSeq(queue, n + 1, Len(queue))
  /\ result' = Result("ok", SubSeq(queue, 1, n))

RefusePop(n) ==
  /\ n > Len(queue)
  /\ result' = Result("refused", <<>>)
  /\ UNCHANGED queue

\* The client looks at the first n bytes, or skips them unseen.
Look(n) ==
  /\ result' = Result("ok", SubSeq(queue, 1, n))
  /\ UNCHANGED queue

Drop(n) ==
  /\ queue' = SubSeq(queue, n + 1, Len(queue))
  /\ result' = Result("ok", <<>>)

\* The source of the bytes failed; the queue is as it was.
SourceFails ==
  /\ result' = Result("error", <<>>)
  /\ UNCHANGED queue

QueueNext ==
  \/ \E s \in Writes \cup {<<>>} : Push(s)
  \/ \E s \in Writes : RefusePush(s)
  \/ \E n \in 0 .. Len(queue) : Pop(n) \/ Look(n) \/ Drop(n)
  \/ \E n \in ReadSizes : RefusePop(n)
  \/ SourceFails

QueueSpec == QueueInit /\ [][QueueNext]_<<queue, result>>
=============================================================================
