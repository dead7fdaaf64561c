---------------------------- MODULE MemoryLayout ----------------------------
(***************************************************************************)
(* Where things lie in a server's shared memory: the constructor of        *)
(* MemoryManager and its address operations, and the offset of the data    *)
(* area a client computes for itself.  Addresses are relative to           *)
(* MemoryBaseAddress, which is what nodes pass to each other.              *)
(***************************************************************************)
EXTENDS Integers

CONSTANTS
  MessageSize,       \* CLIENT_MESSAGE_SIZE and SERVER_MASSAGE_SIZE (1024)
  MaxClientNumber,   \* MAX_CLIENT_NUMBER (24)
  ServerMessageNum,  \* SERVER_MASSAGE_NUM (8)
  MetadataSize,      \* METADATA_SIZE (1024)
  ServerCount,
  DataSize           \* bytes of data storage

ASSUME LayoutAssumption ==
  /\ MessageSize \in Nat \ {0}
  /\ MaxClientNumber \in Nat
  /\ ServerMessageNum \in Nat \ {0}
  /\ MetadataSize \in Nat
  /\ ServerCount \in Nat \ {0}
  /\ DataSize \in Nat

Servers == 1..ServerCount
Offsets == 0..(ServerMessageNum - 1)

\* One message slot for each offset of each server; there are two such pools.
PoolSize == MessageSize * ServerMessageNum * ServerCount

ServerSendBaseAddress == MessageSize * MaxClientNumber
ServerRecvBaseAddress == ServerSendBaseAddress + PoolSize
MetadataBaseAddress   == ServerRecvBaseAddress + PoolSize

\* Counted from the receive pool, not from the metadata after it.
DataBaseAddress == ServerRecvBaseAddress + MetadataSize

\* The pool is counted once.
DMFSTotalSize ==
  DataSize + MetadataSize + MessageSize * MaxClientNumber + PoolSize

\* getServerSendAddress (o is the caller's th2id), getServerRecvAddress and
\* getClientMessageAddress.
SlotOffset(n, o) == (n - 1) * MessageSize * ServerMessageNum + o * MessageSize
ServerSendAddress(n, o) == ServerSendBaseAddress + SlotOffset(n, o)

\* Mutant: the thread's offset is left out.
SharedRecvAddress(n, o) == ServerRecvBaseAddress + SlotOffset(n, 0)
ServerRecvAddress(n, o) == ServerRecvBaseAddress + SlotOffset(n, o)

\* Mutant: one mailbox too far.
NextMailbox(n) == (n - ServerCount) * MessageSize
ClientMessageAddress(n) == (n - ServerCount - 1) * MessageSize

\* Mutant: METADATA_SIZE is not added.
OffsetWithoutMetadata == MessageSize * MaxClientNumber + PoolSize

\* Client::Client.
DmfsDataOffset == MessageSize * MaxClientNumber + PoolSize + MetadataSize
=============================================================================
