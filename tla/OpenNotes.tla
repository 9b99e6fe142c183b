------------------------------- MODULE OpenNotes -------------------------------
(***************************************************************************)
(* The open-note bookkeeping of ScoreTrackBuilder (add_note, end_note).    *)
(* Every channel/pitch key has one direct slot; a note that starts while   *)
(* the slot is taken goes to an overflow queue.  The queues are linked     *)
(* lists threaded through one growing vector of entries, their headers     *)
(* are handed out per key and recycled through a free list.  The slot      *)
(* carries the start of its note when that fits, so that a note-off need   *)
(* not look at the note's row.                                             *)
(*                                                                         *)
(* A note is an opaque handle, `starts' maps a handle to the start in its  *)
(* row.  In the specification below notes are numbered; ScoreTrack uses    *)
(* the same actions with handles that name a group and a row.              *)
(*                                                                         *)
(* Positions are numbered from 1, and 0 stands for NO_OVERFLOW_QUEUE and   *)
(* NO_OPEN_NOTE.  `queued' is an auxiliary variable: no guard and no other *)
(* variable depends on it.                                                 *)
(***************************************************************************)
EXTENDS Integers, Sequences, FiniteSets

CONSTANTS
    Keys,       \* channel/pitch pairs
    U32Max,     \* u32::MAX
    Free        \* a direct slot with no note (NO_GROUP in open_groups)

VARIABLES
    slotNote,   \* key -> the note in the direct slot, or Free
    slotStart,  \* key -> the start packed beside it, U32Max for "look it up"
    queueOf,    \* key -> its overflow queue, or 0
    entries,    \* overflow notes: the note and the position of the next one
    queues,     \* overflow queue headers: head and tail positions
    freeQueues, \* the headers to be used again, a stack
    queued      \* auxiliary: key -> its waiting positions, oldest first

tracker == <<slotNote, slotStart, queueOf, entries, queues, freeQueues, queued>>

NoEntry == 0
NoQueue == 0
EmptyQueue == [head |-> NoEntry, tail |-> NoEntry]

TrackerInit ==
    /\ slotNote = [k \in Keys |-> Free]
    /\ slotStart = [k \in Keys |-> 0]
    /\ queueOf = [k \in Keys |-> NoQueue]
    /\ entries = <<>>
    /\ queues = <<>>
    /\ freeQueues = <<>>
    /\ queued = [k \in Keys |-> <<>>]

(* Mutant: a start of u32::MAX or more is packed as it is, truncated. *)
PackTruncated(time) == time % (U32Max + 1)

(* pack_open_note_state: a start that does not fit below u32::MAX becomes  *)
(* the marker u32::MAX.                                                    *)
Pack(time) == IF time < U32Max THEN time ELSE U32Max

(* open_note_start with its fallback to the row. *)
StartOf(key, starts) ==
    IF slotStart[key] # U32Max THEN slotStart[key] ELSE starts[slotNote[key]]

TakeSlot(key, note, time) ==
    /\ slotNote' = [slotNote EXCEPT ![key] = note]
    /\ slotStart' = [slotStart EXCEPT ![key] = Pack(time)]

ClearSlot(key) ==
    /\ slotNote' = [slotNote EXCEPT ![key] = Free]
    /\ slotStart' = [slotStart EXCEPT ![key] = 0]

--------------------------------------------------------------------------------
(* add_note, once the note has its row. *)

OpenDirect(key, note, time) ==
    /\ slotNote[key] = Free
    /\ TakeSlot(key, note, time)
    /\ UNCHANGED <<queueOf, entries, queues, freeQueues, queued>>

(* Mutant: the new entry is linked from the head of the queue, not its tail. *)
LinkAtHead(q, qs, note) ==
    LET index == Len(entries) + 1
        pushed == Append(entries, [note |-> note, next |-> NoEntry])
    IN  /\ entries' = IF qs[q].tail = NoEntry THEN pushed
                      ELSE [pushed EXCEPT ![qs[q].head].next = index]
        /\ queues' = [qs EXCEPT ![q] = [head |-> IF @.tail = NoEntry THEN index ELSE @.head,
                                        tail |-> index]]

(* The note becomes an entry, linked at the tail of queue q of headers qs. *)
Link(q, qs, note) ==
    LET index == Len(entries) + 1
        pushed == Append(entries, [note |-> note, next |-> NoEntry])
    IN  /\ entries' = IF qs[q].tail = NoEntry THEN pushed
                      ELSE [pushed EXCEPT ![qs[q].tail].next = index]
        /\ queues' = [qs EXCEPT ![q] = [head |-> IF @.tail = NoEntry THEN index ELSE @.head,
                                        tail |-> index]]

Enqueue(key, q, qs, note) ==
    /\ slotNote[key] # Free
    /\ Link(q, qs, note)
    /\ queued' = [queued EXCEPT ![key] = Append(@, Len(entries) + 1)]
    /\ UNCHANGED <<slotNote, slotStart>>

(* ensure_overflow_queue has three ways to find the queue of the key. *)
OpenInOwnQueue(key, note) ==
    /\ queueOf[key] # NoQueue
    /\ Enqueue(key, queueOf[key], queues, note)
    /\ UNCHANGED <<queueOf, freeQueues>>

(* Mutant: the recycled header is used but stays in the free list. *)
OpenInFreeQueueWithoutPop(key, note) ==
    /\ queueOf[key] = NoQueue
    /\ freeQueues # <<>>
    /\ LET q == freeQueues[Len(freeQueues)]
       IN  /\ queueOf' = [queueOf EXCEPT ![key] = q]
           /\ Enqueue(key, q, queues, note)
    /\ UNCHANGED freeQueues

OpenInFreeQueue(key, note) ==
    /\ queueOf[key] = NoQueue
    /\ freeQueues # <<>>
    /\ LET q == freeQueues[Len(freeQueues)]
       IN  /\ queueOf' = [queueOf EXCEPT ![key] = q]
           /\ Enqueue(key, q, queues, note)
    /\ freeQueues' = SubSeq(freeQueues, 1, Len(freeQueues) - 1)

(* Mutant: the index of the new header is taken after the push. *)
OpenInNewQueueLate(key, note) ==
    /\ queueOf[key] = NoQueue
    /\ freeQueues = <<>>
    /\ queueOf' = [queueOf EXCEPT ![key] = Len(queues) + 2]
    /\ Enqueue(key, Len(queues) + 1, Append(queues, EmptyQueue), note)
    /\ UNCHANGED freeQueues

OpenInNewQueue(key, note) ==
    /\ queueOf[key] = NoQueue
    /\ freeQueues = <<>>
    /\ queueOf' = [queueOf EXCEPT ![key] = Len(queues) + 1]
    /\ Enqueue(key, Len(queues) + 1, Append(queues, EmptyQueue), note)
    /\ UNCHANGED freeQueues

Open(key, note, time) ==
    \/ OpenDirect(key, note, time)
    \/ OpenInOwnQueue(key, note)
    \/ OpenInFreeQueue(key, note)
    \/ OpenInNewQueue(key, note)

--------------------------------------------------------------------------------
(* end_note, once the note of the slot is completed. *)

CloseWithoutQueue(key) ==
    /\ slotNote[key] # Free
    /\ queueOf[key] = NoQueue
    /\ ClearSlot(key)
    /\ UNCHANGED <<queueOf, entries, queues, freeQueues, queued>>

(* Mutant: the empty queue stays with the key when its last note ends. *)
CloseKeepingQueue(key) ==
    /\ slotNote[key] # Free
    /\ queueOf[key] # NoQueue
    /\ queues[queueOf[key]].head = NoEntry
    /\ ClearSlot(key)
    /\ UNCHANGED <<queueOf, entries, queues, freeQueues, queued>>

(* The last open note of the key gives its queue back. *)
CloseAndRelease(key) ==
    /\ slotNote[key] # Free
    /\ queueOf[key] # NoQueue
    /\ queues[queueOf[key]].head = NoEntry
    /\ ClearSlot(key)
    /\ queueOf' = [queueOf EXCEPT ![key] = NoQueue]
    /\ freeQueues' = Append(freeQueues, queueOf[key])
    /\ UNCHANGED <<entries, queues, queued>>

(* The oldest waiting note moves into the slot. *)
CloseAndPromote(key, starts) ==
    /\ slotNote[key] # Free
    /\ queueOf[key] # NoQueue
    /\ LET q == queueOf[key]
           next == entries[queues[q].head]
       IN  /\ queues[q].head # NoEntry
           /\ TakeSlot(key, next.note, starts[next.note])
           /\ queues' = [queues EXCEPT ![q] = [head |-> next.next,
                                               tail |-> IF next.next = NoEntry THEN NoEntry
                                                        ELSE @.tail]]
    /\ queued' = [queued EXCEPT ![key] = Tail(@)]
    /\ UNCHANGED <<queueOf, entries, freeQueues>>

Close(key, starts) ==
    \/ CloseWithoutQueue(key)
    \/ CloseAndRelease(key)
    \/ CloseAndPromote(key, starts)

--------------------------------------------------------------------------------
(* What must hold of the bookkeeping, whatever the notes N are. *)

Entry(N) == [note : N, next : 0..Len(entries)]
Header == [head : 0..Len(entries), tail : 0..Len(entries)]

(* Slots and entries hold notes, positions and headers exist. *)
TablesOK(N) ==
    /\ slotNote \in [Keys -> N \cup {Free}]
    /\ slotStart \in [Keys -> 0..U32Max]
    /\ entries \in Seq(Entry(N))
    /\ queues \in Seq(Header)
    /\ queueOf \in [Keys -> 0..Len(queues)]
    /\ freeQueues \in Seq(DOMAIN queues)
    /\ queued \in [Keys -> Seq(DOMAIN entries)]

(* The notes that sound at each key: the one in its slot, then the ones    *)
(* that wait, oldest first.                                                *)
Sounding == [key \in Keys |->
                IF slotNote[key] = Free THEN <<>>
                ELSE <<slotNote[key]>> \o
                     [i \in DOMAIN queued[key] |-> entries[queued[key][i]].note]]

(* The start beside a slot is the start in the note's row, unless it is    *)
(* the marker (pack_open_note_state).                                      *)
PackedStartsAgree(starts) ==
    \A key \in Keys : slotNote[key] # Free => StartOf(key, starts) = starts[slotNote[key]]

(* The entries form one list per key: from its head along `next' to its    *)
(* tail a key's queue visits exactly the notes that wait for it, oldest    *)
(* first, and a key without waiting notes has an empty queue or none.      *)
ListsAreQueues ==
    \A key \in Keys :
        LET at == queued[key]
            q == queueOf[key]
        IN  /\ at # <<>> => /\ q # NoQueue
                            /\ queues[q].head = at[1]
                            /\ queues[q].tail = at[Len(at)]
                            /\ entries[at[Len(at)]].next = NoEntry
            /\ at = <<>> /\ q # NoQueue => queues[q] = EmptyQueue
            /\ \A i \in 1..(Len(at) - 1) : entries[at[i]].next = at[i + 1]

(* Every header belongs to one key or to the free list, never to both or   *)
(* twice, and a free one is empty: the headers are never more than the     *)
(* keys, far below the u16 index they are given (ensure_overflow_queue).   *)
HeadersConserved ==
    /\ \A q \in DOMAIN queues :
          Cardinality({key \in Keys : queueOf[key] = q})
             + Cardinality({i \in DOMAIN freeQueues : freeQueues[i] = q}) = 1
    /\ \A i \in DOMAIN freeQueues : queues[freeQueues[i]] = EmptyQueue
    /\ Len(queues) <= Cardinality(Keys)

(* A key whose slot is free has no overflow queue: what add_note asserts   *)
(* (debug_assert_eq) before it takes the slot.                             *)
FreeSlotHasNoQueue == \A key \in Keys : slotNote[key] = Free => queueOf[key] = NoQueue

================================================================================
