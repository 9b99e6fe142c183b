---------------------------- MODULE TrackNotesProofs ---------------------------
(***************************************************************************)
(* For every finite set of keys, every width of a packed start and any     *)
(* number of notes: the open-note tables keep their types, their lists     *)
(* spell the queues, headers are neither lost nor shared, and the whole    *)
(* implements one first-in first-out queue per key (NoteFifo).             *)
(*                                                                         *)
(* First opening and closing a note, for any handles: what add_note and    *)
(* end_note do to the bookkeeping is to append the note to the queue of    *)
(* its key and to take the first one off, and the tables stay what they    *)
(* must be.  N is the set of notes that have a row, S their starts.  Both  *)
(* may grow when a note is opened (to N1 and S1), so they are parameters,  *)
(* and the invariant TablesInv(N, S) is used at two values of them.  It    *)
(* adds to what the runs check that a position waits once, for one key     *)
(* (WaitsOnce: a link written at the tail of one list touches no other     *)
(* list) and that headers have one owner (HeadersOwned).                   *)
(*                                                                         *)
(* Then a track, with the numbers of its notes for N and their starts for  *)
(* S.  The inductive invariant adds that no row starts after now           *)
(* (StartedBefore) and that the headers are not more than the keys         *)
(* (HeadersFit).  ScoreTrackProofs uses the first part for the tables of a *)
(* score track, whose notes are rows of its groups.                        *)
(***************************************************************************)
EXTENDS TrackNotes, SequenceTheorems, FiniteSetTheorems, TLAPS
WaitsOnce ==
    \A k1, k2 \in Keys : \A i \in DOMAIN queued[k1], j \in DOMAIN queued[k2] :
        queued[k1][i] = queued[k2][j] => k1 = k2 /\ i = j

OneKeyPerHeader ==
    \A k1, k2 \in Keys : queueOf[k1] = queueOf[k2] /\ queueOf[k1] # NoQueue => k1 = k2

FreeOnce ==
    /\ \A i, j \in DOMAIN freeQueues : freeQueues[i] = freeQueues[j] => i = j
    /\ \A k \in Keys : \A i \in DOMAIN freeQueues : queueOf[k] # freeQueues[i]
    /\ \A i \in DOMAIN freeQueues : queues[freeQueues[i]] = EmptyQueue

NoneLost ==
    \A q \in DOMAIN queues : \/ \E k \in Keys : queueOf[k] = q
                             \/ \E i \in DOMAIN freeQueues : freeQueues[i] = q

HeadersOwned == OneKeyPerHeader /\ FreeOnce /\ NoneLost

(* Notes are distinguished from a free slot, and start at a time.          *)
NotesOK(N, S) == U32Max \in Nat /\ Free \notin N /\ \A n \in N : S[n] \in Nat

TablesInv(N, S) ==
    /\ NotesOK(N, S) /\ TablesOK(N)
    /\ ListsAreQueues /\ FreeSlotHasNoQueue /\ WaitsOnce /\ HeadersOwned
    /\ PackedStartsAgree(S)

(* The notes of N are still there, with their starts.                      *)
Extend(N, S, N1, S1) == N \subseteq N1 /\ NotesOK(N1, S1) /\ \A n \in N : S1[n] = S[n]

--------------------------------------------------------------------------------
(* The types of the parts. *)

(* Lengths, domains and elements of the vectors.                           *)
LEMMA Types ==
    ASSUME NEW N, TablesOK(N)
    PROVE  /\ Len(entries) \in Nat /\ DOMAIN entries = 1..Len(entries)
           /\ Len(queues) \in Nat /\ DOMAIN queues = 1..Len(queues)
           /\ Len(freeQueues) \in Nat /\ DOMAIN freeQueues = 1..Len(freeQueues)
           /\ \A i \in 1..Len(entries) : entries[i] \in Entry(N)
           /\ \A q \in 1..Len(queues) : queues[q] \in Header
           /\ \A i \in 1..Len(freeQueues) : freeQueues[i] \in 1..Len(queues)
           /\ \A k \in Keys : queueOf[k] \in 0..Len(queues)
<1>1. entries \in Seq(Entry(N)) /\ queues \in Seq(Header)
      /\ freeQueues \in Seq(DOMAIN queues) /\ queueOf \in [Keys -> 0..Len(queues)]
  BY DEF TablesOK
<1>2. DOMAIN queues = 1..Len(queues)
  BY <1>1
<1>3. \A i \in 1..Len(queues) : queues[i] \in Header
  BY <1>1
<1>4. \A i \in 1..Len(entries) : entries[i] \in Entry(N)
  BY <1>1
<1>5. \A i \in 1..Len(freeQueues) : freeQueues[i] \in 1..Len(queues)
  <2>1. freeQueues \in Seq(1..Len(queues))
    BY <1>1, <1>2
  <2> QED BY <2>1
<1>6. /\ Len(entries) \in Nat /\ DOMAIN entries = 1..Len(entries)
      /\ Len(queues) \in Nat
      /\ Len(freeQueues) \in Nat /\ DOMAIN freeQueues = 1..Len(freeQueues)
  BY <1>1, LenProperties
<1>7. \A k \in Keys : queueOf[k] \in 0..Len(queues)
  BY <1>1
<1> QED BY <1>2, <1>3, <1>4, <1>5, <1>6, <1>7

(* The waiting positions of one key.                                       *)
LEMMA QueuedTypes ==
    ASSUME NEW N, TablesOK(N), NEW k \in Keys
    PROVE  /\ queued[k] \in Seq(1..Len(entries))
           /\ Len(queued[k]) \in Nat /\ DOMAIN queued[k] = 1..Len(queued[k])
           /\ \A i \in 1..Len(queued[k]) : queued[k][i] \in 1..Len(entries)
           /\ queued[k] # <<>> <=> Len(queued[k]) > 0
<1>1. entries \in Seq(Entry(N)) /\ queued \in [Keys -> Seq(DOMAIN entries)]
  BY DEF TablesOK
<1>2. queued[k] \in Seq(1..Len(entries))
  BY <1>1
<1> QED BY <1>2

(* What owning means for the free headers.                                 *)
LEMMA FreeFacts ==
    ASSUME HeadersOwned
    PROVE  /\ \A i, j \in DOMAIN freeQueues : freeQueues[i] = freeQueues[j] => i = j
           /\ \A k \in Keys : \A i \in DOMAIN freeQueues : queueOf[k] # freeQueues[i]
           /\ \A i \in DOMAIN freeQueues : queues[freeQueues[i]] = EmptyQueue
BY DEF HeadersOwned, FreeOnce

(* A start beside a slot is the start in the row, or says to look there.   *)
LEMMA PackedStart ==
    ASSUME U32Max \in Nat, NEW t \in Nat
    PROVE  Pack(t) \in 0..U32Max /\ (Pack(t) # U32Max => Pack(t) = t)
BY DEF Pack

--------------------------------------------------------------------------------
(* add_note behind a taken slot: what Enqueue does when q is the header of *)
(* the key in qs and the headers of the other keys are as they were.       *)

Last == Len(entries) + 1

EnqueueBy(key, q, qs, note) ==
    /\ qs \in Seq(Header) /\ q \in 1..Len(qs)
    /\ Len(queues) <= Len(qs)
    /\ queued[key] = <<>> => qs[q] = EmptyQueue
    /\ queued[key] # <<>> => qs[q].head = queued[key][1]
                             /\ qs[q].tail = queued[key][Len(queued[key])]
    /\ \A k \in Keys : k # key => queueOf[k] # q
    /\ \A p \in 1..Len(queues) : p # q => qs[p] = queues[p]
    /\ Enqueue(key, q, qs, note)
    /\ queueOf' = [queueOf EXCEPT ![key] = q]

(* What is written, in terms of the key's waiting positions.               *)
EnqueueDone(N1, key, q, qs, note) ==
    /\ entries' \in Seq([note : N1, next : 0..Last]) /\ Len(entries') = Last
    /\ entries'[Last] = [note |-> note, next |-> NoEntry]
    /\ \A i \in 1..Len(entries) : entries'[i].note = entries[i].note
    /\ \A i \in 1..Len(entries) :
          entries'[i].next = IF queued[key] # <<>> /\ i = queued[key][Len(queued[key])]
                             THEN Last ELSE entries[i].next
    /\ queues' \in Seq([head : 0..Last, tail : 0..Last])
    /\ DOMAIN queues' = DOMAIN qs /\ Len(queues') = Len(qs)
    /\ queues'[q] = [head |-> IF queued[key] = <<>> THEN Last ELSE queued[key][1],
                     tail |-> Last]
    /\ \A p \in DOMAIN qs : p # q => queues'[p] = qs[p]
    /\ queued' = [queued EXCEPT ![key] = Append(queued[key], Last)]
    /\ slotNote' = slotNote /\ slotStart' = slotStart

(* That is what an enqueue writes, given the invariant.                    *)
LEMMA EnqueueEffect ==
    ASSUME NEW N, NEW S, TablesInv(N, S), NEW N1, N \subseteq N1, NEW note \in N1,
           NEW key \in Keys, NEW q, NEW qs, EnqueueBy(key, q, qs, note)
    PROVE  EnqueueDone(N1, key, q, qs, note)
<1> DEFINE n == Len(entries)
           new == [note |-> note, next |-> NoEntry]
           pushed == Append(entries, new)
           tail == qs[q].tail
<1>1. /\ qs \in Seq(Header) /\ q \in 1..Len(qs)
      /\ Link(q, qs, note)
      /\ queued' = [queued EXCEPT ![key] = Append(queued[key], Last)]
      /\ slotNote' = slotNote /\ slotStart' = slotStart
  BY DEF EnqueueBy, Enqueue, Last
<1>2. entries \in Seq(Entry(N)) /\ n \in Nat
  BY DEF TablesInv, TablesOK
<1>4. /\ queued[key] = <<>> => tail = NoEntry /\ qs[q].head = NoEntry
      /\ queued[key] # <<>> => /\ tail = queued[key][Len(queued[key])] /\ tail \in 1..n
                               /\ qs[q].head = queued[key][1] /\ qs[q].head \in 1..n
  <2>1. CASE queued[key] = <<>>
    BY <2>1 DEF EnqueueBy, EmptyQueue
  <2>2. CASE queued[key] # <<>>
    <3>1. TablesOK(N)
      BY DEF TablesInv
    <3>2. /\ Len(queued[key]) \in 1..Len(queued[key]) /\ 1 \in 1..Len(queued[key])
          /\ \A i \in 1..Len(queued[key]) : queued[key][i] \in 1..n
      BY <2>2, <3>1, QueuedTypes
    <3> QED BY <2>2, <3>2 DEF EnqueueBy
  <2> QED BY <2>1, <2>2
<1>5. Len(pushed) = Last /\ pushed[Last] = new /\ \A i \in 1..n : pushed[i] = entries[i]
  BY <1>2 DEF Last
<1>6. \A i \in 1..Last : pushed[i].note \in N1 /\ pushed[i].next \in 0..Last
                         /\ pushed[i] = [note |-> pushed[i].note, next |-> pushed[i].next]
  <2>1. \A i \in 1..n : entries[i] \in [note : N, next : 0..n]
    <3>1. entries \in Seq([note : N, next : 0..n])
      BY <1>2 DEF Entry
    <3> QED BY <3>1, ElementOfSeq
  <2>2. new.note = note /\ new.next = 0 /\ new = [note |-> new.note, next |-> new.next]
    BY DEF NoEntry
  <2>3. \A i \in 1..n : pushed[i].note \in N1 /\ pushed[i].next \in 0..Last
                        /\ pushed[i] = [note |-> pushed[i].note, next |-> pushed[i].next]
    BY <1>2, <1>5, <2>1 DEF Last
  <2>4. pushed[Last].note \in N1 /\ pushed[Last].next \in 0..Last
        /\ pushed[Last] = [note |-> pushed[Last].note, next |-> pushed[Last].next]
    <3>1. 0 \in 0..Last
      BY <1>2 DEF Last
    <3>2. pushed[Last] = new
      BY <1>5
    <3> HIDE DEF pushed, new
    <3> QED BY <2>2, <3>1, <3>2
  <2>5. \A i \in 1..Last : i = Last \/ i \in 1..n
    BY <1>2 DEF Last
  <2> QED BY <2>3, <2>4, <2>5
<1>7. entries' = [i \in 1..Last |->
                    [note |-> pushed[i].note,
                     next |-> IF queued[key] # <<>> /\ i = tail THEN Last ELSE pushed[i].next]]
  <2>0. pushed = [i \in 1..Last |-> pushed[i]]
    BY <1>2 DEF Last
  <2> HIDE DEF pushed, tail
  <2>1. CASE queued[key] = <<>>
    <3>1. entries' = pushed
      BY <1>1, <1>4, <2>1 DEF Link, pushed, tail
    <3> QED BY <1>6, <2>0, <2>1, <3>1
  <2>2. CASE queued[key] # <<>>
    <3>1. tail # NoEntry /\ tail \in 1..Last
      BY <1>2, <1>4, <2>2 DEF NoEntry, Last
    <3>2. entries' = [pushed EXCEPT ![tail].next = Last]
      BY <1>1, <3>1 DEF Link, pushed, Last, tail
    <3>3. \A i \in 1..Last : i # tail => entries'[i] = pushed[i]
      BY <2>0, <3>2
    <3>4. entries'[tail] = [pushed[tail] EXCEPT !.next = Last]
      BY <2>0, <3>1, <3>2
    <3>5. entries'[tail] = [note |-> pushed[tail].note, next |-> Last]
      BY <1>6, <3>1, <3>4
    <3>6. entries' = [i \in 1..Last |-> entries'[i]]
      BY <2>0, <3>2
    <3> QED BY <1>6, <2>2, <3>3, <3>5, <3>6
  <2> QED BY <2>1, <2>2
<1>8. entries' \in Seq([note : N1, next : 0..Last]) /\ Len(entries') = Last
  <2> HIDE DEF pushed, tail
  <2>1. Last \in Nat /\ Last \in 0..Last
    BY <1>2 DEF Last
  <2>2. entries' \in [1..Last -> [note : N1, next : 0..Last]]
    BY <1>6, <1>7, <2>1
  <2> DEFINE E == [note : N1, next : 0..Last]
  <2> HIDE DEF E
  <2>3. Len(entries') = Last /\ entries' \in Seq(E)
    <3>1. entries' \in [1..Last -> E]
      BY <2>2 DEF E
    <3> QED BY <2>1, <3>1
  <2> QED BY <2>3 DEF E
<1>9. /\ queues' = [qs EXCEPT ![q] = [head |-> IF tail = NoEntry THEN Last ELSE qs[q].head,
                                      tail |-> Last]]
  BY <1>1 DEF Link, Last
<1>10. queues'[q] = [head |-> IF queued[key] = <<>> THEN Last ELSE queued[key][1], tail |-> Last]
  BY <1>1, <1>4, <1>9 DEF NoEntry
<1>11. queues' \in Seq([head : 0..Last, tail : 0..Last])
       /\ DOMAIN queues' = DOMAIN qs /\ Len(queues') = Len(qs)
       /\ \A p \in DOMAIN qs : p # q => queues'[p] = qs[p]
  <2> DEFINE H == [head : 0..Last, tail : 0..Last]
  <2>1. Header \subseteq H
    BY <1>2 DEF Header, Last
  <2>2. queues'[q] \in H
    BY <1>2, <1>4, <1>10 DEF Last
  <2> HIDE DEF H
  <2>3. qs \in Seq(H)
    BY <1>1, <2>1, SeqMonotonic
  <2>4. queues' = [qs EXCEPT ![q] = queues'[q]]
    BY <1>1, <1>9
  <2>6. queues' \in Seq(H) /\ Len(queues') = Len(qs)
       /\ \A p \in 1..Len(qs) : p # q => queues'[p] = qs[p]
    BY <1>1, <2>2, <2>3, <2>4, ExceptSeq
  <2>7. DOMAIN queues' = DOMAIN qs /\ DOMAIN qs = 1..Len(qs)
    BY <1>1, <2>4, LenProperties
  <2> QED BY <2>6, <2>7 DEF H
<1>12. entries'[Last] = new
  BY <1>2, <1>4, <1>5, <1>7 DEF Last, NoEntry
<1>13. ASSUME NEW i \in 1..n
       PROVE  /\ entries'[i].note = entries[i].note
              /\ entries'[i].next = IF queued[key] # <<>> /\ i = queued[key][Len(queued[key])]
                                    THEN Last ELSE entries[i].next
  BY <1>2, <1>4, <1>5, <1>7 DEF Last, NoEntry
<1> QED BY <1>1, <1>8, <1>10, <1>11, <1>12, <1>13 DEF EnqueueDone

(* The lists stay lists: the new position is at the end of the key's, and  *)
(* the entry that links to it is the last of that list alone.              *)
LEMMA EnqueueKeepsLists ==
    ASSUME NEW N, NEW S, TablesInv(N, S), NEW N1, N \subseteq N1, NEW note \in N1,
           NEW key \in Keys, NEW q, NEW qs, EnqueueBy(key, q, qs, note)
    PROVE  ListsAreQueues' /\ WaitsOnce'
<1> DEFINE at == queued[key]
           m == Len(queued[key])
<1>1. /\ \A i \in 1..Len(entries) :
            entries'[i].next = IF at # <<>> /\ i = at[m] THEN Last ELSE entries[i].next
      /\ entries'[Last].next = NoEntry
      /\ queues'[q] = [head |-> IF at = <<>> THEN Last ELSE at[1], tail |-> Last]
      /\ \A p \in DOMAIN qs : p # q => queues'[p] = qs[p]
      /\ queued' = [queued EXCEPT ![key] = Append(at, Last)]
  <2>1. EnqueueDone(N1, key, q, qs, note)
    BY EnqueueEffect
  <2> QED BY <2>1 DEF EnqueueDone
<1>2. /\ queueOf' = [queueOf EXCEPT ![key] = q] /\ q \in 1..Len(qs) /\ Len(queues) <= Len(qs)
      /\ \A k \in Keys : k # key => queueOf[k] # q
      /\ \A p \in 1..Len(queues) : p # q => qs[p] = queues[p]
      /\ qs \in Seq(Header)
  BY DEF EnqueueBy
<1>3. /\ TablesOK(N) /\ queued \in [Keys -> Seq(DOMAIN entries)]
      /\ queueOf \in [Keys -> 0..Len(queues)] /\ Len(entries) \in Nat /\ Len(queues) \in Nat
      /\ ListsAreQueues /\ WaitsOnce
  BY Types DEF TablesInv, TablesOK
<1>4. /\ m \in Nat /\ DOMAIN at = 1..m /\ \A i \in 1..m : at[i] \in 1..Len(entries)
      /\ at # <<>> <=> m > 0
      /\ at \in Seq(1..Len(entries))
  BY <1>3, QueuedTypes
<1>5. /\ queued'[key] = Append(at, Last)
      /\ queueOf'[key] = q
      /\ \A k \in Keys : k # key => queued'[k] = queued[k] /\ queueOf'[k] = queueOf[k]
  BY <1>1, <1>2, <1>3
<1>6. /\ Len(Append(at, Last)) = m + 1 /\ Append(at, Last)[m + 1] = Last
      /\ DOMAIN Append(at, Last) = 1..(m + 1)
      /\ \A i \in 1..m : Append(at, Last)[i] = at[i]
      /\ Append(at, Last) # <<>>
  <2> DEFINE list == Append(at, Last)
  <2>1. at \in Seq(Int) /\ Last \in Int
    BY <1>3, <1>4, SeqMonotonic DEF Last
  <2> HIDE DEF at
  <2>2. /\ list \in Seq(Int) /\ list # <<>> /\ Len(list) = m + 1 /\ list[m + 1] = Last
        /\ \A i \in 1..m : list[i] = at[i]
    BY <2>1, AppendProperties DEF at
  <2> QED BY <2>2
<1>7. \A k \in Keys : k # key => \A i \in DOMAIN queued[k] : at # <<>> => queued[k][i] # at[m]
  BY <1>3, <1>4 DEF WaitsOnce
<1> HIDE DEF at, m
<1>8. ListsAreQueues'
  <2> SUFFICES ASSUME NEW k \in Keys
      PROVE  LET list == queued'[k]
                 p == queueOf'[k]
             IN  /\ list # <<>> => /\ p # NoQueue
                                   /\ queues'[p].head = list[1]
                                   /\ queues'[p].tail = list[Len(list)]
                                   /\ entries'[list[Len(list)]].next = NoEntry
                 /\ list = <<>> /\ p # NoQueue => queues'[p] = EmptyQueue
                 /\ \A i \in 1..(Len(list) - 1) : entries'[list[i]].next = list[i + 1]
    BY DEF ListsAreQueues
  <2>1. CASE k = key
    <3>1. q # NoQueue
      BY <1>2 DEF NoQueue
    <3>2. queues'[q].tail = Append(at, Last)[m + 1]
      BY <1>1, <1>6
    <3>3. queues'[q].head = Append(at, Last)[1]
      BY <1>1, <1>4, <1>6
    <3>4. \A i \in 1..m : entries'[Append(at, Last)[i]].next = Append(at, Last)[i + 1]
      <4> SUFFICES ASSUME NEW i \in 1..m
                   PROVE  entries'[at[i]].next = Append(at, Last)[i + 1]
        BY <1>6
      <4>1. CASE i = m
        BY <1>1, <1>4, <1>6, <4>1
      <4>2. CASE i # m
        <5>1. i \in 1..(m - 1) /\ i + 1 \in 1..m
          BY <1>4, <4>2
        <5>2. entries[at[i]].next = at[i + 1]
          BY <1>3, <5>1 DEF ListsAreQueues, at, m
        <5>3. at[i] # at[m]
          <6>1. m \in DOMAIN queued[key] /\ i \in DOMAIN queued[key] /\ i # m
            BY <1>4, <4>2 DEF at
          <6> QED BY <1>3, <6>1 DEF WaitsOnce, at
        <5> QED BY <1>1, <1>4, <1>6, <5>1, <5>2, <5>3
      <4> QED BY <4>1, <4>2
    <3> DEFINE list == Append(at, Last)
    <3>5. queued'[k] = list /\ queueOf'[k] = q /\ Len(list) = m + 1 /\ list # <<>>
      BY <1>5, <1>6, <2>1
    <3>6. entries'[list[m + 1]].next = NoEntry
      BY <1>1, <1>6
    <3>7. (m + 1) - 1 = m
      BY <1>4
    <3>8. \A i \in 1..m : entries'[list[i]].next = list[i + 1]
      BY <3>4
    <3>9. queues'[q].tail = list[m + 1] /\ queues'[q].head = list[1]
      BY <3>2, <3>3
    <3> HIDE DEF list
    <3> QED BY <3>1, <3>5, <3>6, <3>7, <3>8, <3>9
  <2>2. CASE k # key
    <3> DEFINE list == queued[k]
               p == queueOf[k]
    <3>1. queued'[k] = list /\ queueOf'[k] = p
      BY <1>5, <2>2
    <3>2. /\ Len(list) \in Nat /\ DOMAIN list = 1..Len(list)
          /\ \A i \in 1..Len(list) : list[i] \in 1..Len(entries)
          /\ list # <<>> <=> Len(list) > 0
      BY <1>3, QueuedTypes
    <3>3. /\ list # <<>> => /\ p # NoQueue
                            /\ queues[p].head = list[1]
                            /\ queues[p].tail = list[Len(list)]
                            /\ entries[list[Len(list)]].next = NoEntry
          /\ list = <<>> /\ p # NoQueue => queues[p] = EmptyQueue
          /\ \A i \in 1..(Len(list) - 1) : entries[list[i]].next = list[i + 1]
      BY <1>3 DEF ListsAreQueues
    <3>4. p # NoQueue => queues'[p] = queues[p]
      <4>1. p \in 0..Len(queues) /\ p # q
        BY <1>2, <1>3, <2>2
      <4>2. Len(qs) \in Nat /\ DOMAIN qs = 1..Len(qs)
        BY <1>2, LenProperties
      <4> HIDE DEF p
      <4>3. p # NoQueue => p \in 1..Len(queues) /\ p \in DOMAIN qs
        BY <1>2, <1>3, <4>1, <4>2 DEF NoQueue
      <4>4. p # NoQueue => qs[p] = queues[p]
        BY <1>2, <4>1, <4>3
      <4> QED BY <1>1, <4>1, <4>3, <4>4
    <3>5. \A i \in 1..Len(list) : entries'[list[i]].next = entries[list[i]].next
      BY <1>1, <1>7, <2>2, <3>2
    <3> HIDE DEF list, p
    <3>6. list # <<>> => entries'[list[Len(list)]].next = NoEntry
      BY <3>2, <3>3, <3>5
    <3>7. \A i \in 1..(Len(list) - 1) : entries'[list[i]].next = list[i + 1]
      BY <3>2, <3>3, <3>5
    <3> QED BY <3>1, <3>3, <3>4, <3>6, <3>7
  <2> QED BY <2>1, <2>2
<1>9. WaitsOnce'
  <2> SUFFICES ASSUME NEW k1 \in Keys, NEW k2 \in Keys,
                      NEW i \in DOMAIN queued'[k1], NEW j \in DOMAIN queued'[k2],
                      queued'[k1][i] = queued'[k2][j]
               PROVE  k1 = k2 /\ i = j
    BY DEF WaitsOnce
  <2>1. \A k \in Keys : \A h \in DOMAIN queued'[k] :
            \/ h \in DOMAIN queued[k] /\ queued'[k][h] = queued[k][h] /\ queued'[k][h] # Last
            \/ k = key /\ h = m + 1 /\ queued'[k][h] = Last
    <3> SUFFICES ASSUME NEW k \in Keys, NEW h \in DOMAIN queued'[k]
                 PROVE  \/ h \in DOMAIN queued[k] /\ queued'[k][h] = queued[k][h] /\ queued'[k][h] # Last
                        \/ k = key /\ h = m + 1 /\ queued'[k][h] = Last
      OBVIOUS
    <3>1. /\ DOMAIN queued[k] = 1..Len(queued[k])
          /\ \A g \in 1..Len(queued[k]) : queued[k][g] \in 1..Len(entries)
      BY <1>3, QueuedTypes
    <3>2. \A g \in 1..Len(entries) : g # Last
      BY <1>3 DEF Last
    <3>3. CASE k # key
      BY <1>5, <3>1, <3>2, <3>3
    <3>4. CASE k = key
      <4>1. h \in 1..m \/ h = m + 1
        BY <1>4, <1>5, <1>6, <3>4
      <4> QED BY <1>4, <1>5, <1>6, <3>2, <3>4, <4>1 DEF at
    <3> QED BY <3>3, <3>4
  <2>2. CASE queued'[k1][i] = Last
    BY <2>1, <2>2
  <2>3. CASE queued'[k1][i] # Last
    <3>1. /\ i \in DOMAIN queued[k1] /\ queued'[k1][i] = queued[k1][i]
          /\ j \in DOMAIN queued[k2] /\ queued'[k2][j] = queued[k2][j]
      BY <2>1, <2>3
    <3>2. queued[k1][i] = queued[k2][j]
      BY <3>1
    <3>3. \A g \in DOMAIN queued[k1] : \A h \in DOMAIN queued[k2] :
              queued[k1][g] = queued[k2][h] => k1 = k2 /\ g = h
      BY <1>3 DEF WaitsOnce
    <3> QED BY <3>1, <3>2, <3>3
  <2> QED BY <2>2, <2>3
<1> QED BY <1>8, <1>9
(* The packed starts are untouched, and so are the rows they speak of.     *)
LEMMA EnqueueKeepsSlots ==
    ASSUME NEW N, NEW S, TablesInv(N, S), NEW N1, NEW S1, Extend(N, S, N1, S1), NEW note \in N1,
           NEW key \in Keys, NEW q, NEW qs, EnqueueBy(key, q, qs, note)
    PROVE  FreeSlotHasNoQueue' /\ PackedStartsAgree(S1)'
<1>1. slotNote' = slotNote /\ slotStart' = slotStart
  <2>1. EnqueueDone(N1, key, q, qs, note)
    BY EnqueueEffect DEF Extend
  <2> QED BY <2>1 DEF EnqueueDone
<1>2. slotNote[key] # Free /\ queueOf' = [queueOf EXCEPT ![key] = q]
  BY DEF EnqueueBy, Enqueue
<1>3. /\ slotNote \in [Keys -> N \cup {Free}] /\ queueOf \in [Keys -> 0..Len(queues)]
      /\ FreeSlotHasNoQueue /\ PackedStartsAgree(S)
  BY DEF TablesInv, TablesOK
<1>4. FreeSlotHasNoQueue'
  BY <1>1, <1>2, <1>3 DEF FreeSlotHasNoQueue
<1>5. ASSUME NEW k \in Keys, slotNote[k] # Free
      PROVE  StartOf(k, S1) = S1[slotNote[k]]
  <2>1. slotNote[k] \in N
    BY <1>3, <1>5
  <2>2. S1[slotNote[k]] = S[slotNote[k]]
    BY <2>1 DEF Extend
  <2> QED BY <1>3, <1>5, <2>2 DEF PackedStartsAgree, StartOf
<1>6. PackedStartsAgree(S1)'
  BY <1>1, <1>5 DEF PackedStartsAgree, StartOf
<1> QED BY <1>4, <1>6

(* The types of everything but the free list, which the cases below treat. *)
LEMMA EnqueueKeepsTypes ==
    ASSUME NEW N, NEW S, TablesInv(N, S), NEW N1, N \subseteq N1, NEW note \in N1,
           NEW key \in Keys, NEW q, NEW qs, EnqueueBy(key, q, qs, note),
           freeQueues' \in Seq(DOMAIN queues')
    PROVE  TablesOK(N1)'
<1>1. /\ entries' \in Seq([note : N1, next : 0..Last]) /\ Len(entries') = Last
      /\ queues' \in Seq([head : 0..Last, tail : 0..Last]) /\ DOMAIN queues' = DOMAIN qs
      /\ queued' = [queued EXCEPT ![key] = Append(queued[key], Last)]
      /\ slotNote' = slotNote /\ slotStart' = slotStart
  <2>1. EnqueueDone(N1, key, q, qs, note)
    BY EnqueueEffect
  <2> QED BY <2>1 DEF EnqueueDone
<1>2. /\ q \in 1..Len(qs) /\ Len(queues) <= Len(qs) /\ qs \in Seq(Header)
      /\ queueOf' = [queueOf EXCEPT ![key] = q]
  BY DEF EnqueueBy
<1>3. TablesOK(N)
  BY DEF TablesInv
<1>4. /\ Len(entries) \in Nat /\ Len(queues) \in Nat
      /\ DOMAIN entries = 1..Len(entries)
  BY <1>3, Types
<1>5. Len(qs) \in Nat /\ Len(queues') = Len(qs) /\ DOMAIN entries' = 1..Last
  BY <1>1, <1>2, LenProperties
<1>6. entries' \in Seq(Entry(N1)') /\ queues' \in Seq(Header')
  BY <1>1 DEF Entry, Header
<1>8. slotNote' \in [Keys -> N1 \cup {Free}] /\ slotStart' \in [Keys -> 0..U32Max]
  BY <1>1, <1>3 DEF TablesOK
<1>9. queueOf' \in [Keys -> 0..Len(queues')]
  <2>1. queueOf \in [Keys -> 0..Len(queues)]
    BY <1>3 DEF TablesOK
  <2>2. \A k \in Keys : queueOf'[k] \in 0..Len(qs)
    BY <1>2, <1>4, <1>5, <2>1
  <2> QED BY <1>2, <1>5, <2>1, <2>2
<1>10. queued' \in [Keys -> Seq(DOMAIN entries')]
  <2>1. queued \in [Keys -> Seq(1..Len(entries))]
    BY <1>3, <1>4 DEF TablesOK
  <2>2. Last \in 1..Last /\ 1..Len(entries) \subseteq 1..Last
    BY <1>4 DEF Last
  <2>3. \A k \in Keys : queued[k] \in Seq(1..Last)
    BY <2>1, <2>2, SeqMonotonic
  <2>4. Append(queued[key], Last) \in Seq(1..Last)
    BY <2>2, <2>3, AppendProperties
  <2> QED BY <1>1, <1>5, <2>1, <2>3, <2>4
<1> QED BY <1>6, <1>8, <1>9, <1>10 DEF TablesOK

(* The notes that wait for a key, as Sounding lists them.                  *)
Waiting(k) == [i \in DOMAIN queued[k] |-> entries[queued[k][i]].note]

(* The abstract queues, and the types of their parts.                      *)
LEMMA SoundingTypes ==
    ASSUME NEW N, TablesOK(N)
    PROVE  /\ Sounding = [k \in Keys |-> IF slotNote[k] = Free THEN <<>>
                                         ELSE <<slotNote[k]>> \o Waiting(k)]
           /\ \A k \in Keys : /\ Waiting(k) \in Seq(N)
                              /\ Len(Waiting(k)) = Len(queued[k])
                              /\ slotNote[k] # Free => slotNote[k] \in N
<1>1. Sounding = [k \in Keys |-> IF slotNote[k] = Free THEN <<>>
                                 ELSE <<slotNote[k]>> \o Waiting(k)]
  BY DEF Sounding, Waiting
<1>2. ASSUME NEW k \in Keys
      PROVE  Waiting(k) \in Seq(N) /\ Len(Waiting(k)) = Len(queued[k])
  <2>1. /\ Len(queued[k]) \in Nat /\ DOMAIN queued[k] = 1..Len(queued[k])
        /\ \A i \in 1..Len(queued[k]) : queued[k][i] \in 1..Len(entries)
    BY QueuedTypes
  <2>2. \A i \in 1..Len(entries) : entries[i] \in [note : N, next : 0..Len(entries)]
    BY Types DEF Entry
  <2>3. \A i \in 1..Len(queued[k]) : entries[queued[k][i]].note \in N
    BY <2>1, <2>2
  <2>4. Waiting(k) \in [1..Len(queued[k]) -> N]
    BY <2>1, <2>3 DEF Waiting
  <2> QED BY <2>1, <2>4
<1>3. \A k \in Keys : slotNote[k] # Free => slotNote[k] \in N
  BY DEF TablesOK
<1> QED BY <1>1, <1>2, <1>3

(* A waiting note is appended to the sounding notes of its key alone.      *)
LEMMA EnqueueSounds ==
    ASSUME NEW N, NEW S, TablesInv(N, S), NEW N1, N \subseteq N1, NEW note \in N1,
           NEW key \in Keys, NEW q, NEW qs, EnqueueBy(key, q, qs, note)
    PROVE  Sounding' = [Sounding EXCEPT ![key] = Append(Sounding[key], note)]
<1> DEFINE at == queued[key]
           m == Len(queued[key])
<1>1. /\ entries'[Last] = [note |-> note, next |-> NoEntry]
      /\ \A i \in 1..Len(entries) : entries'[i].note = entries[i].note
      /\ queued' = [queued EXCEPT ![key] = Append(at, Last)]
      /\ slotNote' = slotNote
  <2>1. EnqueueDone(N1, key, q, qs, note)
    BY EnqueueEffect
  <2> QED BY <2>1 DEF EnqueueDone
<1>2. TablesOK(N) /\ slotNote[key] # Free /\ queued \in [Keys -> Seq(DOMAIN entries)]
  BY DEF EnqueueBy, Enqueue, TablesInv, TablesOK
<1>3. /\ m \in Nat /\ DOMAIN at = 1..m /\ at \in Seq(1..Len(entries))
      /\ \A i \in 1..m : at[i] \in 1..Len(entries)
  BY <1>2, QueuedTypes
<1>4. ASSUME NEW k \in Keys, k # key
      PROVE  Waiting(k)' = Waiting(k)
  <2>1. queued'[k] = queued[k]
    BY <1>1, <1>2, <1>4
  <2>2. \A i \in DOMAIN queued[k] : queued[k][i] \in 1..Len(entries)
    BY <1>2, QueuedTypes
  <2> QED BY <1>1, <2>1, <2>2 DEF Waiting
<1>5. Waiting(key)' = Append(Waiting(key), note)
  <2>1. queued'[key] = Append(at, Last)
    BY <1>1, <1>2
  <2>2. /\ DOMAIN Append(at, Last) = 1..(m + 1) /\ Append(at, Last)[m + 1] = Last
        /\ \A i \in 1..m : Append(at, Last)[i] = at[i]
    BY <1>3
  <2> DEFINE list == Append(at, Last)
  <2> HIDE DEF list, at, m
  <2>3. Waiting(key)' = [i \in 1..(m + 1) |-> entries'[list[i]].note]
    BY <2>1, <2>2 DEF Waiting, list
  <2>4. Waiting(key) = [i \in 1..m |-> entries[at[i]].note]
    BY <1>3 DEF Waiting, at, m
  <2>5. \A i \in 1..(m + 1) : entries'[list[i]].note = IF i = m + 1 THEN note ELSE entries[at[i]].note
    <3> SUFFICES ASSUME NEW i \in 1..(m + 1)
                 PROVE  entries'[list[i]].note = IF i = m + 1 THEN note ELSE entries[at[i]].note
      OBVIOUS
    <3>1. CASE i = m + 1
      BY <1>1, <2>2, <3>1 DEF list
    <3>2. CASE i # m + 1
      <4>1. i \in 1..m
        BY <1>3, <3>2
      <4> QED BY <1>1, <1>3, <2>2, <3>2, <4>1 DEF list
    <3> QED BY <3>1, <3>2
  <2> DEFINE W == Waiting(key)
  <2>6. W \in Seq(N1) /\ Len(W) = m
    <3>1. W \in Seq(N) /\ Len(W) = m
      BY <1>2, SoundingTypes DEF m
    <3> HIDE DEF W
    <3> QED BY <3>1, SeqMonotonic
  <2>7. Append(W, note) = [i \in 1..(m + 1) |-> IF i = m + 1 THEN note ELSE W[i]]
    <3> HIDE DEF W
    <3>1. Len(Append(W, note)) = m + 1 /\ DOMAIN Append(W, note) = 1..(m + 1)
      BY <1>3, <2>6
    <3> DEFINE A == Append(W, note)
    <3>3. A \in Seq(N1) /\ A \in [1..Len(A) -> N1]
      BY <2>6, AppendProperties, LenProperties
    <3>4. \A i \in 1..(m + 1) : A[i] = IF i = m + 1 THEN note ELSE W[i]
      BY <1>3, <2>6
    <3> HIDE DEF A
    <3>5. A = [i \in 1..(m + 1) |-> A[i]]
      BY <3>1, <3>3 DEF A
    <3>6. A = [i \in 1..(m + 1) |-> IF i = m + 1 THEN note ELSE W[i]]
      BY <3>4, <3>5
    <3> QED BY <3>6 DEF A
  <2>8. \A i \in 1..(m + 1) : i = m + 1 \/ W[i] = entries[at[i]].note
    BY <1>3, <2>4
  <2> HIDE DEF W
  <2> QED BY <2>3, <2>5, <2>7, <2>8 DEF W
<1>6. <<slotNote[key]>> \o Append(Waiting(key), note) = Append(<<slotNote[key]>> \o Waiting(key), note)
  <2> DEFINE x == slotNote[key]
             W == Waiting(key)
  <2>1. W \in Seq(N1) /\ <<x>> \in Seq(N1) /\ note \in N1
    <3>1. W \in Seq(N) /\ x \in N
      BY <1>2, SoundingTypes
    <3> QED BY <3>1, SeqMonotonic
  <2> HIDE DEF W, x
  <2>2. Append(W, note) = W \o <<note>>
    BY <2>1, AppendIsConcat
  <2>3. Append(<<x>> \o W, note) = (<<x>> \o W) \o <<note>>
    BY <2>1, AppendIsConcat, ConcatProperties
  <2>4. <<note>> \in Seq(N1)
    BY <2>1
  <2>5. <<x>> \o Append(W, note) = Append(<<x>> \o W, note)
    BY SMTT(40), <2>1, <2>2, <2>3, <2>4, ConcatAssociative
  <2> QED BY <2>5 DEF W, x
<1>7. Sounding' = [k \in Keys |-> IF slotNote'[k] = Free THEN <<>>
                                  ELSE <<slotNote'[k]>> \o Waiting(k)']
  BY DEF Sounding, Waiting
<1>8. Sounding = [k \in Keys |-> IF slotNote[k] = Free THEN <<>>
                                 ELSE <<slotNote[k]>> \o Waiting(k)]
  BY <1>2, SoundingTypes
<1>9. Sounding[key] = <<slotNote[key]>> \o Waiting(key)
  BY <1>2, <1>8
<1>10. \A k \in Keys : Sounding'[k] = IF k = key THEN Append(Sounding[key], note) ELSE Sounding[k]
  BY <1>1, <1>2, <1>4, <1>5, <1>6, <1>7, <1>8, <1>9
<1> QED BY <1>7, <1>8, <1>10


--------------------------------------------------------------------------------
(* The three ways ensure_overflow_queue finds the header: each is an       *)
(* EnqueueBy, and each keeps the headers owned.                            *)

(* The key has a header already.                                           *)
LEMMA OwnQueue ==
    ASSUME NEW N, NEW S, TablesInv(N, S), NEW N1, N \subseteq N1, NEW note \in N1,
           NEW key \in Keys, OpenInOwnQueue(key, note)
    PROVE  /\ EnqueueBy(key, queueOf[key], queues, note)
           /\ freeQueues' \in Seq(DOMAIN queues')
           /\ HeadersOwned'
<1> DEFINE q == queueOf[key]
<1>1. /\ TablesOK(N) /\ ListsAreQueues /\ HeadersOwned
      /\ queues \in Seq(Header) /\ queueOf \in [Keys -> 0..Len(queues)]
      /\ freeQueues \in Seq(DOMAIN queues)
  BY DEF TablesInv, TablesOK
<1>2. /\ q # NoQueue /\ Enqueue(key, q, queues, note)
      /\ queueOf' = queueOf /\ freeQueues' = freeQueues
  BY DEF OpenInOwnQueue
<1>4. Len(queues) \in Nat /\ DOMAIN queues = 1..Len(queues) /\ q \in 1..Len(queues)
  BY <1>1, <1>2, Types DEF NoQueue
<1>5. \A k \in Keys : k # key => queueOf[k] # q
  BY <1>1, <1>2 DEF HeadersOwned, OneKeyPerHeader
<1>6. /\ queued[key] = <<>> => queues[q] = EmptyQueue
      /\ queued[key] # <<>> => queues[q].head = queued[key][1]
                               /\ queues[q].tail = queued[key][Len(queued[key])]
  BY <1>1, <1>2 DEF ListsAreQueues
<1>7. queueOf' = [queueOf EXCEPT ![key] = q]
  BY <1>1, <1>2
<1> HIDE DEF q
<1>8. EnqueueBy(key, q, queues, note)
  <2>1. Len(queues) <= Len(queues) /\ \A p \in 1..Len(queues) : p # q => queues[p] = queues[p]
    BY <1>4
  <2> QED BY <1>1, <1>2, <1>4, <1>5, <1>6, <1>7, <2>1 DEF EnqueueBy
<1>9. DOMAIN queues' = DOMAIN queues /\ \A p \in DOMAIN queues : p # q => queues'[p] = queues[p]
  <2>1. EnqueueDone(N1, key, q, queues, note)
    BY <1>8, EnqueueEffect
  <2> QED BY <2>1 DEF EnqueueDone
<1>10. FreeOnce'
  <2>1. \A i \in DOMAIN freeQueues : freeQueues[i] \in 1..Len(queues) /\ freeQueues[i] # q
    BY <1>1, Types DEF HeadersOwned, FreeOnce, q
  <2> QED BY <1>1, <1>2, <1>9, <2>1 DEF HeadersOwned, FreeOnce
<1>11. NoneLost' /\ OneKeyPerHeader'
  BY <1>1, <1>2, <1>9 DEF HeadersOwned, NoneLost, OneKeyPerHeader
<1> QED BY <1>1, <1>2, <1>8, <1>9, <1>10, <1>11 DEF HeadersOwned, q

(* The last free header is taken.                                          *)
LEMMA FreeQueue ==
    ASSUME NEW N, NEW S, TablesInv(N, S), NEW N1, N \subseteq N1, NEW note \in N1,
           NEW key \in Keys, OpenInFreeQueue(key, note)
    PROVE  /\ EnqueueBy(key, freeQueues[Len(freeQueues)], queues, note)
           /\ freeQueues' \in Seq(DOMAIN queues')
           /\ HeadersOwned'
<1> DEFINE L == Len(freeQueues)
           q == freeQueues[L]
<1>1. /\ TablesOK(N) /\ ListsAreQueues /\ HeadersOwned
      /\ queues \in Seq(Header) /\ queueOf \in [Keys -> 0..Len(queues)]
      /\ freeQueues \in Seq(DOMAIN queues)
  BY DEF TablesInv, TablesOK
<1>2. /\ queueOf[key] = NoQueue /\ freeQueues # <<>>
      /\ queueOf' = [queueOf EXCEPT ![key] = q]
      /\ Enqueue(key, q, queues, note)
      /\ freeQueues' = SubSeq(freeQueues, 1, L - 1)
  BY DEF OpenInFreeQueue
<1>4. /\ Len(queues) \in Nat /\ DOMAIN queues = 1..Len(queues)
      /\ L \in Nat /\ L > 0 /\ DOMAIN freeQueues = 1..L
      /\ \A i \in 1..L : freeQueues[i] \in 1..Len(queues)
  BY <1>1, <1>2, Types, EmptySeq
<1>5. q \in 1..Len(queues) /\ queues[q] = EmptyQueue /\ \A k \in Keys : queueOf[k] # q
  BY <1>1, <1>4 DEF HeadersOwned, FreeOnce
<1>6. queued[key] = <<>>
  BY <1>1, <1>2 DEF ListsAreQueues
<1>7. EnqueueBy(key, q, queues, note)
  BY <1>1, <1>2, <1>4, <1>5, <1>6 DEF EnqueueBy
<1>8. DOMAIN queues' = DOMAIN queues /\ \A p \in DOMAIN queues : p # q => queues'[p] = queues[p]
  <2>1. EnqueueDone(N1, key, q, queues, note)
    BY <1>7, EnqueueEffect
  <2> QED BY <2>1 DEF EnqueueDone
<1>9. /\ freeQueues' \in Seq(DOMAIN queues) /\ DOMAIN freeQueues' = 1..(L - 1)
      /\ \A i \in 1..(L - 1) : freeQueues'[i] = freeQueues[i] /\ i \in 1..L /\ i # L
  <2>1. \A i \in 1..(L - 1) : freeQueues[i] \in DOMAIN queues
    BY <1>4
  <2>2. /\ freeQueues' \in Seq(DOMAIN queues) /\ Len(freeQueues') = L - 1
        /\ \A i \in 1..(L - 1) : freeQueues'[i] = freeQueues[i]
    <3>1. /\ SubSeq(freeQueues, 1, L - 1) \in Seq(DOMAIN queues)
          /\ Len(SubSeq(freeQueues, 1, L - 1)) = IF 1 <= L - 1 THEN (L - 1) - 1 + 1 ELSE 0
          /\ \A i \in 1..((L - 1) - 1 + 1) : SubSeq(freeQueues, 1, L - 1)[i] = freeQueues[1 + i - 1]
      <4>1. 1 \in Int /\ L - 1 \in Int
        BY <1>4
      <4> HIDE DEF L
      <4> QED BY <2>1, <4>1, SubSeqProperties
    <3>2. (L - 1) - 1 + 1 = L - 1 /\ \A i \in 1..(L - 1) : 1 + i - 1 = i
      BY <1>4
    <3> HIDE DEF L
    <3> QED BY <1>2, <1>4, <3>1, <3>2
  <2>3. DOMAIN freeQueues' = 1..(L - 1)
    BY <2>2, LenProperties
  <2>4. \A i \in 1..(L - 1) : i \in 1..L /\ i # L
    <3> HIDE DEF L
    <3> QED BY <1>4
  <2> QED BY <2>2, <2>3, <2>4
<1>10. \A i \in 1..(L - 1) : freeQueues[i] # q
  <2>1. L \in DOMAIN freeQueues
    BY <1>4
  <2>2. \A i, j \in DOMAIN freeQueues : freeQueues[i] = freeQueues[j] => i = j
    BY <1>1, FreeFacts
  <2>3. \A i \in 1..(L - 1) : i \in DOMAIN freeQueues /\ i # L
    BY <1>4, <1>9
  <2> HIDE DEF L
  <2> QED BY <2>1, <2>2, <2>3
<1>11. queueOf'[key] = q /\ \A k \in Keys : k # key => queueOf'[k] = queueOf[k]
  BY <1>1, <1>2
<1> HIDE DEF q, L
<1>12. FreeOnce'
  <2>1. \A i, j \in DOMAIN freeQueues' : freeQueues'[i] = freeQueues'[j] => i = j
    <3>1. \A i \in DOMAIN freeQueues' : i \in DOMAIN freeQueues /\ freeQueues'[i] = freeQueues[i]
      BY <1>4, <1>9
    <3>2. \A i, j \in DOMAIN freeQueues : freeQueues[i] = freeQueues[j] => i = j
      BY <1>1, FreeFacts
    <3> QED BY <3>1, <3>2
  <2>2. \A k \in Keys : \A i \in DOMAIN freeQueues' : queueOf'[k] # freeQueues'[i]
    <3>1. /\ \A i \in DOMAIN freeQueues' : i \in DOMAIN freeQueues /\ freeQueues'[i] = freeQueues[i]
          /\ \A i \in DOMAIN freeQueues' : freeQueues[i] # q
      BY <1>4, <1>9, <1>10
    <3>2. \A k \in Keys : \A i \in DOMAIN freeQueues : queueOf[k] # freeQueues[i]
      BY <1>1, FreeFacts
    <3> QED BY <1>11, <3>1, <3>2
  <2>3. \A i \in DOMAIN freeQueues' : queues'[freeQueues'[i]] = EmptyQueue
    BY <1>1, <1>4, <1>8, <1>9, <1>10 DEF HeadersOwned, FreeOnce
  <2> QED BY <2>1, <2>2, <2>3 DEF FreeOnce
<1>13. OneKeyPerHeader'
  BY <1>1, <1>5, <1>11 DEF HeadersOwned, OneKeyPerHeader
<1>14. NoneLost'
  <2> SUFFICES ASSUME NEW p \in DOMAIN queues
               PROVE  \/ \E k \in Keys : queueOf'[k] = p
                      \/ \E i \in DOMAIN freeQueues' : freeQueues'[i] = p
    BY <1>8 DEF NoneLost
  <2>1. CASE p = q
    BY <1>11, <2>1
  <2>2. CASE p # q /\ \E k \in Keys : queueOf[k] = p
    <3>1. PICK k \in Keys : queueOf[k] = p
      BY <2>2
    <3>2. p # NoQueue
      BY <1>4 DEF NoQueue
    <3> QED BY <1>2, <1>11, <3>1, <3>2
  <2>3. CASE p # q /\ \E i \in DOMAIN freeQueues : freeQueues[i] = p
    <3>1. PICK i \in 1..L : freeQueues[i] = p
      BY <1>4, <2>3
    <3>2. i # L
      BY <2>3, <3>1 DEF q, L
    <3>3. i \in 1..(L - 1)
      BY <1>4, <3>2
    <3> QED BY <1>9, <3>1, <3>3
  <2> QED BY <1>1, <2>1, <2>2, <2>3 DEF HeadersOwned, NoneLost
<1> QED BY <1>1, <1>7, <1>8, <1>9, <1>12, <1>13, <1>14 DEF HeadersOwned, q, L

(* A header is made only when none is free, so the keys that own one, and  *)
(* the key without, are more than the headers.                             *)
LEMMA RoomForHeader ==
    ASSUME NEW N, NEW S, TablesInv(N, S), IsFiniteSet(Keys),
           NEW key \in Keys, queueOf[key] = NoQueue, freeQueues = <<>>
    PROVE  Len(queues) + 1 <= Cardinality(Keys)
<1> DEFINE Q == 1..Len(queues)
           others == Keys \ {key}
           owner == [q \in Q |-> CHOOSE k \in others : queueOf[k] = q]
<1>1. TablesOK(N) /\ HeadersOwned /\ Len(queues) \in Nat /\ DOMAIN queues = Q
  BY Types DEF TablesInv
<1>2. \A q \in Q : \E k \in others : queueOf[k] = q
  <2> SUFFICES ASSUME NEW q \in Q
               PROVE  \E k \in others : queueOf[k] = q
    OBVIOUS
  <2>1. DOMAIN freeQueues = {}
    <3>1. Len(freeQueues) = 0 /\ DOMAIN freeQueues = 1..Len(freeQueues)
      BY <1>1, Types
    <3> QED BY <3>1
  <2>2. \E k \in Keys : queueOf[k] = q
    BY <1>1, <2>1 DEF HeadersOwned, NoneLost
  <2>3. q # NoQueue
    BY DEF NoQueue
  <2> QED BY <2>2, <2>3
<1>3. \A q \in Q : owner[q] \in others /\ queueOf[owner[q]] = q
  BY <1>2
<1>4. owner \in Injection(Q, others)
  <2>1. owner \in [Q -> others]
    BY <1>3
  <2>2. \A a, b \in Q : owner[a] = owner[b] => a = b
    <3> HIDE DEF owner
    <3> QED BY <1>3
  <2> HIDE DEF owner, Q, others
  <2> QED BY <2>1, <2>2 DEF Injection, IsInjective
<1>5. IsFiniteSet(others) /\ Cardinality(others) = Cardinality(Keys) - 1
  BY FS_RemoveElement
<1>6. Cardinality(Q) <= Cardinality(others)
  <2> HIDE DEF owner, Q, others
  <2> QED BY <1>4, <1>5, FS_Injection
<1>7. Cardinality(Q) = Len(queues)
  <2>1. Cardinality(Q) = IF 1 > Len(queues) THEN 0 ELSE Len(queues) - 1 + 1
    BY SMTT(40), <1>1, FS_Interval
  <2> HIDE DEF Q
  <2> QED BY <1>1, <2>1
<1>8. Cardinality(Keys) \in Nat
  BY FS_CardinalityType
<1> HIDE DEF Q, others
<1> QED BY <1>1, <1>5, <1>6, <1>7, <1>8

(* A header is pushed.                                                     *)
LEMMA NewQueue ==
    ASSUME NEW N, NEW S, TablesInv(N, S), NEW N1, N \subseteq N1, NEW note \in N1,
           NEW key \in Keys, OpenInNewQueue(key, note)
    PROVE  /\ EnqueueBy(key, Len(queues) + 1, Append(queues, EmptyQueue), note)
           /\ freeQueues' \in Seq(DOMAIN queues')
           /\ HeadersOwned'
<1> DEFINE q == Len(queues) + 1
           qs == Append(queues, EmptyQueue)
<1>1. /\ TablesOK(N) /\ ListsAreQueues /\ HeadersOwned
      /\ queues \in Seq(Header) /\ queueOf \in [Keys -> 0..Len(queues)]
      /\ freeQueues \in Seq(DOMAIN queues)
  BY DEF TablesInv, TablesOK
<1>2. /\ queueOf[key] = NoQueue /\ freeQueues = <<>>
      /\ queueOf' = [queueOf EXCEPT ![key] = q]
      /\ Enqueue(key, q, qs, note)
      /\ freeQueues' = freeQueues
  BY DEF OpenInNewQueue
<1>4. /\ Len(queues) \in Nat /\ DOMAIN queues = 1..Len(queues) /\ Len(entries) \in Nat
      /\ \A k \in Keys : queueOf[k] \in 0..Len(queues)
  BY <1>1, Types
<1>5. EmptyQueue \in Header
  <2>1. 0 \in 0..Len(entries)
    BY <1>4
  <2> QED BY <2>1 DEF EmptyQueue, Header, NoEntry
<1>6. /\ qs \in Seq(Header) /\ Len(qs) = q /\ qs[q] = EmptyQueue
      /\ \A p \in 1..Len(queues) : qs[p] = queues[p]
  <2> DEFINE H == Header
  <2>1. queues \in Seq(H) /\ EmptyQueue \in H
    BY <1>1, <1>5
  <2> HIDE DEF H
  <2>2. /\ qs \in Seq(H) /\ Len(qs) = q /\ qs[q] = EmptyQueue
        /\ \A p \in 1..Len(queues) : qs[p] = queues[p]
    BY <2>1, AppendProperties
  <2> QED BY <2>2 DEF H
<1>7. queued[key] = <<>>
  BY <1>1, <1>2 DEF ListsAreQueues
<1>8. \A k \in Keys : queueOf[k] # q
  BY <1>4
<1>9. q \in 1..q /\ Len(queues) <= q
  BY <1>4
<1>10. DOMAIN qs = 1..q
  BY <1>6, LenProperties
<1> HIDE DEF q, qs
<1>11. EnqueueBy(key, q, qs, note)
  BY <1>2, <1>6, <1>7, <1>8, <1>9 DEF EnqueueBy
<1>12. DOMAIN queues' = DOMAIN qs /\ queues' \in Seq([head : 0..Last, tail : 0..Last])
  <2>1. EnqueueDone(N1, key, q, qs, note)
    BY <1>11, EnqueueEffect
  <2> QED BY <2>1 DEF EnqueueDone
<1>14. queueOf'[key] = q /\ \A k \in Keys : k # key => queueOf'[k] = queueOf[k]
  BY <1>1, <1>2
<1>15. DOMAIN freeQueues = {}
  <2>1. Len(freeQueues) = 0 /\ DOMAIN freeQueues = 1..Len(freeQueues)
    BY <1>1, <1>2, Types
  <2> QED BY <2>1
<1>16. freeQueues' \in Seq(DOMAIN queues') /\ FreeOnce'
  <2>1. <<>> \in Seq(DOMAIN queues')
    BY EmptySeq
  <2> QED BY <1>2, <1>15, <2>1 DEF FreeOnce
<1>17. OneKeyPerHeader'
  BY <1>1, <1>8, <1>14 DEF HeadersOwned, OneKeyPerHeader
<1>18. NoneLost'
  <2> SUFFICES ASSUME NEW p \in 1..q
               PROVE  \E k \in Keys : queueOf'[k] = p
    BY <1>10, <1>12 DEF NoneLost
  <2>1. CASE p = q
    BY <1>14, <2>1
  <2>2. CASE p # q
    <3>1. p \in DOMAIN queues /\ p # NoQueue
      BY <1>4, <2>2 DEF q, NoQueue
    <3>2. PICK k \in Keys : queueOf[k] = p
      BY <1>1, <1>15, <3>1 DEF HeadersOwned, NoneLost
    <3> QED BY <1>2, <1>14, <3>1, <3>2
  <2> QED BY <2>1, <2>2
<1> QED BY <1>11, <1>16, <1>17, <1>18 DEF HeadersOwned, q, qs

(* Whatever the header: the invariant is kept and the note sounds last.    *)
LEMMA EnqueueStep ==
    ASSUME NEW N, NEW S, TablesInv(N, S), NEW N1, NEW S1, Extend(N, S, N1, S1), NEW note \in N1,
           NEW key \in Keys, NEW q, NEW qs, EnqueueBy(key, q, qs, note),
           freeQueues' \in Seq(DOMAIN queues'), HeadersOwned'
    PROVE  /\ TablesInv(N1, S1)'
           /\ Sounding' = [Sounding EXCEPT ![key] = Append(Sounding[key], note)]
<1>0. N \subseteq N1 /\ NotesOK(N1, S1)
  BY DEF Extend
<1>1. TablesOK(N1)'
  BY <1>0, EnqueueKeepsTypes
<1>2. ListsAreQueues' /\ WaitsOnce'
  BY <1>0, EnqueueKeepsLists
<1>3. FreeSlotHasNoQueue' /\ PackedStartsAgree(S1)'
  BY EnqueueKeepsSlots
<1>4. Sounding' = [Sounding EXCEPT ![key] = Append(Sounding[key], note)]
  BY <1>0, EnqueueSounds
<1>5. NotesOK(N1, S1)'
  BY <1>0 DEF NotesOK
<1> QED BY <1>1, <1>2, <1>3, <1>4, <1>5 DEF TablesInv

(* The tables as they were do for more notes too. *)
LEMMA TablesKept ==
    ASSUME NEW N, NEW S, TablesInv(N, S), NEW N1, NEW S1, Extend(N, S, N1, S1), UNCHANGED tracker
    PROVE  TablesInv(N1, S1)' /\ Sounding' = Sounding
<1>1. /\ TablesOK(N) /\ ListsAreQueues /\ FreeSlotHasNoQueue /\ WaitsOnce
      /\ HeadersOwned /\ PackedStartsAgree(S)
  BY DEF TablesInv
<1>2. /\ slotNote' = slotNote /\ slotStart' = slotStart /\ queueOf' = queueOf
      /\ entries' = entries /\ queues' = queues /\ freeQueues' = freeQueues
      /\ queued' = queued
  BY DEF tracker
<1>3. N \subseteq N1 /\ NotesOK(N1, S1) /\ \A n \in N : S1[n] = S[n]
  BY DEF Extend
<1>4. TablesOK(N1)'
  <2>1. Entry(N) \subseteq Entry(N1)
    BY <1>3 DEF Entry
  <2> DEFINE E == Entry(N1)
  <2> HIDE DEF E
  <2>2. entries \in Seq(Entry(N)) /\ Entry(N) \subseteq E
    BY <1>1, <2>1 DEF TablesOK, E
  <2>3. entries \in Seq(E)
    BY <2>2, SeqMonotonic
  <2>4. entries' \in Seq(Entry(N1)')
    BY <1>2, <2>3 DEF E, Entry
  <2>5. slotNote' \in [Keys -> N1 \cup {Free}]
    BY <1>1, <1>2, <1>3 DEF TablesOK
  <2>6. queues' \in Seq(Header')
    BY <1>1, <1>2 DEF TablesOK, Header
  <2> QED BY <1>1, <1>2, <2>4, <2>5, <2>6 DEF TablesOK
<1>5. ListsAreQueues'
  BY <1>1, <1>2 DEF ListsAreQueues
<1>6. FreeSlotHasNoQueue' /\ WaitsOnce'
  BY <1>1, <1>2 DEF FreeSlotHasNoQueue, WaitsOnce
<1>7. HeadersOwned'
  <2>1. OneKeyPerHeader'
    BY <1>1, <1>2 DEF HeadersOwned, OneKeyPerHeader
  <2>2. FreeOnce'
    BY <1>1, <1>2 DEF HeadersOwned, FreeOnce
  <2>3. NoneLost'
    BY <1>1, <1>2 DEF HeadersOwned, NoneLost
  <2> QED BY <2>1, <2>2, <2>3 DEF HeadersOwned
<1>8. PackedStartsAgree(S1)'
  <2> SUFFICES ASSUME NEW k \in Keys, slotNote[k] # Free
               PROVE  StartOf(k, S1) = S1[slotNote[k]]
    BY <1>2 DEF PackedStartsAgree, StartOf
  <2>1. slotNote[k] \in N
    BY <1>1 DEF TablesOK
  <2> QED BY <1>1, <1>3, <2>1 DEF PackedStartsAgree, StartOf
<1>9. Sounding' = Sounding
  BY <1>2 DEF Sounding
<1>10. NotesOK(N1, S1)'
  BY <1>3 DEF NotesOK
<1> QED BY <1>4, <1>5, <1>6, <1>7, <1>8, <1>9, <1>10 DEF TablesInv

--------------------------------------------------------------------------------
(* add_note with a free slot. *)

(* The slot is taken; no note waited.                                      *)
LEMMA DirectStep ==
    ASSUME NEW N, NEW S, TablesInv(N, S), NEW N1, NEW S1, Extend(N, S, N1, S1), NEW note \in N1,
           NEW key \in Keys, OpenDirect(key, note, S1[note])
    PROVE  /\ TablesInv(N1, S1)'
           /\ Sounding' = [Sounding EXCEPT ![key] = Append(Sounding[key], note)]
<1> DEFINE time == S1[note]
<1>1. /\ TablesOK(N) /\ ListsAreQueues /\ FreeSlotHasNoQueue /\ WaitsOnce
      /\ HeadersOwned /\ PackedStartsAgree(S)
  BY DEF TablesInv
<1>2. /\ slotNote[key] = Free
      /\ slotNote' = [slotNote EXCEPT ![key] = note]
      /\ slotStart' = [slotStart EXCEPT ![key] = Pack(time)]
      /\ queueOf' = queueOf /\ entries' = entries /\ queues' = queues
      /\ freeQueues' = freeQueues /\ queued' = queued
  BY DEF OpenDirect, TakeSlot
<1>3. /\ N \subseteq N1 /\ NotesOK(N1, S1) /\ \A n \in N : S1[n] = S[n]
      /\ time \in Nat /\ note # Free /\ U32Max \in Nat
  BY DEF Extend, NotesOK
<1>4. slotNote \in [Keys -> N \cup {Free}] /\ slotStart \in [Keys -> 0..U32Max]
  BY <1>1 DEF TablesOK
<1>5. Pack(time) \in 0..U32Max /\ (Pack(time) # U32Max => Pack(time) = time)
  BY <1>3, PackedStart
<1> HIDE DEF time
<1>6. TablesOK(N1)'
  <2>1. Entry(N) \subseteq Entry(N1)
    BY <1>3 DEF Entry
  <2> DEFINE E == Entry(N1)
  <2> HIDE DEF E
  <2>2. entries \in Seq(Entry(N)) /\ Entry(N) \subseteq E
    BY <1>1, <2>1 DEF TablesOK, E
  <2>3. entries \in Seq(E)
    BY <2>2, SeqMonotonic
  <2>4. entries' \in Seq(Entry(N1)')
    BY <1>2, <2>3 DEF E, Entry
  <2>5. slotNote' \in [Keys -> N1 \cup {Free}] /\ slotStart' \in [Keys -> 0..U32Max]
    BY <1>2, <1>3, <1>4, <1>5
  <2>6. queues' \in Seq(Header')
    BY <1>1, <1>2 DEF TablesOK, Header
  <2> QED BY <1>1, <1>2, <2>4, <2>5, <2>6 DEF TablesOK
<1>7. ListsAreQueues' /\ WaitsOnce' /\ HeadersOwned'
  <2>1. ListsAreQueues'
    BY <1>1, <1>2 DEF ListsAreQueues
  <2>2. WaitsOnce'
    BY <1>1, <1>2 DEF WaitsOnce
  <2>3. OneKeyPerHeader'
    BY <1>1, <1>2 DEF HeadersOwned, OneKeyPerHeader
  <2>4. FreeOnce'
    BY <1>1, <1>2 DEF HeadersOwned, FreeOnce
  <2>5. NoneLost'
    BY <1>1, <1>2 DEF HeadersOwned, NoneLost
  <2> QED BY <2>1, <2>2, <2>3, <2>4, <2>5 DEF HeadersOwned
<1>8. FreeSlotHasNoQueue'
  BY <1>1, <1>2, <1>3, <1>4 DEF FreeSlotHasNoQueue
<1>9. PackedStartsAgree(S1)'
  <2> SUFFICES ASSUME NEW k \in Keys, slotNote'[k] # Free, slotStart'[k] # U32Max
               PROVE  slotStart'[k] = S1[slotNote'[k]]
    BY DEF PackedStartsAgree, StartOf
  <2>1. CASE k = key
    BY <1>2, <1>4, <1>5, <2>1 DEF time
  <2>2. CASE k # key
    <3>1. slotNote'[k] = slotNote[k] /\ slotStart'[k] = slotStart[k] /\ slotNote[k] \in N
      BY <1>2, <1>4, <2>2
    <3> QED BY <1>1, <1>3, <3>1 DEF PackedStartsAgree, StartOf
  <2> QED BY <2>1, <2>2
<1>10. queued[key] = <<>>
  BY <1>1, <1>2 DEF FreeSlotHasNoQueue, ListsAreQueues
<1>11. Sounding' = [Sounding EXCEPT ![key] = Append(Sounding[key], note)]
  <2>1. \A k \in Keys : Waiting(k)' = Waiting(k)
    BY <1>2 DEF Waiting
  <2>2. Waiting(key) = <<>>
    <3>1. Waiting(key) \in Seq(N) /\ Len(Waiting(key)) = Len(queued[key])
      BY <1>1, SoundingTypes
    <3>2. Len(queued[key]) = 0
      BY <1>10
    <3> QED BY <3>1, <3>2, EmptySeq
  <2>3. Sounding = [k \in Keys |-> IF slotNote[k] = Free THEN <<>> ELSE <<slotNote[k]>> \o Waiting(k)]
    BY <1>1, SoundingTypes
  <2>4. Sounding' = [k \in Keys |-> IF slotNote'[k] = Free THEN <<>>
                                    ELSE <<slotNote'[k]>> \o Waiting(k)']
    BY DEF Sounding, Waiting
  <2>5. <<note>> \o <<>> = <<note>> /\ Append(<<>>, note) = <<note>>
    BY ConcatEmptySeq
  <2>6. Sounding[key] = <<>>
    BY <1>2, <2>3
  <2>7. \A k \in Keys : Sounding'[k] = IF k = key THEN <<note>> ELSE Sounding[k]
    BY <1>2, <1>3, <1>4, <2>1, <2>2, <2>3, <2>4, <2>5
  <2> QED BY <2>3, <2>4, <2>5, <2>6, <2>7
<1>12. NotesOK(N1, S1)'
  BY <1>3 DEF NotesOK
<1> QED BY <1>6, <1>7, <1>8, <1>9, <1>11, <1>12 DEF TablesInv

(* Every note-on. *)
LEMMA OpenStep ==
    ASSUME NEW N, NEW S, TablesInv(N, S), NEW N1, NEW S1, Extend(N, S, N1, S1), NEW note \in N1,
           NEW key \in Keys, Open(key, note, S1[note])
    PROVE  /\ TablesInv(N1, S1)'
           /\ Sounding' = [Sounding EXCEPT ![key] = Append(Sounding[key], note)]
<1>0. N \subseteq N1
  BY DEF Extend
<1>1. \/ OpenDirect(key, note, S1[note]) \/ OpenInOwnQueue(key, note)
      \/ OpenInFreeQueue(key, note) \/ OpenInNewQueue(key, note)
  BY DEF Open
<1>2. CASE OpenDirect(key, note, S1[note])
  BY <1>2, DirectStep
<1>3. CASE OpenInOwnQueue(key, note)
  BY <1>0, <1>3, OwnQueue, EnqueueStep
<1>4. CASE OpenInFreeQueue(key, note)
  BY <1>0, <1>4, FreeQueue, EnqueueStep
<1>5. CASE OpenInNewQueue(key, note)
  BY <1>0, <1>5, NewQueue, EnqueueStep
<1> QED BY <1>1, <1>2, <1>3, <1>4, <1>5

(* Opening a note never makes more headers than there are keys.            *)
LEMMA OpenKeepsRoom ==
    ASSUME NEW N, NEW S, TablesInv(N, S), IsFiniteSet(Keys), Len(queues) <= Cardinality(Keys),
           NEW N1, NEW S1, Extend(N, S, N1, S1), NEW note \in N1,
           NEW key \in Keys, Open(key, note, S1[note])
    PROVE  Len(queues') <= Cardinality(Keys)
<1>0. N \subseteq N1
  BY DEF Extend
<1>1. CASE OpenDirect(key, note, S1[note])
  BY <1>1 DEF OpenDirect
<1>2. CASE OpenInOwnQueue(key, note)
  <2>1. EnqueueDone(N1, key, queueOf[key], queues, note)
    BY <1>0, <1>2, OwnQueue, EnqueueEffect
  <2> QED BY <2>1 DEF EnqueueDone
<1>3. CASE OpenInFreeQueue(key, note)
  <2>1. EnqueueDone(N1, key, freeQueues[Len(freeQueues)], queues, note)
    BY <1>0, <1>3, FreeQueue, EnqueueEffect
  <2> QED BY <2>1 DEF EnqueueDone
<1>4. CASE OpenInNewQueue(key, note)
  <2>1. EnqueueDone(N1, key, Len(queues) + 1, Append(queues, EmptyQueue), note)
    BY <1>0, <1>4, NewQueue, EnqueueEffect
  <2>2. Len(queues') = Len(Append(queues, EmptyQueue))
    BY <2>1 DEF EnqueueDone
  <2>3. queues \in Seq(Header) /\ Len(entries) \in Nat
    BY Types DEF TablesInv, TablesOK
  <2>4. EmptyQueue \in Header
    BY <2>3 DEF EmptyQueue, Header, NoEntry
  <2> DEFINE H == Header
  <2> HIDE DEF H
  <2>5. queues \in Seq(H) /\ EmptyQueue \in H
    BY <2>3, <2>4 DEF H
  <2>6. Len(Append(queues, EmptyQueue)) = Len(queues) + 1
    BY <2>5, AppendProperties
  <2>7. Len(queues) + 1 <= Cardinality(Keys)
    BY <1>4, RoomForHeader DEF OpenInNewQueue
  <2> QED BY <2>2, <2>6, <2>7
<1> QED BY <1>1, <1>2, <1>3, <1>4 DEF Open

--------------------------------------------------------------------------------
(* end_note. *)

(* What ends is the first of the notes that sound, with its row's start.   *)
LEMMA ClosedNote ==
    ASSUME NEW N, NEW S, TablesInv(N, S), NEW key \in Keys, Close(key, S)
    PROVE  /\ slotNote[key] \in N /\ slotNote[key] # Free
           /\ StartOf(key, S) = S[slotNote[key]]
           /\ Sounding[key] = <<slotNote[key]>> \o Waiting(key)
           /\ Waiting(key) \in Seq(N)
           /\ Sounding[key] # <<>> /\ Head(Sounding[key]) = slotNote[key]
           /\ Tail(Sounding[key]) = Waiting(key)
<1> DEFINE x == slotNote[key]
           W == Waiting(key)
<1>1. TablesOK(N) /\ PackedStartsAgree(S)
  BY DEF TablesInv
<1>2. x # Free
  BY DEF Close, CloseWithoutQueue, CloseAndRelease, CloseAndPromote
<1>3. x \in N /\ W \in Seq(N) /\ Sounding[key] = <<x>> \o W
  BY <1>1, <1>2, SoundingTypes
<1>4. StartOf(key, S) = S[x]
  BY <1>1, <1>2 DEF PackedStartsAgree
<1> HIDE DEF x, W
<1>5. (<<x>> \o W) # <<>> /\ Head(<<x>> \o W) = x /\ Tail(<<x>> \o W) = W
  BY SMTT(40), <1>3
<1> QED BY <1>2, <1>3, <1>4, <1>5 DEF x, W

(* A slot that is emptied had no note waiting behind it.                   *)
LEMMA SlotEmptied ==
    ASSUME NEW N, NEW S, TablesInv(N, S), NEW key \in Keys, Close(key, S), queued[key] = <<>>,
           slotNote' = [slotNote EXCEPT ![key] = Free],
           slotStart' = [slotStart EXCEPT ![key] = 0],
           entries' = entries, queued' = queued
    PROVE  /\ slotNote' \in [Keys -> N \cup {Free}] /\ slotStart' \in [Keys -> 0..U32Max]
           /\ PackedStartsAgree(S)'
           /\ Sounding' = [Sounding EXCEPT ![key] = Tail(Sounding[key])]
<1>1. TablesOK(N) /\ PackedStartsAgree(S) /\ U32Max \in Nat
  BY DEF TablesInv, NotesOK
<1>2. /\ Sounding[key] = <<slotNote[key]>> \o Waiting(key) /\ Waiting(key) \in Seq(N)
      /\ Tail(Sounding[key]) = Waiting(key)
  BY ClosedNote
<1>3. slotNote \in [Keys -> N \cup {Free}] /\ slotStart \in [Keys -> 0..U32Max]
  BY <1>1 DEF TablesOK
<1>4. slotNote' \in [Keys -> N \cup {Free}] /\ slotStart' \in [Keys -> 0..U32Max]
  <2>1. 0 \in 0..U32Max
    BY <1>1
  <2> QED BY <1>3, <2>1
<1>5. \A k \in Keys : /\ k = key => slotNote'[k] = Free
                      /\ k # key => slotNote'[k] = slotNote[k] /\ slotStart'[k] = slotStart[k]
  BY <1>3
<1>6. PackedStartsAgree(S)'
  BY <1>1, <1>5 DEF PackedStartsAgree, StartOf
<1>7. Sounding = [k \in Keys |-> IF slotNote[k] = Free THEN <<>> ELSE <<slotNote[k]>> \o Waiting(k)]
  BY <1>1, SoundingTypes
<1>8. Sounding' = [k \in Keys |-> IF slotNote'[k] = Free THEN <<>>
                                  ELSE <<slotNote'[k]>> \o Waiting(k)']
  BY DEF Sounding, Waiting
<1>9. \A k \in Keys : Waiting(k)' = Waiting(k)
  BY DEF Waiting
<1>10. Waiting(key) = <<>>
  <2>1. Waiting(key) \in Seq(N) /\ Len(Waiting(key)) = Len(queued[key])
    BY <1>1, SoundingTypes
  <2>2. Len(queued[key]) = 0
    OBVIOUS
  <2> QED BY <2>1, <2>2, EmptySeq
<1>11. \A k \in Keys : Sounding'[k] = IF k = key THEN Tail(Sounding[key]) ELSE Sounding[k]
  BY <1>2, <1>5, <1>7, <1>8, <1>9, <1>10
<1>12. Sounding' = [Sounding EXCEPT ![key] = Tail(Sounding[key])]
  BY <1>7, <1>8, <1>11
<1> QED BY <1>4, <1>6, <1>12

(* The last note of a key that never had a queue.                          *)
LEMMA WithoutQueueStep ==
    ASSUME NEW N, NEW S, TablesInv(N, S), NEW key \in Keys, CloseWithoutQueue(key)
    PROVE  /\ TablesInv(N, S)' /\ Len(queues') = Len(queues)
           /\ Sounding' = [Sounding EXCEPT ![key] = Tail(Sounding[key])]
<1>1. /\ TablesOK(N) /\ ListsAreQueues /\ FreeSlotHasNoQueue /\ WaitsOnce /\ HeadersOwned
      /\ NotesOK(N, S)
  BY DEF TablesInv
<1>2. /\ queueOf[key] = NoQueue
      /\ slotNote' = [slotNote EXCEPT ![key] = Free]
      /\ slotStart' = [slotStart EXCEPT ![key] = 0]
      /\ queueOf' = queueOf /\ entries' = entries /\ queues' = queues
      /\ freeQueues' = freeQueues /\ queued' = queued
  BY DEF CloseWithoutQueue, ClearSlot
<1>3. queued[key] = <<>>
  BY <1>1, <1>2 DEF ListsAreQueues
<1>4. /\ slotNote' \in [Keys -> N \cup {Free}] /\ slotStart' \in [Keys -> 0..U32Max]
      /\ PackedStartsAgree(S)'
      /\ Sounding' = [Sounding EXCEPT ![key] = Tail(Sounding[key])]
  <2>1. Close(key, S)
    BY DEF Close
  <2> QED BY <1>2, <1>3, <2>1, SlotEmptied
<1>6. Entry(N)' = Entry(N) /\ Header' = Header
  BY <1>2 DEF Entry, Header
<1>7. TablesOK(N)'
  BY <1>1, <1>2, <1>4, <1>6 DEF TablesOK
<1>8. ListsAreQueues' /\ WaitsOnce' /\ HeadersOwned'
  <2>1. ListsAreQueues'
    BY <1>1, <1>2 DEF ListsAreQueues
  <2>2. WaitsOnce'
    BY <1>1, <1>2 DEF WaitsOnce
  <2>3. OneKeyPerHeader'
    BY <1>1, <1>2 DEF HeadersOwned, OneKeyPerHeader
  <2>4. FreeOnce'
    BY <1>1, <1>2 DEF HeadersOwned, FreeOnce
  <2>5. NoneLost'
    BY <1>1, <1>2 DEF HeadersOwned, NoneLost
  <2> QED BY <2>1, <2>2, <2>3, <2>4, <2>5 DEF HeadersOwned
<1>9. FreeSlotHasNoQueue'
  <2>1. slotNote \in [Keys -> N \cup {Free}]
    BY <1>1 DEF TablesOK
  <2> QED BY <1>1, <1>2, <2>1 DEF FreeSlotHasNoQueue
<1>10. NotesOK(N, S)'
  BY <1>1 DEF NotesOK
<1> QED BY <1>2, <1>4, <1>7, <1>8, <1>9, <1>10 DEF TablesInv

(* The last note of a key gives its header to the free list.               *)
LEMMA ReleaseStep ==
    ASSUME NEW N, NEW S, TablesInv(N, S), NEW key \in Keys, CloseAndRelease(key)
    PROVE  /\ TablesInv(N, S)' /\ Len(queues') = Len(queues)
           /\ Sounding' = [Sounding EXCEPT ![key] = Tail(Sounding[key])]
<1> DEFINE q == queueOf[key]
           L == Len(freeQueues)
<1>1. /\ TablesOK(N) /\ ListsAreQueues /\ FreeSlotHasNoQueue /\ WaitsOnce /\ HeadersOwned
      /\ NotesOK(N, S)
      /\ freeQueues \in Seq(DOMAIN queues) /\ queueOf \in [Keys -> 0..Len(queues)]
      /\ slotNote \in [Keys -> N \cup {Free}]
  BY DEF TablesInv, TablesOK
<1>2. /\ q # NoQueue /\ queues[q].head = NoEntry
      /\ slotNote' = [slotNote EXCEPT ![key] = Free]
      /\ slotStart' = [slotStart EXCEPT ![key] = 0]
      /\ queueOf' = [queueOf EXCEPT ![key] = NoQueue]
      /\ freeQueues' = Append(freeQueues, q)
      /\ entries' = entries /\ queues' = queues /\ queued' = queued
  BY DEF CloseAndRelease, ClearSlot
<1>3. queued[key] = <<>> /\ queues[q] = EmptyQueue
  <2>1. queued[key] # <<>> => queues[q].head \in 1..Len(entries)
    <3>1. queued[key] # <<>> => 1 \in 1..Len(queued[key])
      BY <1>1, QueuedTypes
    <3> QED BY <1>1, <3>1, QueuedTypes DEF ListsAreQueues
  <2>2. queued[key] = <<>>
    BY <1>2, <2>1 DEF NoEntry
  <2> QED BY <1>1, <1>2, <2>2 DEF ListsAreQueues
<1>4. /\ slotNote' \in [Keys -> N \cup {Free}] /\ slotStart' \in [Keys -> 0..U32Max]
      /\ PackedStartsAgree(S)'
      /\ Sounding' = [Sounding EXCEPT ![key] = Tail(Sounding[key])]
  <2>1. Close(key, S)
    BY DEF Close
  <2> QED BY <1>2, <1>3, <2>1, SlotEmptied
<1>6. Entry(N)' = Entry(N) /\ Header' = Header
  BY <1>2 DEF Entry, Header
<1>7. /\ Len(queues) \in Nat /\ DOMAIN queues = 1..Len(queues) /\ q \in DOMAIN queues
      /\ L \in Nat /\ DOMAIN freeQueues = 1..L
  BY <1>1, <1>2, Types DEF NoQueue
<1>8. /\ freeQueues' \in Seq(DOMAIN queues) /\ DOMAIN freeQueues' = 1..(L + 1)
      /\ freeQueues'[L + 1] = q /\ \A i \in 1..L : freeQueues'[i] = freeQueues[i]
  <2> DEFINE D == DOMAIN queues
  <2>1. q \in D /\ freeQueues \in Seq(D)
    BY <1>1, <1>7
  <2> HIDE DEF D, q
  <2>2. /\ freeQueues' \in Seq(D) /\ Len(freeQueues') = L + 1
        /\ freeQueues'[L + 1] = q /\ \A i \in 1..L : freeQueues'[i] = freeQueues[i]
    BY <1>2, <2>1, AppendProperties
  <2>3. DOMAIN freeQueues' = 1..(L + 1)
    BY <2>2, LenProperties
  <2> QED BY <2>2, <2>3 DEF D
<1>9. queueOf'[key] = NoQueue /\ \A k \in Keys : k # key => queueOf'[k] = queueOf[k]
  BY <1>1, <1>2
<1>10. TablesOK(N)'
  <2>1. queueOf' \in [Keys -> 0..Len(queues)]
    <3>1. NoQueue \in 0..Len(queues)
      BY <1>7 DEF NoQueue
    <3> QED BY <1>1, <1>2, <3>1
  <2> QED BY <1>1, <1>2, <1>4, <1>6, <1>8, <2>1 DEF TablesOK
<1>11. ListsAreQueues'
  <2>1. \A k \in Keys : k # key => queueOf'[k] = queueOf[k]
    BY <1>9
  <2> QED BY <1>1, <1>2, <1>3, <1>9, <2>1 DEF ListsAreQueues
<1>12. WaitsOnce'
  BY <1>1, <1>2 DEF WaitsOnce
<1>13. \A k \in Keys : k # key => queueOf[k] # q
  BY <1>1, <1>2 DEF HeadersOwned, OneKeyPerHeader
<1>14. \A i \in 1..L : freeQueues[i] # q
  BY <1>1, <1>7 DEF HeadersOwned, FreeOnce
<1> HIDE DEF q, L
<1>15. FreeOnce'
  <2>1. \A i \in DOMAIN freeQueues' : \/ i \in DOMAIN freeQueues /\ freeQueues'[i] = freeQueues[i]
                                                                 /\ freeQueues'[i] # q
                                      \/ i = L + 1 /\ freeQueues'[i] = q
    BY <1>7, <1>8, <1>14
  <2>2. /\ \A i, j \in DOMAIN freeQueues : freeQueues[i] = freeQueues[j] => i = j
        /\ \A k \in Keys : \A i \in DOMAIN freeQueues : queueOf[k] # freeQueues[i]
        /\ \A i \in DOMAIN freeQueues : queues[freeQueues[i]] = EmptyQueue
    BY <1>1 DEF HeadersOwned, FreeOnce
  <2>3. \A i, j \in DOMAIN freeQueues' : freeQueues'[i] = freeQueues'[j] => i = j
    BY <2>1, <2>2
  <2>4. \A k \in Keys : \A i \in DOMAIN freeQueues' : queueOf'[k] # freeQueues'[i]
    <3> SUFFICES ASSUME NEW k \in Keys, NEW i \in DOMAIN freeQueues'
                 PROVE  queueOf'[k] # freeQueues'[i]
      OBVIOUS
    <3>1. CASE k = key
      <4>1. freeQueues'[i] \in DOMAIN queues
        <5>1. i = L + 1 \/ (i \in 1..L /\ freeQueues[i] \in 1..Len(queues))
          BY SMTT(40), <1>1, <1>7, <1>8, Types DEF L
        <5> QED BY <1>7, <1>8, <5>1
      <4>2. freeQueues'[i] # NoQueue
        BY <1>7, <4>1 DEF NoQueue
      <4> QED BY <1>9, <3>1, <4>2
    <3>2. CASE k # key
      BY <1>9, <1>13, <2>1, <2>2, <3>2
    <3> QED BY <3>1, <3>2
  <2>5. \A i \in DOMAIN freeQueues' : queues'[freeQueues'[i]] = EmptyQueue
    BY <1>2, <1>3, <2>1, <2>2
  <2> QED BY <2>3, <2>4, <2>5 DEF FreeOnce
<1>16. OneKeyPerHeader'
  BY <1>1, <1>9 DEF HeadersOwned, OneKeyPerHeader
<1>17. NoneLost'
  <2> SUFFICES ASSUME NEW p \in DOMAIN queues
               PROVE  \/ \E k \in Keys : queueOf'[k] = p
                      \/ \E i \in DOMAIN freeQueues' : freeQueues'[i] = p
    BY <1>2 DEF NoneLost
  <2>1. CASE p = q
    <3>1. L + 1 \in DOMAIN freeQueues'
      BY <1>7, <1>8
    <3> QED BY <1>8, <2>1, <3>1
  <2>2. CASE p # q /\ \E k \in Keys : queueOf[k] = p
    BY <1>9, <2>2 DEF q
  <2>3. CASE \E i \in DOMAIN freeQueues : freeQueues[i] = p
    <3>1. PICK i \in 1..L : freeQueues[i] = p
      BY <1>7, <2>3
    <3>2. i \in DOMAIN freeQueues'
      BY <1>7, <1>8
    <3> QED BY <1>8, <3>1, <3>2
  <2> QED BY <1>1, <2>1, <2>2, <2>3 DEF HeadersOwned, NoneLost
<1>18. HeadersOwned'
  BY <1>1, <1>2, <1>15, <1>16, <1>17 DEF HeadersOwned
<1>19. FreeSlotHasNoQueue'
  BY <1>1, <1>2, <1>9 DEF FreeSlotHasNoQueue
<1>20. NotesOK(N, S)'
  BY <1>1 DEF NotesOK
<1> QED BY <1>2, <1>4, <1>10, <1>11, <1>12, <1>18, <1>19, <1>20 DEF TablesInv

(* What end_note does when a note waits: the list of the key loses its     *)
(* first position, whose note goes into the slot.                          *)
PromoteDone(N, S, key, at, m, q) ==
    /\ m \in Nat /\ m > 0 /\ at \in Seq(1..Len(entries)) /\ at # <<>> /\ DOMAIN at = 1..m
    /\ \A i \in 1..m : at[i] \in 1..Len(entries)
    /\ entries[at[1]].note \in N
    /\ slotNote' = [slotNote EXCEPT ![key] = entries[at[1]].note]
    /\ slotStart' = [slotStart EXCEPT ![key] = Pack(S[entries[at[1]].note])]
    /\ q \in DOMAIN queues
    /\ queues' = [queues EXCEPT ![q] = [head |-> IF m = 1 THEN NoEntry ELSE at[2],
                                        tail |-> IF m = 1 THEN NoEntry ELSE at[m]]]
    /\ queued' = [queued EXCEPT ![key] = Tail(at)]
    /\ Tail(at) \in Seq(1..Len(entries)) /\ Len(Tail(at)) = m - 1 /\ DOMAIN Tail(at) = 1..(m - 1)
    /\ \A i \in 1..(m - 1) : Tail(at)[i] = at[i + 1]
    /\ queueOf' = queueOf /\ entries' = entries /\ freeQueues' = freeQueues

(* The head of the queue is the oldest waiting position.                   *)
LEMMA PromoteEffect ==
    ASSUME NEW N, NEW S, TablesInv(N, S), NEW key \in Keys, CloseAndPromote(key, S)
    PROVE  PromoteDone(N, S, key, queued[key], Len(queued[key]), queueOf[key])
<1> DEFINE at == queued[key]
           m == Len(at)
           q == queueOf[key]
           h == queues[q].head
<1>1. TablesOK(N) /\ ListsAreQueues /\ queueOf \in [Keys -> 0..Len(queues)] /\ queues \in Seq(Header)
  BY DEF TablesInv, TablesOK
<1>2. /\ q # NoQueue /\ h # NoEntry
      /\ slotNote' = [slotNote EXCEPT ![key] = entries[h].note]
      /\ slotStart' = [slotStart EXCEPT ![key] = Pack(S[entries[h].note])]
      /\ queues' = [queues EXCEPT ![q] = [head |-> entries[h].next,
                                          tail |-> IF entries[h].next = NoEntry THEN NoEntry
                                                   ELSE queues[q].tail]]
      /\ queued' = [queued EXCEPT ![key] = Tail(at)]
      /\ queueOf' = queueOf /\ entries' = entries /\ freeQueues' = freeQueues
  BY DEF CloseAndPromote, TakeSlot
<1>3. at # <<>>
  BY <1>1, <1>2 DEF ListsAreQueues, EmptyQueue
<1>4. /\ m \in Nat /\ m > 0 /\ at \in Seq(1..Len(entries)) /\ DOMAIN at = 1..m
      /\ \A i \in 1..m : at[i] \in 1..Len(entries)
  BY <1>1, <1>3, QueuedTypes
<1>5. /\ h = at[1] /\ queues[q].tail = at[m] /\ entries[at[m]].next = NoEntry
      /\ \A i \in 1..(m - 1) : entries[at[i]].next = at[i + 1]
  BY <1>1, <1>3 DEF ListsAreQueues
<1>6. h \in 1..Len(entries)
  BY <1>4, <1>5
<1>7. entries[h].note \in N
  <2>1. entries[h] \in [note : N, next : 0..Len(entries)]
    BY <1>1, <1>6, Types DEF Entry
  <2> QED BY <2>1
<1>8. q \in DOMAIN queues
  BY <1>1, <1>2, Types DEF NoQueue
<1>9. entries[h].next = IF m = 1 THEN NoEntry ELSE at[2]
  <2>1. CASE m = 1
    BY <1>5, <2>1
  <2>2. CASE m # 1
    <3>1. 1 \in 1..(m - 1)
      <4> HIDE DEF m
      <4> QED BY <1>4, <2>2
    <3>2. entries[at[1]].next = at[1 + 1]
      BY <1>5, <3>1
    <3> QED BY <1>5, <2>2, <3>2
  <2> QED BY <2>1, <2>2
<1>10. entries[h].next = NoEntry <=> m = 1
  <2>1. m # 1 => at[2] \in 1..Len(entries)
    <3>1. m # 1 => 2 \in 1..m
      <4> HIDE DEF m
      <4> QED BY <1>4
    <3> QED BY <1>4, <3>1
  <2> QED BY <1>9, <2>1 DEF NoEntry
<1>11. queues' = [queues EXCEPT ![q] = [head |-> IF m = 1 THEN NoEntry ELSE at[2],
                                        tail |-> IF m = 1 THEN NoEntry ELSE at[m]]]
  <2> HIDE DEF h, m, at
  <2>1. (IF entries[h].next = NoEntry THEN NoEntry ELSE queues[q].tail)
           = (IF m = 1 THEN NoEntry ELSE at[m])
    BY <1>5, <1>10
  <2> HIDE DEF q
  <2> QED BY <1>2, <1>9, <2>1
<1>12. /\ Tail(at) \in Seq(1..Len(entries)) /\ Len(Tail(at)) = m - 1
       /\ DOMAIN Tail(at) = 1..(m - 1)
       /\ \A i \in 1..(m - 1) : Tail(at)[i] = at[i + 1]
  <2> DEFINE D == 1..Len(entries)
  <2> HIDE DEF D
  <2>0. at \in Seq(D)
    BY <1>4 DEF D
  <2> HIDE DEF at
  <2>1. /\ Tail(at) \in Seq(D) /\ Len(Tail(at)) = m - 1
        /\ \A i \in 1..Len(Tail(at)) : Tail(at)[i] = at[i + 1]
    BY <1>3, <2>0, HeadTailProperties
  <2>2. DOMAIN Tail(at) = 1..(m - 1)
    BY <2>1, LenProperties
  <2> QED BY <2>1, <2>2 DEF D
<1>13. entries[at[1]].note = entries[h].note
  BY <1>5
<1> HIDE DEF at, m, q, h
<1>14. /\ slotNote' = [slotNote EXCEPT ![key] = entries[at[1]].note]
       /\ slotStart' = [slotStart EXCEPT ![key] = Pack(S[entries[at[1]].note])]
       /\ entries[at[1]].note \in N
  BY <1>2, <1>7, <1>13
<1>15. PromoteDone(N, S, key, at, m, q)
  BY <1>2, <1>3, <1>4, <1>8, <1>11, <1>12, <1>14 DEF PromoteDone
<1> QED BY <1>15 DEF at, m, q

(* A list without its first position is a list, and the header stays.      *)
LEMMA PromoteKeepsLists ==
    ASSUME NEW N, NEW S, TablesInv(N, S), NEW key \in Keys,
           PromoteDone(N, S, key, queued[key], Len(queued[key]), queueOf[key])
    PROVE  ListsAreQueues' /\ WaitsOnce' /\ HeadersOwned'
<1> DEFINE at == queued[key]
           m == Len(at)
           q == queueOf[key]
           list == Tail(at)
<1>1. /\ m \in Nat /\ m > 0 /\ at # <<>> /\ DOMAIN at = 1..m
      /\ \A i \in 1..m : at[i] \in 1..Len(entries)
      /\ q \in DOMAIN queues
      /\ queues' = [queues EXCEPT ![q] = [head |-> IF m = 1 THEN NoEntry ELSE at[2],
                                          tail |-> IF m = 1 THEN NoEntry ELSE at[m]]]
      /\ queued' = [queued EXCEPT ![key] = list]
      /\ list \in Seq(1..Len(entries)) /\ Len(list) = m - 1 /\ DOMAIN list = 1..(m - 1)
      /\ \A i \in 1..(m - 1) : list[i] = at[i + 1]
      /\ queueOf' = queueOf /\ entries' = entries /\ freeQueues' = freeQueues
  BY DEF PromoteDone
<1>2. /\ TablesOK(N) /\ ListsAreQueues /\ WaitsOnce /\ HeadersOwned
      /\ queues \in Seq(Header) /\ queued \in [Keys -> Seq(DOMAIN entries)]
  BY DEF TablesInv, TablesOK
<1>3. /\ q # NoQueue /\ entries[at[m]].next = NoEntry
      /\ \A i \in 1..(m - 1) : entries[at[i]].next = at[i + 1]
  BY <1>1, <1>2 DEF ListsAreQueues
<1>4. queued'[key] = list /\ \A k \in Keys : k # key => queued'[k] = queued[k]
  BY <1>1, <1>2
<1>5. /\ DOMAIN queues = 1..Len(queues) /\ DOMAIN queues' = DOMAIN queues
      /\ \A p \in DOMAIN queues : p # q => queues'[p] = queues[p]
      /\ queues'[q] = [head |-> IF m = 1 THEN NoEntry ELSE at[2],
                       tail |-> IF m = 1 THEN NoEntry ELSE at[m]]
  BY <1>1, <1>2, LenProperties
<1>6. \A k \in Keys : k # key => queueOf[k] # q
  BY <1>2, <1>3 DEF HeadersOwned, OneKeyPerHeader
<1>7. list = <<>> <=> m = 1
  <2> HIDE DEF list
  <2>1. list = <<>> => Len(list) = 0
    BY EmptySeq
  <2>2. Len(list) = 0 => list = <<>>
    BY <1>1, EmptySeq
  <2> QED BY <1>1, <2>1, <2>2
<1> HIDE DEF at, m, list
<1>8. ListsAreQueues'
  <2> SUFFICES ASSUME NEW k \in Keys
      PROVE  LET w == queued'[k]
                 p == queueOf'[k]
             IN  /\ w # <<>> => /\ p # NoQueue
                                /\ queues'[p].head = w[1]
                                /\ queues'[p].tail = w[Len(w)]
                                /\ entries'[w[Len(w)]].next = NoEntry
                 /\ w = <<>> /\ p # NoQueue => queues'[p] = EmptyQueue
                 /\ \A i \in 1..(Len(w) - 1) : entries'[w[i]].next = w[i + 1]
    BY DEF ListsAreQueues
  <2>1. CASE k = key
    <3>1. queued'[k] = list /\ queueOf'[k] = q /\ Len(list) = m - 1
      BY <1>1, <1>4, <2>1
    <3>2. m = 1 => queues'[q] = EmptyQueue
      BY <1>5 DEF EmptyQueue
    <3>3. m # 1 => /\ queues'[q].head = list[1] /\ queues'[q].tail = list[m - 1]
                   /\ entries'[list[m - 1]].next = NoEntry
      <4>1. m # 1 => 1 \in 1..(m - 1) /\ m - 1 \in 1..(m - 1) /\ (m - 1) + 1 = m
        BY <1>1
      <4>2. m # 1 => list[1] = at[2] /\ list[m - 1] = at[m]
        BY <1>1, <4>1
      <4> QED BY <1>1, <1>3, <1>5, <4>2
    <3>4. \A i \in 1..(m - 1 - 1) : entries'[list[i]].next = list[i + 1]
      <4> SUFFICES ASSUME NEW i \in 1..(m - 1 - 1)
                   PROVE  entries'[list[i]].next = list[i + 1]
        OBVIOUS
      <4>1. i \in 1..(m - 1) /\ i + 1 \in 1..(m - 1)
        BY <1>1
      <4> QED BY <1>1, <1>3, <4>1
    <3> HIDE DEF q
    <3> QED BY <1>3, <1>7, <3>1, <3>2, <3>3, <3>4 DEF q
  <2>2. CASE k # key
    <3>1. queued'[k] = queued[k] /\ queueOf'[k] = queueOf[k] /\ queueOf[k] # q /\ entries' = entries
      BY <1>1, <1>4, <1>6, <2>2
    <3>2. queueOf[k] # NoQueue => queues'[queueOf[k]] = queues[queueOf[k]]
      <4>1. queueOf[k] # NoQueue => queueOf[k] \in DOMAIN queues
        BY <1>2, Types DEF NoQueue
      <4> QED BY <1>5, <3>1, <4>1
    <3> HIDE DEF q
    <3> QED BY <1>2, <3>1, <3>2 DEF ListsAreQueues
  <2> QED BY <2>1, <2>2
<1>9. WaitsOnce'
  <2> DEFINE shift(k, i) == IF k = key THEN i + 1 ELSE i
  <2>1. \A k \in Keys : \A i \in DOMAIN queued'[k] :
            shift(k, i) \in DOMAIN queued[k] /\ queued'[k][i] = queued[k][shift(k, i)]
    <3> SUFFICES ASSUME NEW k \in Keys, NEW i \in DOMAIN queued'[k]
                 PROVE  shift(k, i) \in DOMAIN queued[k] /\ queued'[k][i] = queued[k][shift(k, i)]
      OBVIOUS
    <3>1. CASE k = key
      <4>1. i \in 1..(m - 1)
        BY <1>1, <1>4, <3>1
      <4>2. i + 1 \in 1..m /\ list[i] = at[i + 1]
        BY <1>1, <4>1
      <4> QED BY <1>1, <1>4, <3>1, <4>2 DEF at
    <3>2. CASE k # key
      BY <1>4, <3>2
    <3> QED BY <3>1, <3>2
  <2> SUFFICES ASSUME NEW k1 \in Keys, NEW k2 \in Keys,
                      NEW i \in DOMAIN queued'[k1], NEW j \in DOMAIN queued'[k2],
                      queued'[k1][i] = queued'[k2][j]
               PROVE  k1 = k2 /\ i = j
    BY DEF WaitsOnce
  <2>2. i \in Int /\ j \in Int
    <3>1. \A k \in Keys : DOMAIN queued[k] \subseteq Int
      BY <1>2, QueuedTypes
    <3>2. \A k \in Keys : DOMAIN queued'[k] \subseteq Int
      BY SMTT(40), <1>1, <1>4, <3>1
    <3> QED BY <3>2
  <2>3. k1 = k2 /\ shift(k1, i) = shift(k2, j)
    <3> HIDE DEF shift
    <3>1. queued[k1][shift(k1, i)] = queued[k2][shift(k2, j)]
      BY <2>1
    <3>2. \A g \in DOMAIN queued[k1] : \A h \in DOMAIN queued[k2] :
              queued[k1][g] = queued[k2][h] => k1 = k2 /\ g = h
      BY <1>2 DEF WaitsOnce
    <3> QED BY <2>1, <3>1, <3>2
  <2> QED BY <2>2, <2>3
<1>10. HeadersOwned'
  <2>1. FreeOnce'
    <3>1. \A i \in DOMAIN freeQueues : freeQueues[i] # q /\ freeQueues[i] \in DOMAIN queues
      <4>1. \A i \in DOMAIN freeQueues : freeQueues[i] \in DOMAIN queues
        BY <1>2, Types
      <4> QED BY <1>2, <4>1 DEF HeadersOwned, FreeOnce
    <3> HIDE DEF q
    <3> QED BY <1>1, <1>2, <1>5, <3>1 DEF HeadersOwned, FreeOnce
  <2>2. OneKeyPerHeader' /\ NoneLost'
    BY <1>1, <1>2, <1>5 DEF HeadersOwned, OneKeyPerHeader, NoneLost
  <2>3. Len(queues') = Len(queues)
    BY <1>1, <1>2
  <2> QED BY <1>2, <2>1, <2>2, <2>3 DEF HeadersOwned
<1> QED BY <1>8, <1>9, <1>10

(* The oldest waiting note takes the slot, with its row's start.           *)
LEMMA PromoteStep ==
    ASSUME NEW N, NEW S, TablesInv(N, S), NEW key \in Keys, CloseAndPromote(key, S)
    PROVE  /\ TablesInv(N, S)' /\ Len(queues') = Len(queues)
           /\ Sounding' = [Sounding EXCEPT ![key] = Tail(Sounding[key])]
<1> DEFINE at == queued[key]
           m == Len(at)
           q == queueOf[key]
           next == entries[at[1]].note
<1>0. PromoteDone(N, S, key, at, m, q)
  BY PromoteEffect
<1>1. /\ m \in Nat /\ m > 0 /\ at # <<>> /\ DOMAIN at = 1..m /\ at \in Seq(1..Len(entries))
      /\ \A i \in 1..m : at[i] \in 1..Len(entries)
      /\ next \in N
      /\ slotNote' = [slotNote EXCEPT ![key] = next]
      /\ slotStart' = [slotStart EXCEPT ![key] = Pack(S[next])]
      /\ q \in DOMAIN queues
      /\ queues' = [queues EXCEPT ![q] = [head |-> IF m = 1 THEN NoEntry ELSE at[2],
                                          tail |-> IF m = 1 THEN NoEntry ELSE at[m]]]
      /\ queued' = [queued EXCEPT ![key] = Tail(at)]
      /\ Tail(at) \in Seq(1..Len(entries)) /\ Len(Tail(at)) = m - 1 /\ DOMAIN Tail(at) = 1..(m - 1)
      /\ \A i \in 1..(m - 1) : Tail(at)[i] = at[i + 1]
      /\ queueOf' = queueOf /\ entries' = entries /\ freeQueues' = freeQueues
  BY <1>0 DEF PromoteDone
<1>2. /\ TablesOK(N) /\ FreeSlotHasNoQueue /\ PackedStartsAgree(S) /\ NotesOK(N, S)
      /\ slotNote \in [Keys -> N \cup {Free}] /\ slotStart \in [Keys -> 0..U32Max]
      /\ queues \in Seq(Header) /\ queued \in [Keys -> Seq(DOMAIN entries)]
  BY DEF TablesInv, TablesOK
<1>3. /\ slotNote[key] \in N
      /\ Sounding[key] = <<slotNote[key]>> \o Waiting(key) /\ Waiting(key) \in Seq(N)
      /\ Tail(Sounding[key]) = Waiting(key)
  <2>1. Close(key, S)
    BY DEF Close
  <2> QED BY <2>1, ClosedNote
<1>4. ListsAreQueues' /\ WaitsOnce' /\ HeadersOwned'
  BY <1>0, PromoteKeepsLists
<1>5. DOMAIN entries = 1..Len(entries) /\ Len(entries) \in Nat
  BY <1>2, Types
<1> HIDE DEF next
<1>6. next # Free /\ next \in N /\ S[next] \in Nat /\ U32Max \in Nat
  BY <1>1, <1>2 DEF NotesOK
<1>7. \A k \in Keys : /\ k = key => slotNote'[k] = next /\ slotStart'[k] = Pack(S[next])
                      /\ k # key => slotNote'[k] = slotNote[k] /\ slotStart'[k] = slotStart[k]
  BY <1>1, <1>2
<1>8. Pack(S[next]) \in 0..U32Max /\ (Pack(S[next]) # U32Max => Pack(S[next]) = S[next])
  BY <1>6, PackedStart
<1>9. queues' \in Seq(Header) /\ DOMAIN queues' = DOMAIN queues /\ Len(queues') = Len(queues)
  <2> DEFINE H == Header
             new == [head |-> IF m = 1 THEN NoEntry ELSE at[2],
                     tail |-> IF m = 1 THEN NoEntry ELSE at[m]]
  <2> HIDE DEF at, m, q
  <2>1. new \in H
    <3>1. m # 1 => 2 \in 1..m /\ m \in 1..m
      BY <1>1
    <3>2. NoEntry \in 0..Len(entries) /\ 1..Len(entries) \subseteq 0..Len(entries)
      BY <1>5 DEF NoEntry
    <3> QED BY <1>1, <3>1, <3>2 DEF Header
  <2>2. queues' = [queues EXCEPT ![q] = new] /\ queues \in Seq(H) /\ q \in 1..Len(queues)
    BY <1>1, <1>2, LenProperties
  <2> HIDE DEF H, new
  <2>3. queues' \in Seq(H) /\ Len(queues') = Len(queues)
    BY <2>1, <2>2, ExceptSeq
  <2>4. DOMAIN queues' = DOMAIN queues
    BY <2>2
  <2> QED BY <2>3, <2>4 DEF H
<1>10. TablesOK(N)'
  <2>1. slotNote' \in [Keys -> N \cup {Free}] /\ slotStart' \in [Keys -> 0..U32Max]
    BY <1>1, <1>2, <1>6, <1>8
  <2>2. Entry(N)' = Entry(N) /\ Header' = Header
    BY <1>1 DEF Entry, Header
  <2>4. queued' \in [Keys -> Seq(DOMAIN entries)]
    BY <1>1, <1>2, <1>5
  <2> HIDE DEF at, m, q
  <2> QED BY <1>1, <1>2, <1>9, <2>1, <2>2, <2>4 DEF TablesOK
<1>11. FreeSlotHasNoQueue'
  BY <1>1, <1>2, <1>6, <1>7 DEF FreeSlotHasNoQueue
<1>12. PackedStartsAgree(S)'
  <2> SUFFICES ASSUME NEW k \in Keys, slotNote'[k] # Free, slotStart'[k] # U32Max
               PROVE  slotStart'[k] = S[slotNote'[k]]
    BY DEF PackedStartsAgree, StartOf
  <2>1. CASE k = key
    BY <1>7, <1>8, <2>1
  <2>2. CASE k # key
    BY <1>2, <1>7, <2>2 DEF PackedStartsAgree, StartOf
  <2> QED BY <2>1, <2>2
<1>13. Waiting(key) = <<next>> \o Waiting(key)'
  <2> DEFINE W == Waiting(key)
             V == Waiting(key)'
  <2>1. W \in Seq(N) /\ Len(W) = m
    BY <1>2, SoundingTypes
  <2>2. V = [i \in 1..(m - 1) |-> entries[at[i + 1]].note]
    <3>1. queued'[key] = Tail(at) /\ entries' = entries
      BY <1>1, <1>2
    <3>2. DOMAIN queued'[key] = 1..(m - 1) /\ \A i \in 1..(m - 1) : queued'[key][i] = at[i + 1]
      BY <1>1, <3>1
    <3> HIDE DEF m, at
    <3> QED BY <3>1, <3>2 DEF Waiting
  <2>3. V \in Seq(N) /\ Len(V) = m - 1
    <3>1. \A i \in 1..Len(entries) : entries[i] \in [note : N, next : 0..Len(entries)]
      BY <1>2, Types DEF Entry
    <3> HIDE DEF V, at, m
    <3>2. \A i \in 1..(m - 1) : at[i + 1] \in 1..Len(entries)
      BY <1>1
    <3>3. V \in [1..(m - 1) -> N] /\ m - 1 \in Nat
      BY SMTT(40), <1>1, <2>2, <3>1, <3>2
    <3> QED BY <3>3
  <2>4. \A i \in 1..m : W[i] = entries[at[i]].note
    BY <1>1 DEF Waiting
  <2>5. \A i \in 1..(m - 1) : V[i] = entries[at[i + 1]].note
    BY <2>2
  <2>6. \A i \in 1..(m - 1) : V[i] = W[i + 1]
    <3> HIDE DEF W, V, at, m
    <3> QED BY <1>1, <2>4, <2>5
  <2>7. W[1] = next
    <3>1. 1 \in 1..m
      <4> HIDE DEF m
      <4> QED BY <1>1
    <3> QED BY <2>4, <3>1 DEF next
  <2> DEFINE U == <<next>> \o V
  <2>8. <<next>> \in Seq(N) /\ Len(<<next>>) = 1 /\ <<next>>[1] = next
    BY <1>6
  <2> HIDE DEF W, V, at, m
  <2>9. /\ U \in Seq(N) /\ Len(U) = 1 + (m - 1)
        /\ \A i \in 1..(1 + (m - 1)) : U[i] = IF i <= 1 THEN <<next>>[i] ELSE V[i - 1]
    BY <2>3, <2>8, ConcatProperties
  <2>10. \A i \in 1..m : U[i] = W[i]
    <3> SUFFICES ASSUME NEW i \in 1..m PROVE U[i] = W[i]
      OBVIOUS
    <3> HIDE DEF U
    <3>1. CASE i = 1
      BY <1>1, <2>7, <2>8, <2>9, <3>1
    <3>2. CASE i # 1
      <4>1. i - 1 \in 1..(m - 1) /\ (i - 1) + 1 = i /\ i \in 1..(1 + (m - 1)) /\ ~(i <= 1)
        BY <1>1, <3>2
      <4> QED BY <2>6, <2>9, <4>1
    <3> QED BY <3>1, <3>2
  <2>11. U = W
    <3> HIDE DEF U
    <3>1. Len(U) = Len(W)
      BY <1>1, <2>1, <2>9
    <3> QED BY <2>1, <2>9, <2>10, <3>1, SeqEqual
  <2> QED BY <2>11 DEF W, V, U
<1>14. ASSUME NEW k \in Keys, k # key
       PROVE  Waiting(k)' = Waiting(k)
  <2>1. queued'[k] = queued[k]
    BY <1>1, <1>2, <1>14
  <2>2. entries' = entries
    BY <1>1
  <2> QED BY <2>1, <2>2 DEF Waiting
<1>15. Sounding = [k \in Keys |-> IF slotNote[k] = Free THEN <<>> ELSE <<slotNote[k]>> \o Waiting(k)]
  BY <1>2, SoundingTypes
<1>16. Sounding' = [k \in Keys |-> IF slotNote'[k] = Free THEN <<>>
                                   ELSE <<slotNote'[k]>> \o Waiting(k)']
  BY DEF Sounding, Waiting
<1>17. Sounding'[key] = Waiting(key)
  BY <1>6, <1>7, <1>13, <1>16
<1>18. Sounding' = [Sounding EXCEPT ![key] = Tail(Sounding[key])]
  <2>1. \A k \in Keys : k # key => Sounding'[k] = Sounding[k]
    BY <1>7, <1>14, <1>15, <1>16
  <2> QED BY <1>3, <1>15, <1>16, <1>17, <2>1
<1>19. NotesOK(N, S)'
  BY <1>2 DEF NotesOK
<1> QED BY <1>4, <1>9, <1>10, <1>11, <1>12, <1>18, <1>19 DEF TablesInv

(* Every note-off that ends a note. *)
LEMMA CloseStep ==
    ASSUME NEW N, NEW S, TablesInv(N, S), NEW key \in Keys, Close(key, S)
    PROVE  /\ TablesInv(N, S)' /\ Len(queues') = Len(queues)
           /\ Sounding' = [Sounding EXCEPT ![key] = Tail(Sounding[key])]
BY WithoutQueueStep, ReleaseStep, PromoteStep DEF Close

--------------------------------------------------------------------------------
(* The initial tables are empty. *)
LEMMA TablesInit ==
    ASSUME TrackerInit, NEW N, NEW S, NotesOK(N, S)
    PROVE  TablesInv(N, S) /\ Sounding = [k \in Keys |-> <<>>] /\ Len(queues) = 0
<1>1. /\ slotNote = [k \in Keys |-> Free] /\ slotStart = [k \in Keys |-> 0]
      /\ queueOf = [k \in Keys |-> NoQueue] /\ entries = <<>> /\ queues = <<>>
      /\ freeQueues = <<>> /\ queued = [k \in Keys |-> <<>>]
  BY DEF TrackerInit
<1>2. Len(<<>>) = 0 /\ DOMAIN <<>> = {} /\ \A T : <<>> \in Seq(T)
  <2>1. \A T : <<>> \in Seq(T) /\ Len(<<>>) = 0
    BY EmptySeq
  <2>2. DOMAIN <<>> = 1..Len(<<>>)
    BY <2>1, LenProperties
  <2> QED BY <2>1, <2>2
<1>3. TablesOK(N)
  <2>1. 0 \in 0..U32Max
    BY DEF NotesOK
  <2>2. slotNote \in [Keys -> N \cup {Free}] /\ slotStart \in [Keys -> 0..U32Max]
    BY <1>1, <2>1
  <2>3. entries \in Seq(Entry(N)) /\ queues \in Seq(Header) /\ freeQueues \in Seq(DOMAIN queues)
    BY <1>1, <1>2
  <2>4. queueOf \in [Keys -> 0..Len(queues)]
    BY <1>1, <1>2 DEF NoQueue
  <2>5. queued \in [Keys -> Seq(DOMAIN entries)]
    BY <1>1, <1>2
  <2> QED BY <2>2, <2>3, <2>4, <2>5 DEF TablesOK
<1>4. ListsAreQueues
  <2> SUFFICES ASSUME NEW k \in Keys
      PROVE  LET at == queued[k]
                 q == queueOf[k]
             IN  /\ at # <<>> => /\ q # NoQueue
                                 /\ queues[q].head = at[1]
                                 /\ queues[q].tail = at[Len(at)]
                                 /\ entries[at[Len(at)]].next = NoEntry
                 /\ at = <<>> /\ q # NoQueue => queues[q] = EmptyQueue
                 /\ \A i \in 1..(Len(at) - 1) : entries[at[i]].next = at[i + 1]
    BY DEF ListsAreQueues
  <2>1. queued[k] = <<>> /\ queueOf[k] = NoQueue
    BY <1>1
  <2>2. 1..(Len(queued[k]) - 1) = {}
    BY <1>2, <2>1
  <2> QED BY <2>1, <2>2
<1>5. FreeSlotHasNoQueue
  BY <1>1 DEF FreeSlotHasNoQueue
<1>6. WaitsOnce
  BY <1>1, <1>2 DEF WaitsOnce
<1>7. HeadersOwned
  <2>1. OneKeyPerHeader
    BY <1>1 DEF OneKeyPerHeader
  <2>2. FreeOnce /\ NoneLost
    BY <1>1, <1>2 DEF FreeOnce, NoneLost
  <2> QED BY <2>1, <2>2 DEF HeadersOwned
<1>8. PackedStartsAgree(S)
  BY <1>1 DEF PackedStartsAgree
<1>9. Sounding = [k \in Keys |-> <<>>]
  BY <1>1 DEF Sounding
<1> QED BY <1>1, <1>2, <1>3, <1>4, <1>5, <1>6, <1>7, <1>8, <1>9 DEF TablesInv

--------------------------------------------------------------------------------
(* A track. *)

StartedBefore == \A i \in 1..Len(starts) : starts[i] <= now
HeadersFit == Len(queues) <= Cardinality(Keys)

IInv == TypeOK /\ TablesInv(Notes, starts) /\ StartedBefore /\ HeadersFit

--------------------------------------------------------------------------------
(* The notes of a track are numbered in the order in which they start. *)

(* Starts are times.                                                       *)
LEMMA StartTypes ==
    ASSUME TypeOK
    PROVE  /\ Len(starts) \in Nat /\ DOMAIN starts = Notes
           /\ \A i \in Notes : starts[i] \in 0..MaxTime /\ starts[i] \in Nat
           /\ NotesOK(Notes, starts)
<1>1. starts \in Seq(0..MaxTime)
  BY DEF TypeOK
<1>2. Len(starts) \in Nat /\ DOMAIN starts = Notes
  BY <1>1, LenProperties DEF Notes
<1>3. \A i \in Notes : starts[i] \in 0..MaxTime
  BY <1>1, ElementOfSeq DEF Notes
<1>4. \A i \in Notes : starts[i] \in Nat
  <2>1. \A t \in 0..MaxTime : t \in Nat
    BY TrackAssumption
  <2> QED BY <1>3, <2>1
<1>5. Free \notin Notes
  <2>1. Len(starts) <= MaxNotes
    BY DEF TypeOK
  <2>2. Notes \subseteq 1..MaxNotes
    BY <1>2, <2>1, TrackAssumption DEF Notes
  <2> QED BY <2>2, TrackAssumption
<1> QED BY <1>2, <1>3, <1>4, <1>5, TrackAssumption DEF NotesOK

(* A note-on makes one note more, which starts now.                        *)
LEMMA NewNote ==
    ASSUME TypeOK, StartedBefore, Len(starts) < MaxNotes,
           starts' = Append(starts, now), now' = now
    PROVE  /\ Extend(Notes, starts, Notes', starts')
           /\ Len(starts) + 1 \in Notes' /\ starts'[Len(starts) + 1] = now
           /\ starts' \in Seq(0..MaxTime) /\ Len(starts') = Len(starts) + 1
           /\ StartedBefore'
<1> DEFINE note == Len(starts) + 1
<1>1. starts \in Seq(0..MaxTime) /\ now \in 0..MaxTime /\ Len(starts) \in Nat
  BY StartTypes DEF TypeOK
<1>2. /\ starts' \in Seq(0..MaxTime) /\ Len(starts') = note /\ starts'[note] = now
      /\ \A i \in 1..Len(starts) : starts'[i] = starts[i]
  BY <1>1, AppendProperties
<1>3. Notes' = 1..note /\ Notes = 1..Len(starts)
  BY <1>2 DEF Notes
<1>4. Notes \subseteq Notes' /\ note \in Notes'
  BY <1>1, <1>3
<1>5. \A i \in Notes' : i = note \/ i \in Notes
  BY <1>1, <1>3
<1>6. now \in Nat /\ now <= now
  BY <1>1, TrackAssumption
<1> HIDE DEF note
<1>7. \A i \in Notes' : starts'[i] \in Nat /\ starts'[i] <= now
  BY <1>2, <1>3, <1>5, <1>6, StartTypes DEF StartedBefore
<1>8. NotesOK(Notes', starts')
  <2>1. Notes' \subseteq 1..MaxNotes
    BY <1>1, <1>3, TrackAssumption DEF note
  <2>2. Free \notin Notes'
    BY <2>1, TrackAssumption
  <2> QED BY <1>7, <2>2, TrackAssumption DEF NotesOK
<1>9. Extend(Notes, starts, Notes', starts')
  BY <1>2, <1>3, <1>4, <1>8 DEF Extend
<1>10. StartedBefore'
  BY <1>2, <1>3, <1>7 DEF StartedBefore
<1> QED BY <1>2, <1>4, <1>9, <1>10 DEF note

--------------------------------------------------------------------------------
(* The steps. *)

(* add_note: one more note, last in the queue of its key.                  *)
LEMMA NoteOnStep ==
    ASSUME IInv, NEW key \in Keys, NoteOn(key)
    PROVE  IInv' /\ Fifo!NoteOn(key)
<1> DEFINE note == Len(starts) + 1
<1>1. TypeOK /\ TablesInv(Notes, starts) /\ StartedBefore /\ HeadersFit
  BY DEF IInv
<1>2. /\ Len(starts) < MaxNotes /\ starts' = Append(starts, now) /\ Open(key, note, now)
      /\ now' = now /\ ended' = ended
  BY DEF NoteOn
<1>3. /\ Extend(Notes, starts, Notes', starts')
      /\ note \in Notes' /\ starts'[note] = now
      /\ starts' \in Seq(0..MaxTime) /\ Len(starts') = note
      /\ StartedBefore'
  BY <1>1, <1>2, NewNote
<1>4. PICK N, S, N1, S1 : N = Notes /\ S = starts /\ N1 = Notes' /\ S1 = starts'
  OBVIOUS
<1> HIDE DEF note
<1>5. /\ TablesInv(N, S) /\ Extend(N, S, N1, S1) /\ note \in N1 /\ Open(key, note, S1[note])
  BY <1>1, <1>2, <1>3, <1>4
<1>6. /\ TablesInv(N1, S1)'
      /\ Sounding' = [Sounding EXCEPT ![key] = Append(Sounding[key], note)]
  BY <1>5, OpenStep
<1>7. TablesInv(Notes, starts)'
  BY <1>4, <1>6
<1>8. HeadersFit'
  BY <1>1, <1>5, OpenKeepsRoom, TrackAssumption DEF HeadersFit
<1>9. TypeOK'
  <2>1. Len(starts') <= MaxNotes
    BY <1>1, <1>2, <1>3, StartTypes, TrackAssumption DEF note
  <2>2. TablesOK(Notes)'
    BY <1>7 DEF TablesInv
  <2> QED BY <1>1, <1>2, <1>3, <2>1, <2>2 DEF TypeOK
<1>10. Fifo!NoteOn(key)
  BY <1>2, <1>6 DEF Fifo!NoteOn, note
<1> QED BY <1>3, <1>7, <1>8, <1>9, <1>10 DEF IInv

(* end_note: the first note of the key ends, with the time since its start. *)
LEMMA NoteOffStep ==
    ASSUME IInv, NEW key \in Keys, NoteOff(key)
    PROVE  IInv' /\ Fifo!NoteOff(key)
<1>1. TypeOK /\ TablesInv(Notes, starts) /\ StartedBefore /\ HeadersFit
  BY DEF IInv
<1>2. /\ Close(key, starts)
      /\ ended' = [note |-> slotNote[key], duration |-> now - StartOf(key, starts)]
      /\ starts' = starts /\ now' = now
  BY DEF NoteOff
<1>3. PICK N, S : N = Notes /\ S = starts
  OBVIOUS
<1>4. TablesInv(N, S) /\ Close(key, S)
  BY <1>1, <1>2, <1>3
<1>5. /\ slotNote[key] \in N /\ StartOf(key, S) = S[slotNote[key]]
      /\ Sounding[key] # <<>> /\ Head(Sounding[key]) = slotNote[key]
  BY <1>4, ClosedNote
<1>6. /\ TablesInv(N, S)' /\ Len(queues') = Len(queues)
      /\ Sounding' = [Sounding EXCEPT ![key] = Tail(Sounding[key])]
  BY <1>4, CloseStep
<1>7. Notes' = Notes
  BY <1>2 DEF Notes
<1>8. TablesInv(Notes, starts)'
  BY <1>2, <1>3, <1>6, <1>7
<1>9. ended' \in [note : Nat, duration : Nat]
  <2> DEFINE n == slotNote[key]
  <2>1. n \in Notes /\ now \in 0..MaxTime
    BY <1>1, <1>3, <1>5 DEF TypeOK
  <2> HIDE DEF n
  <2>2. n \in Nat /\ starts[n] \in Nat /\ now \in Nat /\ starts[n] <= now
    BY <1>1, <2>1, StartTypes, TrackAssumption DEF StartedBefore, Notes
  <2>3. now - starts[n] \in Nat
    BY <2>2
  <2> QED BY <1>2, <1>3, <1>5, <2>2, <2>3 DEF n
<1>10. TypeOK' /\ StartedBefore' /\ HeadersFit'
  BY <1>1, <1>2, <1>6, <1>8, <1>9 DEF TypeOK, TablesInv, StartedBefore, HeadersFit
<1>11. Fifo!NoteOff(key)
  BY <1>2, <1>3, <1>5, <1>6 DEF Fifo!NoteOff
<1> QED BY <1>8, <1>10, <1>11 DEF IInv

(* Time alone moves nothing.                                               *)
LEMMA TimeStep ==
    ASSUME IInv, UNCHANGED <<tracker, starts, ended>>, now' \in 0..MaxTime, now <= now'
    PROVE  IInv' /\ Sounding' = Sounding
<1>1. TypeOK /\ TablesInv(Notes, starts) /\ StartedBefore /\ HeadersFit
  BY DEF IInv
<1>2. PICK N, S : N = Notes /\ S = starts
  OBVIOUS
<1>3. Extend(N, S, N, S)
  BY <1>1, <1>2, StartTypes DEF Extend
<1>4. TablesInv(N, S)' /\ Sounding' = Sounding
  BY <1>1, <1>2, <1>3, TablesKept
<1>5. TablesInv(Notes, starts)'
  <2>1. Notes' = Notes
    BY DEF Notes
  <2> QED BY <1>2, <1>4, <2>1
<1>6. StartedBefore'
  <2> SUFFICES ASSUME NEW i \in Notes
               PROVE  starts[i] <= now'
    BY DEF StartedBefore, Notes
  <2>1. starts[i] \in Nat /\ now \in 0..MaxTime /\ starts[i] <= now
    BY <1>1, StartTypes DEF TypeOK, StartedBefore, Notes
  <2> QED BY <2>1, TrackAssumption
<1>7. TypeOK' /\ HeadersFit'
  BY <1>1, <1>5 DEF TypeOK, TablesInv, HeadersFit, tracker
<1> QED BY <1>4, <1>5, <1>6, <1>7 DEF IInv

(* The initial tables are empty. *)
LEMMA InitInv ==
    ASSUME Init
    PROVE  IInv /\ Fifo!Init
<1>1. TrackerInit /\ now = 0 /\ starts = <<>> /\ ended = [note |-> 0, duration |-> 0]
  BY DEF Init
<1>2. starts \in Seq(0..MaxTime) /\ Len(starts) = 0 /\ Notes = {}
  BY <1>1, EmptySeq DEF Notes
<1>3. NotesOK(Notes, starts)
  BY <1>2, TrackAssumption DEF NotesOK
<1>4. /\ TablesInv(Notes, starts) /\ Sounding = [k \in Keys |-> <<>>] /\ Len(queues) = 0
  BY <1>1, <1>3, TablesInit
<1>5. 0 \in 0..MaxTime /\ 0 <= MaxNotes /\ 0 <= Cardinality(Keys)
  BY TrackAssumption, FS_CardinalityType
<1>6. TypeOK
  BY <1>1, <1>2, <1>4, <1>5 DEF TypeOK, TablesInv
<1>7. StartedBefore /\ HeadersFit
  BY <1>2, <1>4, <1>5 DEF StartedBefore, HeadersFit
<1> QED BY <1>1, <1>4, <1>6, <1>7 DEF IInv, Fifo!Init

(* Every step keeps the invariant and is a step of the queues, or none.    *)
LEMMA NextInv ==
    ASSUME IInv, [Next]_vars
    PROVE  IInv' /\ [Fifo!Next]_(Fifo!vars)
<1>0. now \in 0..MaxTime
  BY DEF IInv, TypeOK
<1>1. CASE \E t \in 0..MaxTime : Advance(t)
  <2>1. PICK t \in 0..MaxTime : Advance(t)
    BY <1>1
  <2>2. now < t /\ now' = t /\ UNCHANGED <<tracker, starts, ended>>
    BY <2>1 DEF Advance
  <2>3. now' \in 0..MaxTime /\ now <= now'
    BY <1>0, <2>2, TrackAssumption
  <2>4. IInv' /\ Sounding' = Sounding
    BY <2>2, <2>3, TimeStep
  <2>5. Fifo!Advance(t)
    BY <2>2, <2>4 DEF Fifo!Advance
  <2> QED BY <2>4, <2>5 DEF Fifo!Next
<1>2. CASE \E key \in Keys : NoteOn(key)
  BY <1>2, NoteOnStep DEF Fifo!Next
<1>3. CASE \E key \in Keys : NoteOff(key)
  BY <1>3, NoteOffStep DEF Fifo!Next
<1>4. CASE UNCHANGED vars
  <2>1. UNCHANGED <<tracker, starts, ended>> /\ now' = now
    BY <1>4 DEF vars
  <2>2. now' \in 0..MaxTime /\ now <= now'
    BY <1>0, <2>1, TrackAssumption
  <2>3. IInv' /\ Sounding' = Sounding
    BY <2>1, <2>2, TimeStep
  <2> QED BY <2>1, <2>3 DEF Fifo!vars
<1> QED BY <1>1, <1>2, <1>3, <1>4 DEF Next

--------------------------------------------------------------------------------

(* The inductive invariant holds of every reachable state of add_note and  *)
(* end_note.                                                               *)
THEOREM Inductive == Spec => []IInv
<1>1. Init => IInv
  BY InitInv
<1>2. IInv /\ [Next]_vars => IInv'
  BY NextInv
<1> QED BY <1>1, <1>2, PTL DEF Spec

(* The tables of the open notes keep their types: every index they hold is *)
(* the index of something.                                                 *)
THEOREM TypeCorrect == Spec => []TypeOK
<1>1. IInv => TypeOK
  BY DEF IInv
<1> QED BY <1>1, Inductive, PTL

(* For every set of keys and any number of notes the entries spell each    *)
(* key's waiting notes, oldest first.                                      *)
THEOREM Lists == Spec => []ListsAreQueues
<1>1. IInv => ListsAreQueues
  BY DEF IInv, TablesInv
<1> QED BY <1>1, Inductive, PTL

(* A key with a free slot has no queue, what add_note asserts.             *)
THEOREM FreeSlot == Spec => []FreeSlotHasNoQueue
<1>1. IInv => FreeSlotHasNoQueue
  BY DEF IInv, TablesInv
<1> QED BY <1>1, Inductive, PTL

(* Headers are neither lost nor shared, and never more than the keys.      *)
THEOREM Headers == Spec => []HeadersConserved
<1>1. ASSUME IInv
      PROVE  HeadersConserved
  <2>1. TablesOK(Notes) /\ HeadersOwned /\ HeadersFit
    BY <1>1 DEF IInv, TablesInv
  <2>2. ASSUME NEW q \in DOMAIN queues
        PROVE  Cardinality({key \in Keys : queueOf[key] = q})
                  + Cardinality({i \in DOMAIN freeQueues : freeQueues[i] = q}) = 1
    <3> DEFINE K == {key \in Keys : queueOf[key] = q}
               F == {i \in DOMAIN freeQueues : freeQueues[i] = q}
    <3>1. q # NoQueue
      BY <2>1, Types DEF NoQueue
    <3>2. CASE \E k \in Keys : queueOf[k] = q
      <4>1. PICK k \in Keys : queueOf[k] = q
        BY <3>2
      <4>2. K = {k}
        BY <2>1, <3>1, <4>1 DEF HeadersOwned, OneKeyPerHeader
      <4>3. F = {}
        BY <2>1, <4>1 DEF HeadersOwned, FreeOnce
      <4>4. Cardinality(K) = 1 /\ Cardinality(F) = 0
        BY <4>2, <4>3, FS_Singleton, FS_EmptySet
      <4> QED BY <4>4
    <3>3. CASE \E i \in DOMAIN freeQueues : freeQueues[i] = q
      <4>1. PICK i \in DOMAIN freeQueues : freeQueues[i] = q
        BY <3>3
      <4>2. K = {}
        BY <2>1, <4>1 DEF HeadersOwned, FreeOnce
      <4>3. F = {i}
        BY <2>1, <4>1 DEF HeadersOwned, FreeOnce
      <4>4. Cardinality(K) = 0 /\ Cardinality(F) = 1
        BY <4>2, <4>3, FS_Singleton, FS_EmptySet
      <4> QED BY <4>4
    <3> QED BY <2>1, <3>2, <3>3 DEF HeadersOwned, NoneLost
  <2> QED BY <2>1, <2>2 DEF HeadersConserved, HeadersOwned, FreeOnce, HeadersFit
<1> QED BY <1>1, Inductive, PTL

(* The slots, the linked lists and the packed starts of add_note and       *)
(* end_note implement one first-in first-out queue of notes per key.       *)
THEOREM Refinement == Spec => ImplementsNoteFifo
<1>1. Init => Fifo!Init
  BY InitInv
<1>2. IInv /\ [Next]_vars => [Fifo!Next]_(Fifo!vars)
  BY NextInv
<1> QED BY <1>1, <1>2, Inductive, PTL DEF Spec, ImplementsNoteFifo, Fifo!Spec

================================================================================
