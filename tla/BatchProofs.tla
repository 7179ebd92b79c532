---------------------------- MODULE BatchProofs ----------------------------
(* Proofs about the batch operations, item by item, and about the stream     *)
(* contract together with its batches and its treasury.                      *)
EXTENDS StreamBatches, IndexProofs, TreasuryProofs

(* The treasury contract creates no streams: it has no call to do so.        *)
TreasuryApart == TreasuryAddress \notin Senders

-----------------------------------------------------------------------------
(* Ids when batches create streams, too.  A batch gives a stream the nonce   *)
(* of its position, in every batch: an id may be booked again, in the second *)
(* it was made.  The last part of an id is then a nonce, which is no id, or  *)
(* the id of a stream that was split, which is closed and stays stored for   *)
(* as long as it could be created again.                                     *)
Derived(q) ==
    \E sender, recipient, start_time, nonce :
        q = derive_stream_id(sender, recipient, start_time, nonce)
Retired(stored, q) ==
    /\ q \in DOMAIN stored => ~Live(stored[q])
    /\ q \in DOMAIN stored \/ q[3] < now
Dated(k) == Derived(k) /\ k[3] \in Nat /\ k[3] <= now
FreshIn(stored, booked) ==
    /\ \A id \in DOMAIN stored : id[3] = now => Young(stored[id])
    /\ \A k \in booked : Dated(k) /\ (Derived(k[4]) => k[4] \in booked /\ Retired(stored, k[4]))

LEMMA DerivedParts ==
    ASSUME NEW sender, NEW recipient, NEW start_time, NEW nonce, NEW id,
           id = derive_stream_id(sender, recipient, start_time, nonce)
    PROVE  Derived(id) /\ id[3] = start_time /\ id[4] = nonce
  BY DEF Derived, derive_stream_id

(* The nonce of a position is no id.                                         *)
LEMMA PositionsApart ==
    ASSUME NEW n
    PROVE  ~Derived(<<n>>)
  <1>1. SUFFICES ASSUME NEW a, NEW b, NEW c, NEW d, <<n>> = <<a, b, c, d>> PROVE FALSE
    BY DEF Derived, derive_stream_id
  <1>2. Len(<<n>>) = 1 /\ Len(<<a, b, c, d>>) = 4
    OBVIOUS
  <1> QED
    BY <1>1, <1>2

(* A stream is stored with an id that no stored stream has, ...              *)
LEMMA FreshPut ==
    ASSUME now \in Nat, NEW stored, NEW booked, FreshIn(stored, booked),
           NEW sender, NEW recipient, NEW t \in Nat, NEW nonce,
           NEW id, id = derive_stream_id(sender, recipient, t, nonce),
           id \notin DOMAIN stored, t <= now, id \in booked => t = now,
           Derived(nonce) => nonce \in booked /\ Retired(stored, nonce),
           NEW s, t = now => Young(s), NEW more, more = Put(stored, id, s)
    PROVE  FreshIn(more, booked \cup {id})
  <1>1. Derived(id) /\ id[3] = t /\ id[4] = nonce
    BY DerivedParts
  <1>2. /\ DOMAIN more = DOMAIN stored \cup {id} /\ more[id] = s
        /\ \A k \in DOMAIN stored : more[k] = stored[k]
    BY DEF Put
  <1>3. ASSUME NEW q \in booked, Retired(stored, q) PROVE Retired(more, q)
    <2>1. q # id
      BY <1>1, <1>3 DEF Retired
    <2> QED
      BY <1>2, <1>3, <2>1 DEF Retired
  <1>4. \A k \in DOMAIN more : k[3] = now => Young(more[k])
    BY <1>1, <1>2 DEF FreshIn
  <1>5. Dated(id)
    BY <1>1 DEF Dated
  <1>6. ASSUME NEW k \in booked \cup {id}
        PROVE  Dated(k) /\ (Derived(k[4]) => k[4] \in booked /\ Retired(more, k[4]))
    <2>1. CASE k \in booked
      BY <1>3, <2>1 DEF FreshIn
    <2>2. CASE k = id
      BY <1>1, <1>3, <1>5, <2>2
    <2> QED
      BY <2>1, <2>2
  <1> QED
    BY <1>4, <1>6 DEF FreshIn

(* ... changes, and no closed one flows again, ...                           *)
LEMMA FreshChange ==
    ASSUME NEW stored, NEW booked, FreshIn(stored, booked), NEW id \in DOMAIN stored,
           NEW s, Live(s) => Live(stored[id]), Young(stored[id]) => Young(s),
           NEW next, next = Put(stored, id, s)
    PROVE  FreshIn(next, booked)
  <1>1. /\ DOMAIN next = DOMAIN stored /\ next[id] = s
        /\ \A k \in DOMAIN stored : k # id => next[k] = stored[k]
    BY DEF Put
  <1>2. \A q : Retired(stored, q) => Retired(next, q)
    BY <1>1 DEF Retired
  <1>3. \A k \in DOMAIN next : k[3] = now => Young(next[k])
    BY <1>1 DEF FreshIn
  <1> QED
    BY <1>2, <1>3 DEF FreshIn

(* ... or goes: live, or long enough after it was made.                      *)
LEMMA FreshDrop ==
    ASSUME now \in Nat, NEW stored, NEW booked, FreshIn(stored, booked),
           DOMAIN stored \subseteq booked, NEW id \in DOMAIN stored,
           Live(stored[id]) \/ ~Young(stored[id]), NEW less, less = Drop(stored, id)
    PROVE  FreshIn(less, booked)
  <1>1. /\ DOMAIN less = DOMAIN stored \ {id}
        /\ \A k \in DOMAIN less : less[k] = stored[k]
    BY DEF Drop
  <1>2. ASSUME NEW q, Retired(stored, q) PROVE Retired(less, q)
    <2>1. CASE q # id
      BY <1>1, <1>2, <2>1 DEF Retired
    <2>2. CASE q = id
      <3>1. ~Young(stored[id]) /\ id \in booked
        BY <1>2, <2>2 DEF Retired
      <3>2. id[3] # now /\ id[3] \in Nat /\ id[3] <= now
        BY <3>1 DEF FreshIn, Dated
      <3> QED
        BY <1>1, <2>2, <3>2 DEF Retired
    <2> QED
      BY <2>1, <2>2
  <1>3. \A k \in DOMAIN less : k[3] = now => Young(less[k])
    BY <1>1 DEF FreshIn
  <1> QED
    BY <1>2, <1>3 DEF FreshIn

FreshInv == FreshIn(streams, DOMAIN escrow)

LEMMA FreshNow ==
    ASSUME now' = now, NEW stored, stored = streams', NEW booked, booked = DOMAIN escrow',
           FreshIn(stored, booked)
    PROVE  FreshInv'
  BY DEF FreshInv, FreshIn, Dated, Derived, derive_stream_id, Retired, Young, Live

LEMMA FreshLater ==
    ASSUME ContractInv, FreshInv, now' \in Nat, now' >= now, streams' = streams,
           DOMAIN escrow' = DOMAIN escrow
    PROVE  FreshInv'
  <1>1. now \in Nat /\ DOMAIN streams \subseteq DOMAIN escrow
    BY Basics DEF AllGood
  <1>2. CASE now' = now
    BY <1>2, FreshNow DEF FreshInv
  <1>3. CASE now' > now
    <2>1. \A k \in DOMAIN escrow : Dated(k) /\ k[3] # now'
      BY <1>1, <1>3 DEF FreshInv, FreshIn, Dated
    <2>2. \A k \in DOMAIN escrow : Dated(k)'
      BY <1>1, <1>3, <2>1 DEF Dated, Derived, derive_stream_id
    <2>3. \A q : Retired(streams, q) /\ q \in DOMAIN escrow => Retired(streams, q)'
      BY <1>1, <1>3, <2>1 DEF Retired, Live, Dated
    <2>4. \A q : Derived(q)' <=> Derived(q)
      BY DEF Derived, derive_stream_id
    <2>5. \A k \in DOMAIN escrow : Derived(k[4]) => k[4] \in DOMAIN escrow /\ Retired(streams, k[4])'
      BY <2>3 DEF FreshInv, FreshIn
    <2> QED
      BY <1>1, <2>1, <2>2, <2>4, <2>5 DEF FreshInv, FreshIn, Retired, Live
  <1> QED
    BY <1>1, <1>2, <1>3

(* So no split meets an id that was used.                                    *)
LEMMA FreshApart ==
    ASSUME ContractInv, FreshInv
    PROVE  SplitsApart
  <1> SUFFICES ASSUME NEW id, NEW new, NEW r, Divides(id, new, r), new \in DOMAIN escrow
               PROVE  FALSE
    BY DEF SplitsApart
  <1>1. id \in DOMAIN streams /\ Live(streams[id]) /\ id \in DOMAIN escrow
    BY Basics DEF Divides, AllGood
  <1>2. new[4] = id
    BY IdParts DEF Divides
  <1>3. Derived(id)
    BY <1>1 DEF FreshInv, FreshIn, Dated
  <1> QED
    BY <1>1, <1>2, <1>3 DEF FreshInv, FreshIn, Retired

LEMMA StepKeepsFresh ==
    ASSUME NoncesApart, ContractInv, FreshInv, [Next]_vars
    PROVE  FreshInv'
  <1>1. now \in Nat /\ DOMAIN streams \subseteq DOMAIN escrow /\ FreshIn(streams, DOMAIN escrow)
    BY Basics DEF AllGood, FreshInv
  <1> DEFINE Kept == FreshIn(streams', DOMAIN escrow')
  <1>2. ASSUME NEW id, NEW s, Opens(id, s) PROVE Kept
    <2>1. PICK nonce \in Nonces : id = derive_stream_id(s.sender, s.recipient, now, nonce)
      BY <1>2 DEF Opens
    <2>2. ~Derived(nonce)
      BY DEF NoncesApart, Derived
    <2>3. /\ id \notin DOMAIN streams /\ Young(s) /\ streams' = Put(streams, id, s)
          /\ DOMAIN escrow' = DOMAIN escrow \cup {id}
      BY <1>2, BookEffect DEF Opens, SaveStream
    <2> QED
      BY <1>1, <2>1, <2>2, <2>3, FreshPut
  <1>3. ASSUME NEW id, NEW r, Changes(id, r) PROVE Kept
    <2>1. /\ id \in DOMAIN streams /\ streams' = Put(streams, id, r)
          /\ Live(r) => Live(streams[id])
          /\ Young(streams[id]) => Young(r)
          /\ BooksLive(id)
      BY <1>3 DEF Changes, SaveStream
    <2>2. DOMAIN escrow' = DOMAIN escrow
      BY <1>1, <2>1, BookLiveEffect
    <2> QED
      BY <1>1, <2>1, <2>2, FreshChange
  <1>4. ASSUME NEW id, Closes(id) PROVE Kept
    <2>1. /\ id \in DOMAIN streams /\ streams' = Drop(streams, id)
          /\ Live(streams[id]) \/ ~Young(streams[id])
          /\ BooksLive(id)
      BY <1>4 DEF Closes, RemoveStream
    <2>2. DOMAIN escrow' = DOMAIN escrow
      BY <1>1, <2>1, BookLiveEffect
    <2> QED
      BY <1>1, <2>1, <2>2, FreshDrop
  <1>5. ASSUME NEW id, NEW new, NEW r, Divides(id, new, r) PROVE Kept
    <2>1. PICK s : s = streams[id]
      OBVIOUS
    <2>2. /\ id \in DOMAIN streams /\ s \in Streams /\ Live(s) /\ ScheduleSound(s)
          /\ new = derive_stream_id(s.sender, s.recipient, StreamClock(s), id)
          /\ StreamClock(s) = now => Young(r)
      BY <1>5, <2>1, Basics DEF Divides, GoodStream
    <2>3. StreamClock(s) \in Nat /\ StreamClock(s) <= now
      BY <1>1, <2>2, EarnedFits DEF ScheduleSound
    <2>4. PICK closed : closed = [s EXCEPT !.status = "Cancelled"]
      OBVIOUS
    <2>5. PICK mid : mid = Put(streams, id, closed)
      OBVIOUS
    <2>6. ~Live(closed) /\ (Young(s) => Young(closed))
      BY <2>2, <2>4 DEF Streams, Live, Young
    <2>7. FreshIn(mid, DOMAIN escrow)
      BY <1>1, <2>1, <2>2, <2>5, <2>6, FreshChange
    <2>8. new \notin DOMAIN escrow /\ new # id
      BY <1>1, <1>5, <2>2, FreshApart DEF SplitsApart
    <2>9. new \notin DOMAIN mid /\ id \in DOMAIN escrow /\ Retired(mid, id)
      BY <1>1, <2>2, <2>5, <2>6, <2>8 DEF Put, Retired
    <2>10. streams' = Put(mid, new, r)
      BY <1>5, <2>1, <2>4, <2>5 DEF Divides
    <2>11. DOMAIN escrow' = DOMAIN escrow \cup {new}
      <3>1. Parted(id, new, r)
        BY <1>5, <2>8, SplitParts
      <3> QED
        BY <3>1 DEF Parted
    <2>12. FreshIn(Put(mid, new, r), DOMAIN escrow \cup {new})
      BY <1>1, <2>2, <2>3, <2>7, <2>8, <2>9, FreshPut
    <2> QED
      BY <2>10, <2>11, <2>12
  <1>6. ASSUME Rests PROVE Kept
    BY <1>1, <1>6 DEF Rests
  <1>7. CASE StreamNext /\ now' = now
    <2> HIDE DEF Kept
    <2>1. Kept
      BY <1>2, <1>3, <1>4, <1>5, <1>6, <1>7, StreamStepEffect DEF StreamEffect
    <2> QED
      BY <1>7, <2>1, FreshNow DEF Kept
  <1>8. CASE UNCHANGED streamVars /\ now' \in Nat /\ now' >= now
    BY <1>8, FreshLater DEF streamVars
  <1> QED
    BY <1>7, <1>8, OtherSteps
-----------------------------------------------------------------------------
(* The global list: without a gap, and no stored stream is missed.           *)
GlobalListed(stored, index) ==
    index.count \in Nat /\ Gapless(index) /\ DOMAIN stored \subseteq Listed(index.slots)

LEMMA GlobalIndexed ==
    ASSUME NEW stored, NEW index, GlobalListed(stored, index), NEW id, NEW more,
           DOMAIN more \subseteq DOMAIN stored \cup {id}
    PROVE  GlobalListed(more, Indexed(index, id))
  <1>1. /\ index.count \in Nat /\ DOMAIN index.slots = 0..(index.count - 1)
        /\ DOMAIN stored \subseteq {index.slots[i] : i \in DOMAIN index.slots}
    BY DEF GlobalListed, Gapless, Listed
  <1>2. PICK next : next = Indexed(index, id)
    OBVIOUS
  <1>3. /\ next.count = index.count + 1
        /\ DOMAIN next.slots = DOMAIN index.slots \cup {index.count}
        /\ next.slots[index.count] = id
        /\ \A i \in DOMAIN index.slots : next.slots[i] = index.slots[i]
    BY <1>1, <1>2 DEF Indexed, Put
  <1>4. DOMAIN next.slots = 0..(next.count - 1) /\ next.count \in Nat
    BY <1>1, <1>3
  <1>5. \A x \in DOMAIN more : \E i \in DOMAIN next.slots : next.slots[i] = x
    BY <1>1, <1>3
  <1>6. DOMAIN more \subseteq {next.slots[i] : i \in DOMAIN next.slots}
    BY <1>5
  <1> QED
    BY <1>2, <1>4, <1>6 DEF GlobalListed, Gapless, Listed

(* A step of the stream contract keeps it so.                                *)
GlobalInv == GlobalListed(streams, global_ids)

LEMMA StepKeepsGlobal ==
    ASSUME ContractInv, SplitsApart, GlobalInv, [Next]_vars
    PROVE  GlobalInv'
  <1> DEFINE Kept == GlobalListed(streams', global_ids')
  <1>1. ASSUME global_ids' = global_ids, DOMAIN streams' \subseteq DOMAIN streams PROVE Kept
    BY <1>1 DEF GlobalInv, GlobalListed
  <1>2. ASSUME NEW id, NEW s, Opens(id, s) PROVE Kept
    <2>1. DOMAIN streams' = DOMAIN streams \cup {id} /\ global_ids' = Indexed(global_ids, id)
      BY <1>2, SaveEffect DEF Opens, IndexStream
    <2> QED
      BY <2>1, GlobalIndexed DEF GlobalInv
  <1>3. ASSUME NEW id, NEW r, Changes(id, r) PROVE Kept
    <2>1. id \in DOMAIN streams /\ SaveStream(id, r) /\ Relists(id, streams[id], r)
      BY <1>3 DEF Changes
    <2>2. DOMAIN streams' = DOMAIN streams
      BY <2>1, SaveEffect
    <2>3. global_ids' = global_ids
      BY <2>1 DEF Relists, indexVars
    <2> QED
      BY <1>1, <2>2, <2>3
  <1>4. ASSUME NEW id, Closes(id) PROVE Kept
    BY <1>1, <1>4, RemoveEffect DEF Closes, RemoveStream
  <1>5. ASSUME NEW id, NEW new, NEW r, Divides(id, new, r) PROVE Kept
    <2>1. new # id
      BY <1>5, Basics DEF Divides, SplitsApart, AllGood
    <2>2. DOMAIN streams' = DOMAIN streams \cup {new}
      <3>1. Parted(id, new, r)
        BY <1>5, <2>1, SplitParts
      <3> QED
        BY <3>1 DEF Parted
    <2>3. global_ids' = Indexed(global_ids, new)
      BY <1>5 DEF Divides, IndexStream
    <2> QED
      BY <2>2, <2>3, GlobalIndexed DEF GlobalInv
  <1>6. ASSUME Rests PROVE Kept
    BY <1>1, <1>6 DEF Rests, indexVars
  <1>7. ASSUME StreamNext PROVE Kept
    <2> HIDE DEF Kept
    <2> QED
      BY <1>2, <1>3, <1>4, <1>5, <1>6, <1>7, StreamStepEffect DEF StreamEffect
  <1>8. ASSUME UNCHANGED streamVars PROVE Kept
    BY <1>1, <1>8 DEF streamVars, indexVars
  <1>9. Kept
    BY <1>7, <1>8, OtherSteps
  <1> QED
    BY <1>9 DEF GlobalInv, GlobalListed, Gapless, Listed

(* Lists and ids, of the contract as it is and as a batch works on it.       *)
OrderInv == PartiesInv /\ GlobalInv /\ FreshInv
InOrder(w) ==
    /\ PartiesListed(w.streams, w.sender_ids, w.recipient_ids)
    /\ GlobalListed(w.streams, w.global_ids)
    /\ FreshIn(w.streams, DOMAIN w.escrow)

LEMMA StepKeepsOrder ==
    ASSUME NoncesApart, ContractInv, OrderInv, [Next]_vars
    PROVE  OrderInv'
  <1>1. PartiesInv /\ GlobalInv /\ FreshInv /\ SplitsApart
    BY FreshApart DEF OrderInv
  <1> QED
    BY <1>1, StepKeepsParties, StepKeepsGlobal, StepKeepsFresh DEF OrderInv

-----------------------------------------------------------------------------
(* What an item does to the streams, the lists and the accounts: it adds a   *)
(* stream, serves one, or takes one out, and spares the others.              *)
SparesOthers(w, r, id) ==
    /\ DOMAIN r.escrow = DOMAIN w.escrow \cup {id}
    /\ \A k \in DOMAIN w.escrow : k # id => r.escrow[k] = w.escrow[k]
ItemAdds(w, r, id, s) ==
    /\ s.sender \in Users /\ s.recipient \in Users /\ Young(s)
    /\ r.streams = Put(w.streams, id, s)
    /\ r.sender_ids = [w.sender_ids EXCEPT ![s.sender] = Indexed(@, id)]
    /\ r.recipient_ids = [w.recipient_ids EXCEPT ![s.recipient] = Indexed(@, id)]
    /\ r.global_ids = Indexed(w.global_ids, id)
    /\ SparesOthers(w, r, id)
    /\ id \in DOMAIN w.escrow => r.escrow[id] >= w.escrow[id]
ItemServes(w, r, id, s) ==
    /\ id \in DOMAIN w.streams /\ Live(w.streams[id])
    /\ SameParties(w.streams[id], s) /\ (Young(w.streams[id]) => Young(s))
    /\ r.streams = Put(w.streams, id, s)
    /\ r.sender_ids = w.sender_ids /\ r.recipient_ids = w.recipient_ids
    /\ r.global_ids = w.global_ids
    /\ SparesOthers(w, r, id)
ItemTakes(w, r, id) ==
    /\ id \in DOMAIN w.streams /\ Live(w.streams[id])
    /\ r.streams = Drop(w.streams, id)
    /\ r.sender_ids =
          [w.sender_ids EXCEPT ![w.streams[id].sender] = Unindexed(@, id)]
    /\ r.recipient_ids =
          [w.recipient_ids EXCEPT ![w.streams[id].recipient] = Unindexed(@, id)]
    /\ r.global_ids = w.global_ids
    /\ SparesOthers(w, r, id)

LEMMA AddedInOrder ==
    ASSUME now \in Nat, NEW w, InOrder(w), NEW sender, NEW recipient, NEW nonce, ~Derived(nonce),
           NEW id, id = derive_stream_id(sender, recipient, now, nonce),
           id \notin DOMAIN w.streams, NEW s, NEW r, ItemAdds(w, r, id, s)
    PROVE  InOrder(r)
  <1>1. PICK stored, sent, received, more :
           /\ stored = w.streams /\ sent = w.sender_ids /\ received = w.recipient_ids
           /\ more = r.streams
    OBVIOUS
  <1>2. /\ PartiesListed(stored, sent, received) /\ id \notin DOMAIN stored
        /\ GlobalListed(stored, w.global_ids) /\ FreshIn(stored, DOMAIN w.escrow)
        /\ s.sender \in Users /\ s.recipient \in Users /\ Young(s)
        /\ more = Put(stored, id, s)
        /\ r.sender_ids = [sent EXCEPT ![s.sender] = Indexed(@, id)]
        /\ r.recipient_ids = [received EXCEPT ![s.recipient] = Indexed(@, id)]
        /\ r.global_ids = Indexed(w.global_ids, id)
        /\ DOMAIN r.escrow = DOMAIN w.escrow \cup {id}
    BY <1>1 DEF InOrder, ItemAdds, SparesOthers
  <1>3. /\ DOMAIN more = DOMAIN stored \cup {id} /\ more[id] = s
        /\ \A k \in DOMAIN stored : SameParties(stored[k], more[k])
    BY <1>2 DEF Put, SameParties
  <1>4. PartiesListed(more, r.sender_ids, r.recipient_ids)
    BY <1>2, <1>3, NewStreamListed
  <1>5. GlobalListed(more, r.global_ids)
    BY <1>2, <1>3, GlobalIndexed
  <1>6. FreshIn(more, DOMAIN r.escrow)
    <2>1. FreshIn(more, DOMAIN w.escrow \cup {id})
      BY <1>2, FreshPut
    <2> QED
      BY <1>2, <2>1
  <1> QED
    BY <1>1, <1>4, <1>5, <1>6 DEF InOrder

LEMMA ServedInOrder ==
    ASSUME NEW w, InOrder(w), DOMAIN w.streams \subseteq DOMAIN w.escrow,
           NEW id, NEW s, NEW r, ItemServes(w, r, id, s)
    PROVE  InOrder(r)
  <1>1. PICK stored, next : stored = w.streams /\ next = r.streams
    OBVIOUS
  <1>2. /\ PartiesListed(stored, w.sender_ids, w.recipient_ids)
        /\ GlobalListed(stored, w.global_ids) /\ FreshIn(stored, DOMAIN w.escrow)
        /\ id \in DOMAIN stored /\ Live(stored[id])
        /\ SameParties(stored[id], s) /\ (Young(stored[id]) => Young(s))
        /\ next = Put(stored, id, s)
        /\ r.sender_ids = w.sender_ids /\ r.recipient_ids = w.recipient_ids
        /\ r.global_ids = w.global_ids /\ DOMAIN r.escrow = DOMAIN w.escrow
    BY <1>1 DEF InOrder, ItemServes, SparesOthers
  <1>3. DOMAIN next = DOMAIN stored /\ \A k \in DOMAIN stored : SameParties(stored[k], next[k])
    BY <1>2 DEF Put, SameParties
  <1>4. PartiesListed(next, r.sender_ids, r.recipient_ids)
    BY <1>2, <1>3, ChangedListed
  <1>5. GlobalListed(next, r.global_ids)
    BY <1>2, <1>3 DEF GlobalListed
  <1>6. FreshIn(next, DOMAIN r.escrow)
    BY <1>2, FreshChange
  <1> QED
    BY <1>1, <1>4, <1>5, <1>6 DEF InOrder

LEMMA TakenInOrder ==
    ASSUME now \in Nat, NEW w, InOrder(w), DOMAIN w.streams \subseteq DOMAIN w.escrow,
           NEW id, NEW r, ItemTakes(w, r, id)
    PROVE  InOrder(r)
  <1>1. PICK stored, sent, received, less :
           /\ stored = w.streams /\ sent = w.sender_ids /\ received = w.recipient_ids
           /\ less = r.streams
    OBVIOUS
  <1>2. /\ PartiesListed(stored, sent, received)
        /\ GlobalListed(stored, w.global_ids) /\ FreshIn(stored, DOMAIN w.escrow)
        /\ id \in DOMAIN stored /\ Live(stored[id])
        /\ less = Drop(stored, id)
        /\ r.sender_ids = [sent EXCEPT ![stored[id].sender] = Unindexed(@, id)]
        /\ r.recipient_ids = [received EXCEPT ![stored[id].recipient] = Unindexed(@, id)]
        /\ r.global_ids = w.global_ids /\ DOMAIN r.escrow = DOMAIN w.escrow
    BY <1>1 DEF InOrder, ItemTakes, SparesOthers
  <1>3. PartiesListed(less, r.sender_ids, r.recipient_ids)
    BY <1>2, RemovedUnlisted
  <1>4. GlobalListed(less, r.global_ids)
    BY <1>2 DEF GlobalListed, Drop
  <1>5. FreshIn(less, DOMAIN r.escrow)
    BY <1>1, <1>2, FreshDrop
  <1> QED
    BY <1>1, <1>3, <1>4, <1>5 DEF InOrder
-----------------------------------------------------------------------------
(* What a batch works on, ...                                                *)
IsWork(w) == DOMAIN w = {"ok", "bal", "streams", "sender_ids", "recipient_ids",
                         "global_ids", "escrow", "recorded"}

(* ... between v and w the treasury is told at most what it is paid, ...     *)
FedBetween(v, w) ==
    /\ w.recorded \in [Tokens -> Int]
    /\ \A t \in Tokens :
          /\ w.recorded[t] >= v.recorded[t]
          /\ w.recorded[t] - v.recorded[t] <=
                w.bal[t][TreasuryAddress] - v.bal[t][TreasuryAddress]

(* ... and what every item leaves: all streams covered, each and together.   *)
Covers(b, stored) ==
    IsFiniteSet(DOMAIN stored) /\ \A t \in Tokens : b[t][Contract] >= Locked(stored, t)
WorkInv(w) ==
    /\ IsWork(w)
    /\ w.bal \in Balances
    /\ AllGood(w.streams, w.escrow)
    /\ \A id \in DOMAIN w.streams : w.streams[id].sender # TreasuryAddress
    /\ Covers(w.bal, w.streams)
    /\ DOMAIN w.sender_ids = Users /\ DOMAIN w.recipient_ids = Users
    /\ FedBetween(Present, w)

LEMMA FedOn ==
    ASSUME NEW v, NEW w, NEW r, v.recorded \in [Tokens -> Int], v.bal \in Balances,
           w.bal \in Balances, r.bal \in Balances, FedBetween(v, w), FedBetween(w, r)
    PROVE  FedBetween(v, r)
  <1>1. \A t \in Tokens : /\ v.bal[t][TreasuryAddress] \in Nat
                          /\ w.bal[t][TreasuryAddress] \in Nat
                          /\ r.bal[t][TreasuryAddress] \in Nat
                          /\ v.recorded[t] \in Int /\ w.recorded[t] \in Int
                          /\ r.recorded[t] \in Int
    BY Balance, MoneyAccounts DEF FedBetween
  <1>2. ASSUME NEW t \in Tokens
        PROVE  /\ r.recorded[t] >= v.recorded[t]
               /\ r.recorded[t] - v.recorded[t] <=
                    r.bal[t][TreasuryAddress] - v.bal[t][TreasuryAddress]
    <2>1. /\ w.recorded[t] >= v.recorded[t] /\ r.recorded[t] >= w.recorded[t]
          /\ w.recorded[t] - v.recorded[t] <=
                w.bal[t][TreasuryAddress] - v.bal[t][TreasuryAddress]
          /\ r.recorded[t] - w.recorded[t] <=
                r.bal[t][TreasuryAddress] - w.bal[t][TreasuryAddress]
      BY DEF FedBetween
    <2> QED
      BY <1>1, <2>1
  <1> QED
    BY <1>2 DEF FedBetween

(* The sum stays covered when a stream is stored, ...                        *)
LEMMA PutCovers ==
    ASSUME NEW stored, NEW b \in Balances, NEW c \in Balances, Covers(b, stored),
           \A k \in DOMAIN stored : Owed(stored[k]) \in Nat,
           NEW id, NEW s, Owed(s) \in Nat, NEW token \in Tokens, token = s.token,
           c[token][Contract] >= b[token][Contract] + Owed(s) - OwesIn(stored, id, token),
           \A t \in Tokens \ {token} : c[t][Contract] = b[t][Contract]
    PROVE  Covers(c, Put(stored, id, s))
  <1>1. IsFiniteSet(DOMAIN stored)
    BY DEF Covers
  <1>2. ASSUME NEW t \in Tokens
        PROVE  /\ IsFiniteSet(DOMAIN Put(stored, id, s))
               /\ c[t][Contract] >= Locked(Put(stored, id, s), t)
    <2>1. /\ IsFiniteSet(DOMAIN Put(stored, id, s))
          /\ Locked(stored, t) \in Int
          /\ Locked(Put(stored, id, s), t)
                = Locked(stored, t) - OwesIn(stored, id, t)
                  + (IF s.token = t THEN Owed(s) ELSE 0)
      BY <1>1, LockedPut
    <2>2. /\ b[t][Contract] \in Nat /\ c[t][Contract] \in Nat
          /\ b[t][Contract] >= Locked(stored, t)
      BY Balance, MoneyAccounts DEF Covers
    <2>3. OwesIn(stored, id, t) \in Nat
      BY DEF OwesIn
    <2> QED
      BY <2>1, <2>2, <2>3
  <1>3. IsFiniteSet(DOMAIN Put(stored, id, s))
    BY <1>1, LockedPut
  <1> QED
    BY <1>2, <1>3 DEF Covers

(* ... or taken out.                                                         *)
LEMMA DropCovers ==
    ASSUME NEW stored, NEW b \in Balances, NEW c \in Balances, Covers(b, stored),
           \A k \in DOMAIN stored : Owed(stored[k]) \in Nat,
           NEW id \in DOMAIN stored, NEW token \in Tokens, stored[id].token = token,
           c[token][Contract] >= b[token][Contract] - Owed(stored[id]),
           \A t \in Tokens \ {token} : c[t][Contract] = b[t][Contract]
    PROVE  Covers(c, Drop(stored, id))
  <1>1. IsFiniteSet(DOMAIN stored)
    BY DEF Covers
  <1>2. ASSUME NEW t \in Tokens
        PROVE  c[t][Contract] >= Locked(Drop(stored, id), t)
    <2>1. /\ Locked(stored, t) \in Int
          /\ Locked(Drop(stored, id), t) = Locked(stored, t) - OwesIn(stored, id, t)
      BY <1>1, LockedDrop
    <2>2. /\ b[t][Contract] \in Nat /\ c[t][Contract] \in Nat
          /\ b[t][Contract] >= Locked(stored, t)
      BY Balance, MoneyAccounts DEF Covers
    <2>3. OwesIn(stored, id, t) = IF t = token THEN Owed(stored[id]) ELSE 0
      BY DEF OwesIn
    <2> QED
      BY <2>1, <2>2, <2>3
  <1>3. IsFiniteSet(DOMAIN Drop(stored, id))
    BY <1>1, LockedDrop
  <1> QED
    BY <1>2, <1>3 DEF Covers

(* An item moves d of a token into the contract, or out of it, and leaves    *)
(* its other tokens alone.                                                   *)
Moves(w, r, token, d) ==
    /\ IsWork(r) /\ r.bal \in Balances
    /\ DOMAIN r.sender_ids = Users /\ DOMAIN r.recipient_ids = Users
    /\ FedBetween(w, r)
    /\ d \in Int /\ r.bal[token][Contract] = w.bal[token][Contract] + d
    /\ \A t \in Tokens \ {token} : r.bal[t][Contract] = w.bal[t][Contract]

LEMMA WorkOwes ==
    ASSUME NEW w, WorkInv(w), now \in Nat
    PROVE  \A k \in DOMAIN w.streams :
              /\ GoodStream(w.streams[k]) /\ Owed(w.streams[k]) \in Nat
              /\ w.streams[k].token \in Tokens /\ w.streams[k].sender \in Users
              /\ w.streams[k].recipient \in Users
              /\ k \in DOMAIN w.escrow /\ w.escrow[k] \in Nat
              /\ w.escrow[k] >= Owed(w.streams[k])
  <1>1. ASSUME NEW k \in DOMAIN w.streams
        PROVE  /\ GoodStream(w.streams[k]) /\ k \in DOMAIN w.escrow
               /\ w.escrow[k] \in Nat /\ w.escrow[k] >= Owed(w.streams[k])
    BY DEF WorkInv, AllGood
  <1>2. ASSUME NEW k \in DOMAIN w.streams
        PROVE  /\ w.streams[k].token \in Tokens /\ w.streams[k].sender \in Users
               /\ w.streams[k].recipient \in Users
    BY <1>1 DEF GoodStream, Streams
  <1>3. ASSUME NEW k \in DOMAIN w.streams PROVE Owed(w.streams[k]) \in Nat
    BY <1>1, OwedIsNat
  <1> QED
    BY <1>1, <1>2, <1>3

(* An item that stores a stream and pays in what the stream owes more than   *)
(* before, or more.                                                          *)
LEMMA WorkPut ==
    ASSUME now \in Nat, TreasuryInv, NEW w, WorkInv(w), NEW id, NEW s, GoodStream(s),
           s.sender # TreasuryAddress, NEW token \in Tokens, token = s.token,
           NEW d, NEW r, Moves(w, r, token, d),
           r.streams = Put(w.streams, id, s), r.escrow = Credit(w.escrow, id, d),
           d >= Owed(s) - OwesIn(w.streams, id, token)
    PROVE  WorkInv(r)
  <1>1. PICK stored, held : stored = w.streams /\ held = w.escrow
    OBVIOUS
  <1>2. PICK b \in Balances, c \in Balances : b = w.bal /\ c = r.bal
    BY DEF WorkInv, Moves
  <1>3. /\ AllGood(stored, held) /\ Covers(b, stored) /\ d \in Int
        /\ c[token][Contract] = b[token][Contract] + d
        /\ \A t \in Tokens \ {token} : c[t][Contract] = b[t][Contract]
        /\ d >= Owed(s) - OwesIn(stored, id, token)
    BY <1>1, <1>2 DEF WorkInv, Moves
  <1>4. /\ \A k \in DOMAIN stored : Owed(stored[k]) \in Nat
        /\ Owed(s) \in Nat
    BY <1>1, WorkOwes, OwedIsNat
  <1>5. OwesIn(stored, id, token) \in Nat /\ OwesIn(stored, id, token) <= HeldIn(held, id)
        /\ HeldIn(held, id) \in Nat
    <2>1. CASE id \in DOMAIN stored
      <3>1. id \in DOMAIN held /\ held[id] \in Nat /\ held[id] >= Owed(stored[id])
        BY <1>3, <2>1 DEF AllGood
      <3> QED
        BY <1>4, <2>1, <3>1 DEF OwesIn, HeldIn
    <2>2. CASE id \notin DOMAIN stored
      <3>1. id \in DOMAIN held => held[id] \in Nat
        BY <1>3 DEF AllGood
      <3> QED
        BY <2>2, <3>1 DEF OwesIn, HeldIn
    <2> QED
      BY <2>1, <2>2
  <1>6. AllGood(Put(stored, id, s), Credit(held, id, d))
    <2>1. HeldIn(held, id) + d \in Nat /\ HeldIn(held, id) + d >= Owed(s)
      BY <1>3, <1>4, <1>5
    <2> QED
      BY <1>3, <2>1, PutKeeps
  <1>7. Covers(c, Put(stored, id, s))
    <2>1. b[token][Contract] \in Nat
      BY Balance, MoneyAccounts
    <2>2. c[token][Contract] >= b[token][Contract] + Owed(s) - OwesIn(stored, id, token)
      BY <1>3, <1>4, <1>5, <2>1
    <2> QED
      BY <1>3, <1>4, <2>2, PutCovers
  <1>8. \A k \in DOMAIN Put(stored, id, s) : Put(stored, id, s)[k].sender # TreasuryAddress
    BY <1>1 DEF WorkInv, Put
  <1>9. FedBetween(Present, r)
    <2>1. Present.recorded \in [Tokens -> Int] /\ Present.bal \in Balances
      BY DEF Present, TreasuryInv
    <2> QED
      BY <2>1, FedOn DEF WorkInv, Moves
  <1> QED
    BY <1>1, <1>2, <1>6, <1>7, <1>8, <1>9 DEF WorkInv, Moves

(* An item that takes a stream out and pays no more than the stream owes.    *)
LEMMA WorkDrop ==
    ASSUME now \in Nat, TreasuryInv, NEW w, WorkInv(w), NEW id \in DOMAIN w.streams,
           NEW token \in Tokens, token = w.streams[id].token,
           NEW d, NEW r, Moves(w, r, token, d),
           r.streams = Drop(w.streams, id), r.escrow = Credit(w.escrow, id, d),
           d >= 0 - Owed(w.streams[id])
    PROVE  WorkInv(r)
  <1>1. PICK stored, held : stored = w.streams /\ held = w.escrow
    OBVIOUS
  <1>2. PICK b \in Balances, c \in Balances : b = w.bal /\ c = r.bal
    BY DEF WorkInv, Moves
  <1>3. /\ AllGood(stored, held) /\ Covers(b, stored) /\ d \in Int
        /\ id \in DOMAIN stored /\ token = stored[id].token
        /\ c[token][Contract] = b[token][Contract] + d
        /\ \A t \in Tokens \ {token} : c[t][Contract] = b[t][Contract]
        /\ d >= 0 - Owed(stored[id])
    BY <1>1, <1>2 DEF WorkInv, Moves
  <1>4. \A k \in DOMAIN stored : Owed(stored[k]) \in Nat
    BY <1>1, WorkOwes
  <1>5. AllGood(Drop(stored, id), Credit(held, id, d))
    <2>1. id \in DOMAIN held /\ held[id] \in Nat /\ held[id] >= Owed(stored[id])
      BY <1>3 DEF AllGood
    <2>2. HeldIn(held, id) = held[id]
      BY <2>1 DEF HeldIn
    <2>3. HeldIn(held, id) + d \in Nat
      BY <1>3, <1>4, <2>1, <2>2
    <2> QED
      BY <1>3, <2>3, DropKeeps
  <1>6. Covers(c, Drop(stored, id))
    <2>1. b[token][Contract] \in Nat
      BY Balance, MoneyAccounts
    <2>2. c[token][Contract] >= b[token][Contract] - Owed(stored[id])
      BY <1>3, <1>4, <2>1
    <2> QED
      BY <1>3, <1>4, <2>2, DropCovers
  <1>7. \A k \in DOMAIN Drop(stored, id) : Drop(stored, id)[k].sender # TreasuryAddress
    BY <1>1 DEF WorkInv, Drop
  <1>8. FedBetween(Present, r)
    <2>1. Present.recorded \in [Tokens -> Int] /\ Present.bal \in Balances
      BY DEF Present, TreasuryInv
    <2> QED
      BY <2>1, FedOn DEF WorkInv, Moves
  <1> QED
    BY <1>1, <1>2, <1>5, <1>6, <1>7, <1>8 DEF WorkInv, Moves

-----------------------------------------------------------------------------
(* What a payment of the contract leaves.                                    *)
PaidOut(b, c, token, n) ==
    /\ c[token][Contract] = b[token][Contract] - n /\ b[token][Contract] \in Int
    /\ \A t \in Tokens \ {token} : c[t][Contract] = b[t][Contract]
    /\ \A t \in Tokens, u \in Users : /\ b[t][u] \in Nat /\ c[t][u] \in Nat
                                      /\ c[t][u] >= b[t][u]

LEMMA LoanPays ==
    ASSUME NEW token \in Tokens, NEW b, Loan(b, token), NEW to \in Users, NEW n \in Nat,
           NEW c, c = PayOut(b, token, to, n)
    PROVE  Loan(c, token) /\ PaidOut(b, c, token, n) /\ c[token][to] = b[token][to] + n
  <1>1. /\ Loan(c, token) /\ c[token][Contract] = b[token][Contract] - n
        /\ b[token][Contract] \in Int
    BY PayOutCosts
  <1>2. /\ c[token][to] = b[token][to] + n
        /\ \A t \in Tokens, a \in Accounts :
              t # token \/ (a # to /\ a # Contract) => c[t][a] = b[t][a]
    BY PayOutPays
  <1>3. \A t \in Tokens, u \in Users : b[t][u] \in Nat /\ c[t][u] \in Nat
    BY <1>1, ContractApart DEF Loan
  <1>4. ASSUME NEW t \in Tokens, NEW u \in Users PROVE c[t][u] >= b[t][u]
    <2>1. CASE t = token /\ u = to
      BY <1>2, <1>3, <2>1
    <2>2. CASE t # token \/ u # to
      BY <1>2, <1>3, <2>2, ContractApart
    <2> QED
      BY <2>1, <2>2
  <1>5. \A t \in Tokens \ {token} : c[t][Contract] = b[t][Contract]
    BY <1>2, ContractApart
  <1> QED
    BY <1>1, <1>2, <1>3, <1>4, <1>5 DEF PaidOut

LEMMA PaidTwice ==
    ASSUME NEW token \in Tokens, NEW a, NEW b, NEW c, NEW m \in Nat, NEW n \in Nat,
           PaidOut(a, b, token, m), PaidOut(b, c, token, n)
    PROVE  PaidOut(a, c, token, m + n)
  <1>1. \A t \in Tokens, u \in Users :
           /\ a[t][u] \in Nat /\ b[t][u] \in Nat /\ c[t][u] \in Nat
           /\ c[t][u] >= b[t][u] /\ b[t][u] >= a[t][u]
    BY DEF PaidOut
  <1>2. \A t \in Tokens, u \in Users :
           a[t][u] \in Nat /\ c[t][u] \in Nat /\ c[t][u] >= a[t][u]
    BY <1>1
  <1>3. c[token][Contract] = a[token][Contract] - (m + n) /\ a[token][Contract] \in Int
    BY DEF PaidOut
  <1> QED
    BY <1>2, <1>3 DEF PaidOut

(* A claim and its fee cost the contract the claim, or less when nobody      *)
(* takes the fee; the treasury, if it is the one, gets it.                   *)
LEMMA ClaimPaysOut ==
    ASSUME FeesTypeOK, NEW token \in Tokens, NEW b \in Balances, NEW payee \in Users,
           NEW n \in Nat, NEW fee \in 0..n, NEW c, c = PayClaim(b, token, payee, n, fee),
           Funded(c, token)
    PROVE  /\ c \in Balances
           /\ \E m \in Nat : m <= n /\ PaidOut(b, c, token, m)
           /\ treasury = TreasuryAddress
              => c[token][TreasuryAddress] >= b[token][TreasuryAddress] + fee
  <1>1. PICK rest \in Nat : rest = n - fee
    OBVIOUS
  <1>2. fee \in Nat /\ rest + fee = n /\ rest <= n
    BY <1>1
  <1>3. PICK served : served = PayOut(b, token, payee, rest)
    OBVIOUS
  <1>4. Loan(b, token)
    BY BalancesAreLoan
  <1>5. Loan(served, token) /\ PaidOut(b, served, token, rest)
    BY <1>3, <1>4, LoanPays
  <1>6. c = IF treasury = None THEN served ELSE PayOut(served, token, treasury, fee)
    BY <1>1, <1>3 DEF PayClaim
  <1>7. CASE treasury = None
    <2>1. c \in Balances
      BY <1>5, <1>6, <1>7, LoanFunded
    <2>2. treasury # TreasuryAddress
      BY <1>7, OutsideAssumption, TreasuryAssumption
    <2> QED
      BY <1>2, <1>5, <1>6, <1>7, <2>1, <2>2
  <1>8. CASE treasury # None
    <2>1. PICK to \in Users : to = treasury
      BY <1>8 DEF FeesTypeOK
    <2>2. c = PayOut(served, token, to, fee)
      BY <1>6, <1>8, <2>1
    <2>3. /\ Loan(c, token) /\ PaidOut(served, c, token, fee)
          /\ c[token][to] = served[token][to] + fee
      BY <1>2, <1>5, <2>2, LoanPays
    <2>4. c \in Balances
      BY <2>3, LoanFunded
    <2>5. PaidOut(b, c, token, rest + fee)
      BY <1>2, <1>5, <2>3, PaidTwice
    <2>6. b[token][to] \in Nat /\ served[token][to] \in Nat
          /\ served[token][to] >= b[token][to]
      BY <1>5 DEF PaidOut
    <2>7. c[token][to] >= b[token][to] + fee
      BY <1>2, <2>3, <2>6
    <2> QED
      BY <1>2, <2>1, <2>4, <2>5, <2>7
  <1> QED
    BY <1>7, <1>8

(* A deposit of a user reaches the contract, and is not the treasury's.      *)
LEMMA PaysIn ==
    ASSUME NEW token \in Tokens, NEW b \in Balances, NEW from \in Users,
           from # TreasuryAddress, NEW n \in Nat, CanPay(b, token, from, n),
           NEW c, c = Move(b, token, from, Contract, n)
    PROVE  /\ c \in Balances /\ c[token][Contract] = b[token][Contract] + n
           /\ \A t \in Tokens \ {token} : c[t][Contract] = b[t][Contract]
           /\ \A t \in Tokens : c[t][TreasuryAddress] = b[t][TreasuryAddress]
  <1>1. /\ c \in Balances
        /\ \A t \in Tokens : c[t][Contract] =
              IF t = token THEN b[t][Contract] + n ELSE b[t][Contract]
    BY UserPays, ContractApart
  <1>2. /\ TreasuryAddress \in Accounts /\ TreasuryAddress # Contract
        /\ from \in Accounts /\ Contract \in Accounts
    BY TreasuryAssumption, ContractApart
  <1>3. \A t \in Tokens : c[t][TreasuryAddress] = b[t][TreasuryAddress]
    <2> DEFINE debited == [b EXCEPT ![token][from] = @ - n]
    <2>1. \A t \in Tokens : debited[t][TreasuryAddress] = b[t][TreasuryAddress]
      BY <1>2 DEF Balances
    <2>2. DOMAIN debited = Tokens /\ DOMAIN debited[token] = Accounts
      BY <1>2 DEF Balances
    <2>3. c = [debited EXCEPT ![token][Contract] = @ + n]
      BY DEF Move
    <2> HIDE DEF debited
    <2> QED
      BY <1>2, <2>1, <2>2, <2>3
  <1> QED
    BY <1>1, <1>3

-----------------------------------------------------------------------------
(* The parts of what a batch works on that an item changes.                  *)
LEMMA BookedWork ==
    ASSUME NEW w, IsWork(w), NEW id, NEW token, NEW b, NEW v, v = Booked(w, id, token, b)
    PROVE  /\ IsWork(v) /\ v.ok = w.ok /\ v.bal = b
           /\ v.escrow = Credit(w.escrow, id, b[token][Contract] - w.bal[token][Contract])
           /\ v.streams = w.streams /\ v.recorded = w.recorded
           /\ v.sender_ids = w.sender_ids /\ v.recipient_ids = w.recipient_ids
           /\ v.global_ids = w.global_ids
  BY DEF Booked, IsWork

LEMMA RemovedWork ==
    ASSUME NEW w, IsWork(w), NEW id, NEW v, v = Removed(w, id)
    PROVE  /\ IsWork(v) /\ v.ok = w.ok /\ v.bal = w.bal /\ v.escrow = w.escrow
           /\ v.streams = Drop(w.streams, id) /\ v.recorded = w.recorded
           /\ DOMAIN v.sender_ids = DOMAIN w.sender_ids
           /\ DOMAIN v.recipient_ids = DOMAIN w.recipient_ids
  BY DEF Removed, IsWork

OffLists(w, v, id) ==
    /\ v.global_ids = w.global_ids
    /\ v.sender_ids = [w.sender_ids EXCEPT ![w.streams[id].sender] = Unindexed(@, id)]
    /\ v.recipient_ids =
          [w.recipient_ids EXCEPT ![w.streams[id].recipient] = Unindexed(@, id)]

LEMMA RemovedFromLists ==
    ASSUME NEW w, IsWork(w), NEW id, NEW v, v = Removed(w, id)
    PROVE  OffLists(w, v, id)
  BY DEF Removed, IsWork, OffLists

(* A booking spares the accounts of the other streams.                       *)
LEMMA BookingSpares ==
    ASSUME NEW w, NEW r, NEW id, NEW n, r.escrow = Credit(w.escrow, id, n)
    PROVE  /\ SparesOthers(w, r, id)
           /\ id \in DOMAIN w.escrow => r.escrow[id] = n + w.escrow[id]
  <1>1. PICK held, next : held = w.escrow /\ next = r.escrow
    OBVIOUS
  <1>2. /\ DOMAIN next = DOMAIN held \cup {id}
        /\ \A k \in DOMAIN held : k # id => next[k] = held[k]
        /\ id \in DOMAIN held => next[id] = n + held[id]
    BY <1>1 DEF Credit, Put
  <1> QED
    BY <1>1, <1>2 DEF SparesOthers

LEMMA RevertedWork ==
    ASSUME NEW w, IsWork(w)
    PROVE  ~Reverted(w).ok
  BY DEF Reverted, IsWork

(* The treasury is not told of anything.                                     *)
LEMMA FedByNothing ==
    ASSUME NEW w, NEW r, w.bal \in Balances, r.bal \in Balances,
           w.recorded \in [Tokens -> Int], r.recorded = w.recorded,
           \A t \in Tokens : r.bal[t][TreasuryAddress] >= w.bal[t][TreasuryAddress]
    PROVE  FedBetween(w, r)
  <1>1. \A t \in Tokens : /\ w.recorded[t] \in Int
                          /\ w.bal[t][TreasuryAddress] \in Nat
                          /\ r.bal[t][TreasuryAddress] \in Nat
    BY Balance, MoneyAccounts
  <1> QED
    BY <1>1 DEF FedBetween

(* batch_create_stream, one item.                                            *)
BatchStream(sender, item, terms) ==
    [sender |-> sender, recipient |-> item.recipient, token |-> item.token,
     deposit |-> item.amount, flow_rate |-> item.amount \div terms.duration_seconds,
     start_time |-> now, cliff_time |-> now, lock_until |-> item.lock_until,
     end_time |-> now + terms.duration_seconds,
     last_withdraw_time |-> now, status |-> "Active",
     auto_renew |-> terms.auto_renew, allow_recipient_termination |-> FALSE,
     last_pause_time |-> 0, total_withdrawn |-> 0]

LEMMA BatchStreamGood ==
    ASSUME now \in U64, NEW sender \in Users, NEW item \in BatchItems, NEW terms \in BatchTerms,
           item.amount > 0, item.amount \div terms.duration_seconds # 0,
           terms.duration_seconds > 0, now + terms.duration_seconds <= U64_MAX
    PROVE  /\ GoodStream(BatchStream(sender, item, terms))
           /\ Owed(BatchStream(sender, item, terms)) = item.amount
           /\ item.amount \in Nat /\ item.token \in Tokens /\ item.recipient \in Users
  <1>1. /\ item.recipient \in Users /\ item.token \in Tokens
        /\ item.lock_until \in U64 /\ item.amount \in I128
        /\ terms.duration_seconds \in U64 /\ terms.auto_renew \in BOOLEAN
    <2>1. /\ item.recipient \in Recipients /\ item.token \in Tokens
          /\ item.lock_until \in Locks /\ item.amount \in Amounts
          /\ terms.duration_seconds \in BatchDurations /\ terms.auto_renew \in RenewChoices
      BY DEF BatchItems, BatchTerms
    <2> QED
      BY <2>1, StreamInputs, BatchAssumption
  <1>2. PICK d, amount, rate : /\ d = terms.duration_seconds /\ amount = item.amount
                               /\ rate = amount \div d
    OBVIOUS
  <1>3. d \in Nat \ {0} /\ d \in U64 /\ now \in Nat /\ amount \in Nat /\ amount \in 1..I128_MAX
    BY <1>1, <1>2, WidthAssumption DEF U64, I128
  <1>4. rate \in Nat /\ d * rate <= amount /\ rate <= amount
    BY <1>2, <1>3, DivisionRoundsDown
  <1>5. rate \in 1..I128_MAX
    BY <1>2, <1>3, <1>4, WidthAssumption
  <1>6. now + d \in U64 /\ 0 \in U64 /\ 0 \in 0..I128_MAX
    BY <1>2, <1>3, WidthAssumption DEF U64
  <1>7. PICK s : s = BatchStream(sender, item, terms)
    OBVIOUS
  <1>8. /\ s \in Streams
        /\ s.status = "Active" /\ s.total_withdrawn = 0
        /\ s.last_withdraw_time = now /\ s.start_time = now
        /\ s.end_time = now + d /\ s.flow_rate = rate /\ s.deposit = amount
    BY <1>1, <1>2, <1>3, <1>5, <1>6, <1>7 DEF BatchStream, Streams
  <1>9. rate * ((now + d) - now) <= amount /\ now + d >= now
    <2>1. (now + d) - now = d /\ now + d >= now
      BY <1>3
    <2>2. rate * d = d * rate
      BY <1>3, <1>4
    <2> QED
      BY <1>4, <2>1, <2>2
  <1>10. GoodStream(s) /\ Owed(s) = amount
    BY <1>3, <1>8, <1>9, FreshGood
  <1> QED
    BY <1>1, <1>2, <1>3, <1>7, <1>10

LEMMA CreateItemKeeps ==
    ASSUME ContractInv, TreasuryInv, TreasuryApart, NEW w, WorkInv(w),
           NEW sender \in Senders, NEW item \in BatchItems, NEW terms \in BatchTerms, NEW id,
           item.amount > 0, item.amount \div terms.duration_seconds # 0,
           terms.duration_seconds > 0, now + terms.duration_seconds <= U64_MAX,
           NEW r, r = create_item(w, sender, item, id, terms), r.ok
    PROVE  WorkInv(r) /\ ItemAdds(w, r, id, BatchStream(sender, item, terms))
  <1>1. /\ now \in U64 /\ now \in Nat /\ sender \in Users /\ sender # TreasuryAddress
        /\ IsWork(w) /\ w.bal \in Balances /\ w.recorded \in [Tokens -> Int]
        /\ DOMAIN w.sender_ids = Users /\ DOMAIN w.recipient_ids = Users
    BY Basics, StreamInputs DEF TreasuryApart, WorkInv, FedBetween
  <1>2. PICK s : s = BatchStream(sender, item, terms)
    OBVIOUS
  <1>3. /\ GoodStream(s) /\ Owed(s) = item.amount
        /\ item.amount \in Nat /\ item.token \in Tokens /\ item.recipient \in Users
    BY <1>1, <1>2, BatchStreamGood
  <1>4. s.sender = sender /\ s.recipient = item.recipient /\ s.token = item.token /\ Young(s)
    <2>1. terms.duration_seconds \in U64
      BY BatchAssumption DEF BatchTerms
    <2>2. PICK d \in Nat \ {0} : d = terms.duration_seconds
      BY <2>1, WidthAssumption DEF U64
    <2> QED
      BY <1>1, <1>2, <2>2 DEF BatchStream, Young
  <1>5. PICK b : b = Move(w.bal, item.token, sender, Contract, item.amount)
    OBVIOUS
  <1>6. PICK v : v = Booked(w, id, item.token, b)
    OBVIOUS
  <1>7. /\ CanPay(w.bal, item.token, sender, item.amount)
        /\ r = [v EXCEPT !.streams = Put(@, id, s),
                         !.sender_ids[sender] = Indexed(@, id),
                         !.recipient_ids[item.recipient] = Indexed(@, id),
                         !.global_ids = Indexed(@, id)]
    <2>1. ~Reverted(w).ok
      BY <1>1, RevertedWork
    <2> QED
      BY <1>2, <1>5, <1>6, <2>1 DEF create_item, BatchStream
  <1>8. PICK token \in Tokens, n \in Nat : token = item.token /\ n = item.amount
    BY <1>3
  <1>9. /\ b \in Balances /\ b[token][Contract] = w.bal[token][Contract] + n
        /\ \A t \in Tokens \ {token} : b[t][Contract] = w.bal[t][Contract]
        /\ \A t \in Tokens : b[t][TreasuryAddress] = w.bal[t][TreasuryAddress]
    <2>1. PICK old \in Balances : old = w.bal
      BY <1>1
    <2>2. CanPay(old, token, sender, n) /\ b = Move(old, token, sender, Contract, n)
      BY <1>5, <1>7, <1>8, <2>1
    <2>3. /\ b \in Balances /\ b[token][Contract] = old[token][Contract] + n
          /\ \A t \in Tokens \ {token} : b[t][Contract] = old[t][Contract]
          /\ \A t \in Tokens : b[t][TreasuryAddress] = old[t][TreasuryAddress]
      BY <1>1, <2>2, PaysIn
    <2> QED
      BY <2>1, <2>3
  <1>10. /\ IsWork(v) /\ v.bal = b /\ v.recorded = w.recorded /\ v.streams = w.streams
         /\ v.escrow = Credit(w.escrow, id, b[token][Contract] - w.bal[token][Contract])
         /\ v.sender_ids = w.sender_ids /\ v.recipient_ids = w.recipient_ids
         /\ v.global_ids = w.global_ids
    BY <1>1, <1>6, <1>8, BookedWork
  <1>11. /\ IsWork(r) /\ r.bal = b /\ r.recorded = v.recorded /\ r.escrow = v.escrow
         /\ r.streams = Put(v.streams, id, s)
         /\ DOMAIN r.sender_ids = DOMAIN v.sender_ids
         /\ DOMAIN r.recipient_ids = DOMAIN v.recipient_ids
         /\ r.sender_ids = [v.sender_ids EXCEPT ![sender] = Indexed(@, id)]
         /\ r.recipient_ids = [v.recipient_ids EXCEPT ![item.recipient] = Indexed(@, id)]
         /\ r.global_ids = Indexed(v.global_ids, id)
    BY <1>7, <1>10 DEF IsWork
  <1>12. b[token][Contract] - w.bal[token][Contract] = n
    BY <1>1, <1>9, Balance, MoneyAccounts
  <1>13. Moves(w, r, token, n)
    <2>1. FedBetween(w, r)
      <3>1. \A t \in Tokens : b[t][TreasuryAddress] \in Nat
        BY <1>9, Balance, MoneyAccounts
      <3> QED
        BY <1>1, <1>9, <1>10, <1>11, <3>1, FedByNothing
    <2> QED
      BY <1>1, <1>9, <1>10, <1>11, <2>1 DEF Moves
  <1>14. /\ r.streams = Put(w.streams, id, s) /\ r.escrow = Credit(w.escrow, id, n)
         /\ s.sender # TreasuryAddress /\ token = s.token
    BY <1>1, <1>4, <1>8, <1>10, <1>11, <1>12
  <1>15. n >= Owed(s) - OwesIn(w.streams, id, token)
    <2>1. OwesIn(w.streams, id, token) \in Nat
      BY <1>1, WorkOwes DEF OwesIn
    <2> QED
      BY <1>3, <1>8, <2>1
  <1>16. ItemAdds(w, r, id, s)
    <2>1. /\ SparesOthers(w, r, id)
          /\ id \in DOMAIN w.escrow => r.escrow[id] = n + w.escrow[id]
      BY <1>14, BookingSpares
    <2>2. id \in DOMAIN w.escrow => w.escrow[id] \in Nat
      BY DEF WorkInv, AllGood
    <2>3. id \in DOMAIN w.escrow => r.escrow[id] >= w.escrow[id]
      BY <2>1, <2>2
    <2> QED
      BY <1>1, <1>3, <1>4, <1>10, <1>11, <1>14, <2>1, <2>3 DEF ItemAdds
  <1> QED
    BY <1>1, <1>2, <1>3, <1>13, <1>14, <1>15, <1>16, WorkPut

-----------------------------------------------------------------------------
(* batch_withdraw, one item.  v is the u that serve_item is given, with the  *)
(* stream stored as served.                                                  *)
ServedIn(u, id, s, v) ==
    /\ IsWork(u) /\ IsWork(v) /\ id \in DOMAIN u.streams
    /\ v.bal = u.bal /\ v.escrow = u.escrow /\ v.recorded = u.recorded
    /\ v.sender_ids = u.sender_ids /\ v.recipient_ids = u.recipient_ids
    /\ v.streams = Put(u.streams, id, s)

LEMMA ServedFacts ==
    ASSUME now \in Nat, NEW u, NEW id, NEW s, NEW v, ServedIn(u, id, s, v), WorkInv(v)
    PROVE  /\ id \in DOMAIN v.streams /\ v.streams[id] = s
           /\ GoodStream(s) /\ Owed(s) \in Nat /\ s.sender # TreasuryAddress
           /\ s.sender \in Users /\ s.token \in Tokens
           /\ IsWork(v) /\ v.bal \in Balances /\ v.recorded \in [Tokens -> Int]
           /\ DOMAIN v.sender_ids = Users /\ DOMAIN v.recipient_ids = Users
  <1>1. id \in DOMAIN v.streams /\ v.streams[id] = s
    BY DEF ServedIn, Put
  <1> QED
    BY <1>1, WorkOwes DEF WorkInv, FedBetween

LEMMA ServeFlows ==
    ASSUME NEW u, NEW id, NEW s, NEW v, ServedIn(u, id, s, v), WorkInv(v),
           NEW r, r = [u EXCEPT !.streams[id] = s]
    PROVE  WorkInv(r)
  <1>1. [u.streams EXCEPT ![id] = s] = Put(u.streams, id, s)
    BY DEF ServedIn, Put
  <1>2. /\ IsWork(r) /\ r.bal = v.bal /\ r.escrow = v.escrow /\ r.recorded = v.recorded
        /\ r.sender_ids = v.sender_ids /\ r.recipient_ids = v.recipient_ids
        /\ r.streams = v.streams
    BY <1>1 DEF ServedIn, IsWork
  <1> QED
    BY <1>2 DEF WorkInv, FedBetween

LEMMA ServeRenews ==
    ASSUME now \in Nat, TreasuryInv, NEW u, NEW id, NEW s, NEW v, ServedIn(u, id, s, v),
           WorkInv(v), s.status = "Active", now >= s.end_time,
           s.end_time + (s.end_time - s.start_time) <= U64_MAX,
           CanPay(u.bal, s.token, s.sender, s.deposit), NEW r,
           r = [Booked(u, id, s.token, Move(u.bal, s.token, s.sender, Contract, s.deposit))
                EXCEPT !.streams[id] = Renewed(s, s.end_time + (s.end_time - s.start_time))]
    PROVE  WorkInv(r)
  <1>1. /\ id \in DOMAIN v.streams /\ v.streams[id] = s
        /\ GoodStream(s) /\ Owed(s) \in Nat /\ s.sender # TreasuryAddress
        /\ s.sender \in Users /\ s.token \in Tokens
        /\ IsWork(v) /\ v.bal \in Balances /\ v.recorded \in [Tokens -> Int]
        /\ DOMAIN v.sender_ids = Users /\ DOMAIN v.recipient_ids = Users
    BY ServedFacts
  <1>2. PICK renewed : renewed = Renewed(s, s.end_time + (s.end_time - s.start_time))
    OBVIOUS
  <1>3. /\ GoodStream(renewed) /\ Owed(renewed) = s.deposit
        /\ renewed.sender = s.sender /\ renewed.token = s.token /\ s.deposit \in Nat
    <2>1. s \in Streams /\ ScheduleSound(s)
      BY <1>1 DEF GoodStream, Live
    <2>2. GoodStream(renewed) /\ Owed(renewed) = s.deposit
      BY <1>2, <2>1, RenewedGood
    <2>3. renewed.sender = s.sender /\ renewed.token = s.token
      BY <1>2, <2>1 DEF Renewed, Streams
    <2> QED
      BY <2>1, <2>2, <2>3, StreamFields
  <1>4. PICK token \in Tokens, n \in Nat, from \in Users :
           token = s.token /\ n = s.deposit /\ from = s.sender
    BY <1>1, <1>3
  <1>5. PICK old \in Balances : old = v.bal
    BY <1>1
  <1>6. PICK b : b = Move(old, token, from, Contract, n)
    OBVIOUS
  <1>7. /\ u.bal = old /\ u.escrow = v.escrow /\ u.recorded = v.recorded /\ IsWork(u)
        /\ u.sender_ids = v.sender_ids /\ u.recipient_ids = v.recipient_ids
        /\ v.streams = Put(u.streams, id, s) /\ id \in DOMAIN u.streams
    BY <1>5 DEF ServedIn
  <1>8. /\ b \in Balances /\ b[token][Contract] = old[token][Contract] + n
        /\ \A t \in Tokens \ {token} : b[t][Contract] = old[t][Contract]
        /\ \A t \in Tokens : b[t][TreasuryAddress] = old[t][TreasuryAddress]
    <2>1. CanPay(old, token, from, n) /\ from # TreasuryAddress
      BY <1>1, <1>4, <1>7
    <2> QED
      BY <1>6, <2>1, PaysIn
  <1>9. PICK x : x = Booked(u, id, token, b)
    OBVIOUS
  <1>10. r = [x EXCEPT !.streams[id] = renewed]
    BY <1>2, <1>4, <1>6, <1>7, <1>9
  <1>11. /\ IsWork(x) /\ x.bal = b /\ x.recorded = u.recorded /\ x.streams = u.streams
         /\ x.escrow = Credit(u.escrow, id, b[token][Contract] - u.bal[token][Contract])
         /\ x.sender_ids = u.sender_ids /\ x.recipient_ids = u.recipient_ids
    BY <1>7, <1>9, BookedWork
  <1>12. b[token][Contract] - old[token][Contract] = n
    BY <1>8, Balance, MoneyAccounts
  <1>13. [u.streams EXCEPT ![id] = renewed] = Put(v.streams, id, renewed)
    BY <1>7 DEF Put
  <1>14. /\ IsWork(r) /\ r.bal = b /\ r.recorded = v.recorded
         /\ r.escrow = Credit(v.escrow, id, n) /\ r.streams = Put(v.streams, id, renewed)
         /\ r.sender_ids = v.sender_ids /\ r.recipient_ids = v.recipient_ids
    BY <1>7, <1>10, <1>11, <1>12, <1>13 DEF IsWork
  <1>15. Moves(v, r, token, n)
    <2>1. FedBetween(v, r)
      <3>1. \A t \in Tokens : b[t][TreasuryAddress] \in Nat
        BY <1>8, Balance, MoneyAccounts
      <3>2. \A t \in Tokens : r.bal[t][TreasuryAddress] >= v.bal[t][TreasuryAddress]
        BY <1>5, <1>8, <1>14, <3>1
      <3> QED
        BY <1>1, <1>8, <1>14, <3>2, FedByNothing
    <2> QED
      BY <1>1, <1>5, <1>8, <1>14, <2>1, SMTT(30) DEF Moves
  <1>16. n >= Owed(renewed) - OwesIn(v.streams, id, token)
    <2>1. OwesIn(v.streams, id, token) = Owed(s)
      BY <1>1, <1>4 DEF OwesIn
    <2> QED
      BY <1>1, <1>3, <1>4, <2>1
  <1>17. renewed.sender # TreasuryAddress /\ token = renewed.token
    BY <1>1, <1>3, <1>4
  <1> QED
    BY <1>3, <1>14, <1>15, <1>16, <1>17, WorkPut

LEMMA ServeSettles ==
    ASSUME now \in Nat, TreasuryInv, NEW u, NEW id, NEW s, NEW v, ServedIn(u, id, s, v),
           WorkInv(v), Dust(s) \in Nat, Dust(s) <= Owed(s),
           Funded(PayOut(u.bal, s.token, s.sender, Dust(s)), s.token), NEW r,
           r = Removed(Booked(u, id, s.token, PayOut(u.bal, s.token, s.sender, Dust(s))), id)
    PROVE  WorkInv(r)
  <1>1. /\ id \in DOMAIN v.streams /\ v.streams[id] = s
        /\ GoodStream(s) /\ Owed(s) \in Nat
        /\ s.sender \in Users /\ s.token \in Tokens
        /\ IsWork(v) /\ v.bal \in Balances /\ v.recorded \in [Tokens -> Int]
        /\ DOMAIN v.sender_ids = Users /\ DOMAIN v.recipient_ids = Users
    BY ServedFacts
  <1>2. PICK token \in Tokens, n \in Nat, to \in Users :
           token = s.token /\ n = Dust(s) /\ to = s.sender
    BY <1>1
  <1>3. PICK old \in Balances : old = v.bal
    BY <1>1
  <1>4. PICK b : b = PayOut(old, token, to, n)
    OBVIOUS
  <1>5. /\ u.bal = old /\ u.escrow = v.escrow /\ u.recorded = v.recorded /\ IsWork(u)
        /\ u.sender_ids = v.sender_ids /\ u.recipient_ids = v.recipient_ids
        /\ v.streams = Put(u.streams, id, s) /\ id \in DOMAIN u.streams
    BY <1>3 DEF ServedIn
  <1>6. b \in Balances /\ PaidOut(old, b, token, n)
    <2>1. Loan(old, token)
      BY BalancesAreLoan
    <2>2. Loan(b, token) /\ PaidOut(old, b, token, n)
      BY <1>4, <2>1, LoanPays
    <2>3. Funded(b, token)
      BY <1>2, <1>4, <1>5
    <2> QED
      BY <2>2, <2>3, LoanFunded
  <1>7. PICK x : x = Booked(u, id, token, b)
    OBVIOUS
  <1>8. r = Removed(x, id)
    BY <1>2, <1>4, <1>5, <1>7
  <1>9. /\ IsWork(x) /\ x.bal = b /\ x.recorded = u.recorded /\ x.streams = u.streams
        /\ x.escrow = Credit(u.escrow, id, b[token][Contract] - u.bal[token][Contract])
        /\ x.sender_ids = u.sender_ids /\ x.recipient_ids = u.recipient_ids
    BY <1>5, <1>7, BookedWork
  <1>10. /\ IsWork(r) /\ r.bal = x.bal /\ r.escrow = x.escrow
         /\ r.streams = Drop(x.streams, id) /\ r.recorded = x.recorded
         /\ DOMAIN r.sender_ids = DOMAIN x.sender_ids
         /\ DOMAIN r.recipient_ids = DOMAIN x.recipient_ids
    BY <1>8, <1>9, RemovedWork
  <1>11. PICK d \in Int : d = 0 - n
    OBVIOUS
  <1>12. /\ b[token][Contract] - old[token][Contract] = d
         /\ b[token][Contract] = old[token][Contract] + d
    BY <1>6, <1>11 DEF PaidOut
  <1>13. Drop(u.streams, id) = Drop(v.streams, id)
    BY <1>5 DEF Put, Drop
  <1>14. r.escrow = Credit(v.escrow, id, d) /\ r.streams = Drop(v.streams, id)
         /\ r.bal = b /\ r.recorded = v.recorded
         /\ DOMAIN r.sender_ids = Users /\ DOMAIN r.recipient_ids = Users
    BY <1>1, <1>5, <1>9, <1>10, <1>12, <1>13
  <1>15. Moves(v, r, token, d)
    <2>1. FedBetween(v, r)
      <3>1. \A t \in Tokens : b[t][TreasuryAddress] >= old[t][TreasuryAddress]
        BY <1>6, TreasuryAssumption DEF PaidOut
      <3> QED
        BY <1>1, <1>3, <1>6, <1>14, <3>1, FedByNothing
    <2> QED
      BY <1>3, <1>6, <1>10, <1>12, <1>14, <2>1 DEF Moves, PaidOut
  <1>16. d >= 0 - Owed(v.streams[id]) /\ token = v.streams[id].token
    BY <1>1, <1>2, <1>11
  <1> QED
    BY <1>1, <1>14, <1>15, <1>16, WorkDrop

LEMMA ServeKeeps ==
    ASSUME now \in Nat, TreasuryInv, NEW u, NEW id, NEW s, NEW v, ServedIn(u, id, s, v),
           WorkInv(v), s.status = "Active", Dust(s) \in Nat, Dust(s) <= Owed(s),
           NEW r, r = serve_item(u, id, s), r.ok
    PROVE  WorkInv(r)
  <1>1. ~Reverted(u).ok
    BY RevertedWork DEF ServedIn
  <1>2. s.end_time \in Nat
    BY ServedFacts, StreamFields DEF GoodStream
  <1>3. CASE now < s.end_time
    <2>1. r = [u EXCEPT !.streams[id] = s]
      BY <1>3 DEF serve_item
    <2> QED
      BY <2>1, ServeFlows
  <1>4. CASE /\ ~(now < s.end_time) /\ s.auto_renew
             /\ CanPay(u.bal, s.token, s.sender, s.deposit)
             /\ s.end_time + (s.end_time - s.start_time) <= U64_MAX
    <2>1. r = [Booked(u, id, s.token, Move(u.bal, s.token, s.sender, Contract, s.deposit))
               EXCEPT !.streams[id] = Renewed(s, s.end_time + (s.end_time - s.start_time))]
      BY <1>4 DEF serve_item
    <2>2. now >= s.end_time
      BY <1>2, <1>4
    <2> QED
      BY <1>4, <2>1, <2>2, ServeRenews
  <1>5. CASE /\ ~(now < s.end_time)
             /\ ~(/\ s.auto_renew /\ CanPay(u.bal, s.token, s.sender, s.deposit)
                  /\ s.end_time + (s.end_time - s.start_time) <= U64_MAX)
    <2>1. /\ Funded(PayOut(u.bal, s.token, s.sender, Dust(s)), s.token)
          /\ r = Removed(Booked(u, id, s.token, PayOut(u.bal, s.token, s.sender, Dust(s))), id)
      BY <1>1, <1>5 DEF serve_item
    <2> QED
      BY <2>1, ServeSettles
  <1> QED
    BY <1>3, <1>4, <1>5

(* What serving does to the stream, the lists and the accounts.  u has       *)
(* booked the claim.                                                         *)
Claims(w, u, id) ==
    /\ IsWork(u) /\ id \in DOMAIN w.streams /\ Live(w.streams[id])
    /\ u.streams = w.streams /\ u.sender_ids = w.sender_ids
    /\ u.recipient_ids = w.recipient_ids /\ u.global_ids = w.global_ids
    /\ SparesOthers(w, u, id)
ItemPays(w, r, id) == ItemTakes(w, r, id) \/ \E s : ItemServes(w, r, id, s)

LEMMA SparesOn ==
    ASSUME NEW w, NEW u, NEW r, NEW id, SparesOthers(w, u, id), SparesOthers(u, r, id)
    PROVE  SparesOthers(w, r, id)
  BY DEF SparesOthers

LEMMA ServeShape ==
    ASSUME NEW w, NEW u, NEW id, Claims(w, u, id), NEW s, s \in Streams,
           SameParties(w.streams[id], s),
           Young(w.streams[id]) => Young(s) /\ now < s.end_time,
           NEW r, r = serve_item(u, id, s), r.ok
    PROVE  ItemPays(w, r, id)
  <1>1. ~Reverted(u).ok
    BY RevertedWork DEF Claims
  <1>2. CASE now < s.end_time
    <2>1. r = [u EXCEPT !.streams[id] = s]
      BY <1>2 DEF serve_item
    <2>2. /\ r.streams = [w.streams EXCEPT ![id] = s] /\ r.escrow = u.escrow
          /\ r.sender_ids = w.sender_ids /\ r.recipient_ids = w.recipient_ids
          /\ r.global_ids = w.global_ids
      BY <2>1 DEF Claims, IsWork
    <2>3. r.streams = Put(w.streams, id, s)
      BY <2>2 DEF Claims, Put
    <2>4. SparesOthers(w, r, id)
      BY <2>2 DEF Claims, SparesOthers
    <2>5. ItemServes(w, r, id, s)
      BY <2>2, <2>3, <2>4 DEF Claims, ItemServes
    <2> QED
      BY <2>5 DEF ItemPays
  <1>3. CASE /\ ~(now < s.end_time) /\ s.auto_renew
             /\ CanPay(u.bal, s.token, s.sender, s.deposit)
             /\ s.end_time + (s.end_time - s.start_time) <= U64_MAX
    <2>1. PICK renewed : renewed = Renewed(s, s.end_time + (s.end_time - s.start_time))
      OBVIOUS
    <2>2. PICK x : x = Booked(u, id, s.token, Move(u.bal, s.token, s.sender, Contract, s.deposit))
      OBVIOUS
    <2>3. r = [x EXCEPT !.streams[id] = renewed]
      BY <1>3, <2>1, <2>2 DEF serve_item
    <2>4. /\ IsWork(x) /\ x.streams = w.streams /\ x.sender_ids = w.sender_ids
          /\ x.recipient_ids = w.recipient_ids /\ x.global_ids = w.global_ids
          /\ \E n : x.escrow = Credit(u.escrow, id, n)
      BY <2>2, BookedWork DEF Claims
    <2>5. /\ r.streams = [w.streams EXCEPT ![id] = renewed] /\ r.escrow = x.escrow
          /\ r.sender_ids = w.sender_ids /\ r.recipient_ids = w.recipient_ids
          /\ r.global_ids = w.global_ids
      BY <2>3, <2>4 DEF IsWork
    <2>6. r.streams = Put(w.streams, id, renewed)
      BY <2>5 DEF Claims, Put
    <2>7. SparesOthers(w, r, id)
      <3>1. SparesOthers(u, r, id)
        BY <2>4, <2>5, BookingSpares
      <3> QED
        BY <3>1, SparesOn DEF Claims
    <2>8. SameParties(w.streams[id], renewed) /\ ~Young(w.streams[id])
      BY <1>3, <2>1 DEF SameParties, Renewed, Streams
    <2>9. ItemServes(w, r, id, renewed)
      BY <2>5, <2>6, <2>7, <2>8 DEF Claims, ItemServes
    <2> QED
      BY <2>9 DEF ItemPays
  <1>4. CASE /\ ~(now < s.end_time)
             /\ ~(/\ s.auto_renew /\ CanPay(u.bal, s.token, s.sender, s.deposit)
                  /\ s.end_time + (s.end_time - s.start_time) <= U64_MAX)
    <2>1. PICK x : x = Booked(u, id, s.token, PayOut(u.bal, s.token, s.sender, Dust(s)))
      OBVIOUS
    <2>2. r = Removed(x, id)
      BY <1>1, <1>4, <2>1 DEF serve_item
    <2>3. /\ IsWork(x) /\ x.streams = w.streams /\ x.sender_ids = w.sender_ids
          /\ x.recipient_ids = w.recipient_ids /\ x.global_ids = w.global_ids
          /\ \E n : x.escrow = Credit(u.escrow, id, n)
      BY <2>1, BookedWork DEF Claims
    <2>4. /\ r.streams = Drop(x.streams, id) /\ r.escrow = x.escrow
      BY <2>2, <2>3, RemovedWork
    <2>5. OffLists(x, r, id)
      BY <2>2, <2>3, RemovedFromLists
    <2>6. SparesOthers(w, r, id)
      <3>1. SparesOthers(u, r, id)
        BY <2>3, <2>4, BookingSpares
      <3> QED
        BY <3>1, SparesOn DEF Claims
    <2>7. ItemTakes(w, r, id)
      BY <2>3, <2>4, <2>5, <2>6 DEF Claims, ItemTakes, OffLists
    <2> QED
      BY <2>7 DEF ItemPays
  <1> QED
    BY <1>2, <1>3, <1>4

(* The fee is told to the treasury only if it was paid to it.                *)
LEMMA RecordedIsPaid ==
    ASSUME NEW w, w.recorded \in [Tokens -> Int], w.bal \in Balances,
           NEW token \in Tokens, NEW n, NEW fee \in Nat, NEW c \in Balances,
           \A t \in Tokens : c[t][TreasuryAddress] >= w.bal[t][TreasuryAddress],
           treasury = TreasuryAddress
              => c[token][TreasuryAddress] >= w.bal[token][TreasuryAddress] + fee,
           NEW r, r.bal = c, r.recorded = RecordedFee(w, token, n, fee)
    PROVE  FedBetween(w, r)
  <1>1. \A t \in Tokens : /\ w.recorded[t] \in Int
                          /\ w.bal[t][TreasuryAddress] \in Nat
                          /\ c[t][TreasuryAddress] \in Nat
    BY Balance, MoneyAccounts
  <1>2. CASE r.recorded = w.recorded
    BY <1>1, <1>2 DEF FedBetween
  <1>3. CASE treasury = TreasuryAddress /\ r.recorded = Recorded(w.recorded, token, fee)
    <2>1. r.recorded = [w.recorded EXCEPT ![token] = w.recorded[token] + fee]
      BY <1>3 DEF Recorded
    <2>2. /\ r.recorded \in [Tokens -> Int]
          /\ \A t \in Tokens : r.recorded[t] =
                IF t = token THEN w.recorded[t] + fee ELSE w.recorded[t]
      BY <1>1, <2>1
    <2>3. ASSUME NEW t \in Tokens
          PROVE  /\ r.recorded[t] >= w.recorded[t]
                 /\ r.recorded[t] - w.recorded[t] <=
                       r.bal[t][TreasuryAddress] - w.bal[t][TreasuryAddress]
      <3>1. CASE t = token
        BY <1>1, <1>3, <2>2, <3>1
      <3>2. CASE t # token
        BY <1>1, <2>2, <3>2
      <3> QED
        BY <3>1, <3>2
    <2> QED
      BY <2>2, <2>3 DEF FedBetween
  <1> QED
    BY <1>2, <1>3 DEF RecordedFee

(* The claim of an item, the stream as served, and what is left of it.       *)
LEMMA ServedItem ==
    ASSUME now \in U64, now \in Nat, FeesTypeOK, NEW s, GoodStream(s), s.status = "Active",
           NEW claim, claim = compute_earned(s.flow_rate, now, s.end_time, s.last_withdraw_time),
           NEW payee, NEW fee, fee = ProtocolFee(claim, payee), fee # None,
           NEW served, served = Served(s, claim, now)
    PROVE  /\ claim \in Nat /\ fee \in 0..claim
           /\ GoodStream(served) /\ served.status = "Active"
           /\ served.sender = s.sender /\ served.token = s.token
           /\ Owed(served) \in Nat /\ Owed(s) = Owed(served) + claim
           /\ Dust(served) \in Nat /\ Dust(served) <= Owed(served)
           /\ Live(s) /\ SameParties(s, served)
           /\ Young(s) => Young(served) /\ now < served.end_time
  <1>1. s \in Streams /\ ScheduleSound(s) /\ Live(s) /\ StreamClock(s) = now
    BY DEF GoodStream, Live, StreamClock
  <1>2. Payable(s, claim)
    BY <1>1, EarnedPayable
  <1>3. claim \in Nat /\ s.deposit \in Nat /\ s.total_withdrawn \in Nat
    BY <1>1, <1>2, StreamFields DEF Payable
  <1>4. fee \in 0..claim
    <2>1. PICK bps \in 0..BASIS_POINTS : bps = fee_bps
      BY DEF FeesTypeOK
    <2>2. (claim * bps) \div BASIS_POINTS \in 0..claim
      BY <1>3, FeePart
    <2>3. fee = 0 \/ fee = (claim * bps) \div BASIS_POINTS
      BY <2>1 DEF ProtocolFee
    <2> QED
      BY <1>3, <2>2, <2>3
  <1>5. /\ served \in Streams /\ ScheduleSound(served) /\ Live(served)
        /\ served.status = s.status /\ served.token = s.token /\ served.sender = s.sender
        /\ Owed(served) = s.deposit - s.total_withdrawn - claim
        /\ Dust(served) = Dust(s)
    BY <1>1, <1>2, ServedGood
  <1>9. SameParties(s, served)
    BY <1>1, <1>2, ServedGood DEF SameParties
  <1>10. /\ served.total_withdrawn = s.total_withdrawn + claim
         /\ served.start_time = s.start_time /\ served.end_time = s.end_time
    BY <1>1, <1>2, ServedGood
  <1>11. ASSUME Young(s) PROVE Young(served) /\ now < served.end_time
    <2>1. claim = 0 /\ now < s.end_time
      BY <1>1, <1>2, <1>11, YoungEarnsNothing
    <2> QED
      BY <1>10, <1>11, <2>1 DEF Young
  <1>6. GoodStream(served) /\ Owed(served) \in Nat
    BY <1>5, OwedIsNat DEF GoodStream
  <1>7. Owed(s) = s.deposit - s.total_withdrawn
    BY <1>1 DEF Owed
  <1>8. Dust(s) \in Nat /\ Dust(s) <= s.deposit - s.total_withdrawn - claim
    <2>1. PICK whole \in Nat : whole = s.flow_rate * (s.end_time - s.start_time)
      BY <1>1, EarnedFits
    <2>2. s.total_withdrawn + claim <= whole
      BY <1>2, <2>1 DEF Payable
    <2>3. Dust(s) = s.deposit - whole /\ Dust(s) \in Nat
      BY <1>1, <2>1, DustIsRest
    <2> QED
      BY <1>3, <2>1, <2>2, <2>3
  <1> QED
    BY <1>1, <1>3, <1>4, <1>5, <1>6, <1>7, <1>8, <1>9, <1>11

LEMMA WithdrawItemKeeps ==
    ASSUME ContractInv, TreasuryInv, NEW w, WorkInv(w), NEW recipient \in Users, NEW id,
           NEW r, r = withdraw_item(w, recipient, id), r.ok
    PROVE  /\ WorkInv(r) /\ ItemPays(w, r, id)
           /\ w.streams[id].recipient = recipient
  <1>1. /\ now \in U64 /\ now \in Nat /\ FeesTypeOK
        /\ IsWork(w) /\ w.bal \in Balances /\ w.recorded \in [Tokens -> Int]
        /\ DOMAIN w.sender_ids = Users /\ DOMAIN w.recipient_ids = Users
        /\ ~Reverted(w).ok
    BY Basics, RevertedWork DEF WorkInv, FedBetween
  <1>2. id \in DOMAIN w.streams
    BY <1>1 DEF withdraw_item
  <1>3. PICK s : s = w.streams[id]
    OBVIOUS
  <1>4. /\ GoodStream(s) /\ Owed(s) \in Nat /\ s.token \in Tokens /\ s.sender \in Users
        /\ s.sender # TreasuryAddress
    BY <1>1, <1>2, <1>3, WorkOwes DEF WorkInv
  <1>5. PICK claim : claim = compute_earned(s.flow_rate, now, s.end_time, s.last_withdraw_time)
    OBVIOUS
  <1>6. PICK fee : fee = IF claim = None THEN None ELSE ProtocolFee(claim, recipient)
    OBVIOUS
  <1>7. PICK token \in Tokens, old \in Balances : token = s.token /\ old = w.bal
    BY <1>1, <1>4
  <1>8. PICK paid : paid = PayClaim(old, token, recipient, claim, fee)
    OBVIOUS
  <1>9. PICK served : served = Served(s, claim, now)
    OBVIOUS
  <1>10. PICK u : u = [Booked(w, id, token, paid)
                       EXCEPT !.recorded = RecordedFee(w, token, claim, fee)]
    OBVIOUS
  <1>11. /\ s.status = "Active" /\ fee # None /\ Funded(paid, token)
         /\ s.recipient = recipient
         /\ r = serve_item(u, id, served)
    BY <1>1, <1>2, <1>3, <1>5, <1>6, <1>7, <1>8, <1>9, <1>10 DEF withdraw_item, Loaded
  <1>12. fee = ProtocolFee(claim, recipient)
    BY <1>6, <1>11
  <1>13. /\ claim \in Nat /\ fee \in 0..claim
         /\ GoodStream(served) /\ served.status = "Active"
         /\ served.sender = s.sender /\ served.token = s.token
         /\ Owed(served) \in Nat /\ Owed(s) = Owed(served) + claim
         /\ Dust(served) \in Nat /\ Dust(served) <= Owed(served)
         /\ Live(s) /\ SameParties(s, served)
         /\ Young(s) => Young(served) /\ now < served.end_time
    BY <1>1, <1>4, <1>5, <1>9, <1>11, <1>12, ServedItem
  <1>14. /\ paid \in Balances
         /\ \E m \in Nat : m <= claim /\ PaidOut(old, paid, token, m)
         /\ treasury = TreasuryAddress
              => paid[token][TreasuryAddress] >= old[token][TreasuryAddress] + fee
    BY <1>1, <1>8, <1>11, <1>13, ClaimPaysOut
  <1>15. PICK m \in Nat : m <= claim /\ PaidOut(old, paid, token, m)
    BY <1>14
  <1>16. PICK d \in Int : d = 0 - m
    OBVIOUS
  <1>17. /\ paid[token][Contract] - old[token][Contract] = d
         /\ paid[token][Contract] = old[token][Contract] + d
         /\ \A t \in Tokens \ {token} : paid[t][Contract] = old[t][Contract]
    BY <1>15, <1>16 DEF PaidOut
  <1>18. /\ IsWork(u) /\ u.bal = paid /\ u.escrow = Credit(w.escrow, id, d)
         /\ u.streams = w.streams /\ u.recorded = RecordedFee(w, token, claim, fee)
         /\ u.sender_ids = w.sender_ids /\ u.recipient_ids = w.recipient_ids
         /\ u.global_ids = w.global_ids
    <2>1. PICK x : x = Booked(w, id, token, paid)
      OBVIOUS
    <2>2. /\ IsWork(x) /\ x.bal = paid /\ x.streams = w.streams
          /\ x.escrow = Credit(w.escrow, id, paid[token][Contract] - w.bal[token][Contract])
          /\ x.sender_ids = w.sender_ids /\ x.recipient_ids = w.recipient_ids
          /\ x.global_ids = w.global_ids
      BY <1>1, <2>1, BookedWork
    <2>3. u = [x EXCEPT !.recorded = RecordedFee(w, token, claim, fee)]
      BY <1>10, <2>1
    <2> QED
      BY <1>7, <1>17, <2>2, <2>3 DEF IsWork
  <1>19. PICK v : v = [u EXCEPT !.streams = Put(w.streams, id, served)]
    OBVIOUS
  <1>20. /\ IsWork(v) /\ v.bal = u.bal /\ v.escrow = u.escrow /\ v.recorded = u.recorded
         /\ v.sender_ids = u.sender_ids /\ v.recipient_ids = u.recipient_ids
         /\ v.streams = Put(w.streams, id, served)
    BY <1>18, <1>19 DEF IsWork
  <1>21. ServedIn(u, id, served, v)
    BY <1>2, <1>18, <1>20 DEF ServedIn
  <1>22. Moves(w, v, token, d)
    <2>1. FedBetween(w, v)
      <3>1. \A t \in Tokens : paid[t][TreasuryAddress] >= w.bal[t][TreasuryAddress]
        BY <1>7, <1>15, TreasuryAssumption DEF PaidOut
      <3>2. fee \in Nat /\ v.bal = paid /\ v.recorded = RecordedFee(w, token, claim, fee)
        BY <1>13, <1>18, <1>20
      <3>3. treasury = TreasuryAddress
              => paid[token][TreasuryAddress] >= w.bal[token][TreasuryAddress] + fee
        BY <1>7, <1>14
      <3> QED
        BY <1>1, <1>14, <3>1, <3>2, <3>3, RecordedIsPaid
    <2> QED
      BY <1>1, <1>7, <1>14, <1>17, <1>18, <1>20, <2>1 DEF Moves
  <1>23. WorkInv(v)
    <2>1. d >= Owed(served) - OwesIn(w.streams, id, token)
      <3>1. OwesIn(w.streams, id, token) = Owed(s)
        BY <1>2, <1>3, <1>7 DEF OwesIn
      <3> QED
        BY <1>4, <1>13, <1>15, <1>16, <3>1
    <2>2. served.sender # TreasuryAddress /\ token = served.token
          /\ v.escrow = Credit(w.escrow, id, d)
      BY <1>4, <1>7, <1>13, <1>18, <1>20
    <2> QED
      BY <1>1, <1>13, <1>20, <1>22, <2>1, <2>2, WorkPut
  <1>24. WorkInv(r)
    BY <1>1, <1>11, <1>13, <1>21, <1>23, ServeKeeps
  <1>25. ItemPays(w, r, id)
    <2>1. Claims(w, u, id)
      <3>1. SparesOthers(w, u, id)
        BY <1>18, BookingSpares
      <3> QED
        BY <1>2, <1>3, <1>13, <1>18, <3>1 DEF Claims
    <2>2. served \in Streams
      BY <1>13 DEF GoodStream
    <2> QED
      BY <1>3, <1>11, <1>13, <2>1, <2>2, ServeShape
  <1> QED
    BY <1>3, <1>11, <1>24, <1>25

-----------------------------------------------------------------------------
(* batch_cancel_stream, one item.  It settles a paused stream at the ledger  *)
(* time, as if it were active: what that gives the recipient is still within *)
(* the deposit.                                                              *)
LEMMA CancelPays ==
    ASSUME now \in Nat, NEW s, GoodStream(s), Live(s),
           NEW n, n = compute_earned(s.flow_rate, now, s.end_time, s.last_withdraw_time)
    PROVE  /\ n \in Nat /\ n # None
           /\ Refund(s, n) \in Nat /\ n + Refund(s, n) = Owed(s) /\ Owed(s) \in Nat
           /\ EarnedAt(s, now) \in Nat /\ n >= EarnedAt(s, now)
  <1>1. s \in Streams /\ ScheduleSound(s)
    BY DEF GoodStream
  <1>2. PICK a : a = [s EXCEPT !.status = "Active"]
    OBVIOUS
  <1>3. /\ a \in Streams /\ a.status = "Active"
        /\ a.deposit = s.deposit /\ a.total_withdrawn = s.total_withdrawn
        /\ a.flow_rate = s.flow_rate /\ a.end_time = s.end_time
        /\ a.start_time = s.start_time /\ a.last_withdraw_time = s.last_withdraw_time
        /\ a.last_pause_time = s.last_pause_time
    BY <1>1, <1>2 DEF Streams
  <1>4. StreamClock(a) = now
    BY <1>3 DEF StreamClock
  <1>5. ScheduleSound(a)
    BY <1>1, <1>3, <1>4, StreamFields DEF ScheduleSound, effective_now, StreamClock
  <1>6. Payable(a, n)
    BY <1>3, <1>4, <1>5, EarnedPayable
  <1>7. Refund(a, n) = a.deposit - a.total_withdrawn - n /\ Refund(a, n) \in Nat
    BY <1>3, <1>6, RefundIsRest
  <1>8. Refund(a, n) = Refund(s, n)
    BY <1>3 DEF Refund
  <1>9. n \in Nat /\ s.deposit \in Nat /\ s.total_withdrawn \in Nat
    BY <1>1, <1>6, StreamFields DEF Payable
  <1>10. Owed(s) = s.deposit - s.total_withdrawn
    BY DEF Owed
  <1>11. n # None
    BY <1>9, NoneAssumption
  <1>12. EarnedAt(s, now) \in Nat /\ n >= EarnedAt(s, now)
    <2>1. EarnedAt(s, now) \in Nat
      BY <1>1, EarnedIs
    <2>2. CASE s.status # "Paused"
      BY <1>9, <2>2 DEF EarnedAt
    <2>3. CASE s.status = "Paused"
      <3>1. EarnedAt(a, now) = n
        BY <1>3 DEF EarnedAt
      <3>2. /\ s.last_pause_time \in Nat /\ s.end_time \in Nat /\ s.last_withdraw_time \in Nat
            /\ s.last_pause_time <= now
        BY <1>1, <2>3, StreamFields DEF ScheduleSound, StreamClock
      <3>3. StreamClock(s) = s.last_pause_time
        BY <2>3 DEF StreamClock
      <3>4. effective_now(StreamClock(a), a.end_time) - a.last_withdraw_time
              >= effective_now(StreamClock(s), s.end_time) - s.last_withdraw_time
        BY <1>3, <1>4, <3>2, <3>3 DEF effective_now
      <3>5. EarnedAt(a, now) >= EarnedAt(s, now)
        BY <1>1, <1>3, <1>5, <3>4, EarnedGrows
      <3> QED
        BY <2>1, <3>1, <3>5
    <2> QED
      BY <2>1, <2>2, <2>3
  <1> QED
    BY <1>1, <1>3, <1>7, <1>8, <1>9, <1>10, <1>11, <1>12, OwedIsNat

(* A sum of amounts is an amount, so that one stream owes no more than all   *)
(* of them.                                                                  *)
LEMMA SumsOfAmounts ==
    ASSUME NEW S, IsFiniteSet(S), NEW v, \A x \in S : v[x] \in Nat, NEW g, Sums(g, v, S)
    PROVE  \A s \in SUBSET S : g[s] \in Nat
  <1> DEFINE Bad == {s \in SUBSET S : g[s] \notin Nat}
  <1>1. SUFFICES ASSUME Bad # {} PROVE FALSE
    OBVIOUS
  <1>2. PICK s \in Bad : \A r \in Bad : r \subseteq s => r = s
    <2>1. Bad \subseteq SUBSET S
      OBVIOUS
    <2> HIDE DEF Bad
    <2> QED
      BY <1>1, <2>1, SmallestSubset
  <1>3. s # {}
    <2>1. g[{}] \in Nat
      BY DEF Sums
    <2>2. g[s] \notin Nat
      OBVIOUS
    <2> QED
      BY <2>1, <2>2
  <1>4. PICK y \in s : TRUE
    BY <1>3
  <1>5. g[s \ {y}] \in Nat
    BY <1>2, <1>4
  <1>6. g[s] = v[y] + g[s \ {y}] /\ v[y] \in Nat
    BY <1>4 DEF Sums
  <1> QED
    BY <1>5, <1>6

LEMMA OwesWithinLocked ==
    ASSUME NEW stored, IsFiniteSet(DOMAIN stored), NEW token, NEW id,
           \A k \in DOMAIN stored : Owed(stored[k]) \in Nat
    PROVE  OwesIn(stored, id, token) <= Locked(stored, token) /\ Locked(stored, token) \in Int
  <1>1. PICK g : /\ Sums(g, Owing(stored, token), DOMAIN stored)
                 /\ Locked(stored, token) = g[DOMAIN stored \ {id}] + OwesIn(stored, id, token)
                 /\ OwesIn(stored, id, token) \in Nat
    BY LockedParts
  <1>2. \A k \in DOMAIN stored : Owing(stored, token)[k] \in Nat
    BY DEF Owing
  <1>3. g[DOMAIN stored \ {id}] \in Nat
    BY <1>1, <1>2, SumsOfAmounts
  <1> QED
    BY <1>1, <1>3

(* What every item of a cancellation leaves, and which stream it takes out.  *)
GoesOn(w) == WorkInv(w) /\ w.ok = TRUE
Releases(w, r) ==
    \A t \in Tokens : /\ r.bal[t][Contract] <= w.bal[t][Contract]
                      /\ \A u \in Users : r.bal[t][u] >= w.bal[t][u]
GivesEarned(w, r, s) ==
    r.bal[s.token][s.recipient] >= w.bal[s.token][s.recipient] + EarnedAt(s, now)
TakesOut(w, sender, id, r) ==
    \/ ~Cancellable(w, sender, id) /\ r = w
    \/ /\ Cancellable(w, sender, id)
       /\ ItemTakes(w, r, id) /\ Releases(w, r) /\ GivesEarned(w, r, w.streams[id])

(* An item never reverts: the contract holds what both parties are paid.     *)
LEMMA CancelItemKeeps ==
    ASSUME ContractInv, TreasuryInv, NEW w, GoesOn(w), NEW sender, NEW id,
           NEW r, r = cancel_item(w, sender, id)
    PROVE  GoesOn(r) /\ TakesOut(w, sender, id, r)
  <1>1. CASE ~Cancellable(w, sender, id)
    BY <1>1 DEF cancel_item, TakesOut
  <1>2. CASE Cancellable(w, sender, id)
    <2>1. /\ WorkInv(w) /\ w.ok = TRUE /\ now \in Nat /\ IsWork(w) /\ w.bal \in Balances
          /\ w.recorded \in [Tokens -> Int] /\ Covers(w.bal, w.streams)
          /\ DOMAIN w.sender_ids = Users /\ DOMAIN w.recipient_ids = Users
      BY Basics DEF GoesOn, WorkInv, FedBetween
    <2>2. PICK s : s = w.streams[id] /\ id \in DOMAIN w.streams /\ Live(s)
      BY <1>2 DEF Cancellable
    <2>3. /\ GoodStream(s) /\ Owed(s) \in Nat /\ s.token \in Tokens
          /\ s.sender \in Users /\ s.recipient \in Users
      BY <2>1, <2>2, WorkOwes
    <2>4. PICK n : n = compute_earned(s.flow_rate, now, s.end_time, s.last_withdraw_time)
      OBVIOUS
    <2>5. /\ n \in Nat /\ n # None /\ Refund(s, n) \in Nat
          /\ n + Refund(s, n) = Owed(s)
          /\ EarnedAt(s, now) \in Nat /\ n >= EarnedAt(s, now)
      BY <2>1, <2>2, <2>3, <2>4, CancelPays
    <2>6. PICK token \in Tokens, old \in Balances, m \in Nat, to \in Users, back \in Users :
             /\ token = s.token /\ old = w.bal /\ m = Refund(s, n)
             /\ to = s.recipient /\ back = s.sender
      BY <2>1, <2>3, <2>5
    <2>7. PICK b : b = PayOut(old, token, to, n)
      OBVIOUS
    <2>8. PICK c : c = PayOut(b, token, back, m)
      OBVIOUS
    <2>9. /\ Loan(c, token) /\ PaidOut(old, c, token, n + m)
          /\ c[token][to] >= old[token][to] + n
      <3>1. Loan(old, token)
        BY BalancesAreLoan
      <3>2. /\ Loan(b, token) /\ PaidOut(old, b, token, n)
            /\ b[token][to] = old[token][to] + n
        BY <2>5, <2>7, <3>1, LoanPays
      <3>3. Loan(c, token) /\ PaidOut(b, c, token, m)
        BY <2>8, <3>2, LoanPays
      <3>4. c[token][to] >= b[token][to]
        BY <3>3 DEF PaidOut
      <3> QED
        BY <2>5, <3>2, <3>3, <3>4, PaidTwice
    <2>10. PICK d \in Int : d = 0 - Owed(s)
      BY <2>3
    <2>11. /\ c[token][Contract] = old[token][Contract] + d
           /\ c[token][Contract] - old[token][Contract] = d
           /\ \A t \in Tokens \ {token} : c[t][Contract] = old[t][Contract]
      BY <2>3, <2>5, <2>6, <2>9, <2>10 DEF PaidOut
    <2>12. old[token][Contract] >= Owed(s) /\ old[token][Contract] \in Nat
      <3>1. PICK stored : stored = w.streams
        OBVIOUS
      <3>2. /\ IsFiniteSet(DOMAIN stored) /\ old[token][Contract] >= Locked(stored, token)
            /\ \A k \in DOMAIN stored : Owed(stored[k]) \in Nat
        BY <2>1, <2>6, <3>1, WorkOwes DEF Covers
      <3>3. OwesIn(stored, id, token) <= Locked(stored, token) /\ Locked(stored, token) \in Int
        BY <3>2, OwesWithinLocked
      <3>4. OwesIn(stored, id, token) = Owed(s)
        BY <2>2, <2>6, <3>1 DEF OwesIn
      <3>5. old[token][Contract] \in Nat
        BY Balance, MoneyAccounts
      <3> QED
        BY <2>3, <3>2, <3>3, <3>4, <3>5
    <2>13. Funded(c, token)
      BY <2>3, <2>10, <2>11, <2>12 DEF Funded
    <2>14. c \in Balances
      BY <2>9, <2>13, LoanFunded
    <2>15. PICK x : x = Booked(w, id, token, c)
      OBVIOUS
    <2>16. r = Removed(x, id)
      BY <1>2, <2>2, <2>4, <2>5, <2>6, <2>7, <2>8, <2>13, <2>15 DEF cancel_item, Loaded
    <2>17. /\ IsWork(x) /\ x.ok = w.ok /\ x.bal = c /\ x.recorded = w.recorded
           /\ x.streams = w.streams
           /\ x.escrow = Credit(w.escrow, id, c[token][Contract] - w.bal[token][Contract])
           /\ x.sender_ids = w.sender_ids /\ x.recipient_ids = w.recipient_ids
           /\ x.global_ids = w.global_ids
      BY <2>1, <2>15, BookedWork
    <2>18. /\ IsWork(r) /\ r.ok = x.ok /\ r.bal = x.bal /\ r.escrow = x.escrow
           /\ r.streams = Drop(x.streams, id) /\ r.recorded = x.recorded
           /\ DOMAIN r.sender_ids = DOMAIN x.sender_ids
           /\ DOMAIN r.recipient_ids = DOMAIN x.recipient_ids
      BY <2>16, <2>17, RemovedWork
    <2>19. /\ r.ok = TRUE /\ r.bal = c /\ r.escrow = Credit(w.escrow, id, d)
           /\ r.streams = Drop(w.streams, id) /\ r.recorded = w.recorded
           /\ DOMAIN r.sender_ids = Users /\ DOMAIN r.recipient_ids = Users
      BY <2>1, <2>6, <2>11, <2>17, <2>18
    <2>20. Moves(w, r, token, d)
      <3>1. FedBetween(w, r)
        <4>1. \A t \in Tokens : r.bal[t][TreasuryAddress] >= w.bal[t][TreasuryAddress]
          BY <2>6, <2>9, <2>19, TreasuryAssumption DEF PaidOut
        <4> QED
          BY <2>1, <2>14, <2>19, <4>1, FedByNothing
      <3> QED
        BY <2>6, <2>11, <2>14, <2>18, <2>19, <3>1 DEF Moves
    <2>21. WorkInv(r)
      <3>1. /\ d >= 0 - Owed(w.streams[id]) /\ token = w.streams[id].token
            /\ id \in DOMAIN w.streams
        BY <2>2, <2>3, <2>6, <2>10
      <3> QED
        BY <2>1, <2>19, <2>20, <3>1, WorkDrop
    <2>22. ItemTakes(w, r, id)
      <3>1. OffLists(x, r, id)
        BY <2>16, <2>17, RemovedFromLists
      <3>2. SparesOthers(w, r, id)
        BY <2>19, BookingSpares
      <3> QED
        BY <2>2, <2>17, <2>19, <3>1, <3>2 DEF OffLists, ItemTakes
    <2>23. Releases(w, r)
      <3>1. \A t \in Tokens : c[t][Contract] <= old[t][Contract]
        BY <2>3, <2>10, <2>11, <2>12, <2>14, Balance, MoneyAccounts
      <3>2. \A t \in Tokens, u \in Users : c[t][u] >= old[t][u]
        BY <2>9 DEF PaidOut
      <3> QED
        BY <2>6, <2>19, <3>1, <3>2 DEF Releases
    <2>24. GivesEarned(w, r, s)
      <3>1. c[token][to] >= old[token][to] + EarnedAt(s, now)
        <4>1. c[token][to] \in Nat /\ old[token][to] \in Nat
          BY <2>9 DEF PaidOut
        <4> QED
          BY <2>5, <2>9, <4>1
      <3> QED
        BY <2>6, <2>19, <3>1 DEF GivesEarned
    <2> QED
      BY <1>2, <2>2, <2>19, <2>21, <2>22, <2>23, <2>24 DEF GoesOn, TakesOut
  <1> QED
    BY <1>1, <1>2

-----------------------------------------------------------------------------
(* The items in turn.  The recursion of InTurn is a choice among functions:  *)
(* such a function exists, and its values are the turns.                     *)
BatchItem(job, w, x) ==
    IF job.kind = "create"
    THEN create_item(w, job.sender, job.items[x], batch_id(job.sender, job.items, x), job.terms)
    ELSE IF job.kind = "withdraw" THEN withdraw_item(w, job.recipient, x)
    ELSE cancel_item(w, job.sender, x)
Turn(job, w, list, f, k) ==
    IF k = 0 THEN w
    ELSE IF f[k - 1].ok THEN BatchItem(job, f[k - 1], list[k]) ELSE f[k - 1]
Turns(job, w, list, n, f) == f = [k \in 0..n |-> Turn(job, w, list, f, k)]

LEMMA TurnsExtend ==
    ASSUME NEW job, NEW w, NEW list, NEW n \in Nat, NEW f, Turns(job, w, list, n, f)
    PROVE  \E g : Turns(job, w, list, n + 1, g)
  <1> DEFINE g == [k \in 0..(n + 1) |->
                      IF k \in 0..n THEN f[k] ELSE Turn(job, w, list, f, n + 1)]
  <1>1. ASSUME NEW k \in 0..(n + 1) PROVE g[k] = Turn(job, w, list, g, k)
    <2>1. Turn(job, w, list, g, k) = Turn(job, w, list, f, k)
      <3>1. CASE k = 0
        BY <3>1 DEF Turn
      <3>2. CASE k # 0
        <4>1. k - 1 \in 0..n /\ k - 1 \in 0..(n + 1)
          BY <3>2
        <4>2. g[k - 1] = f[k - 1]
          BY <4>1
        <4> HIDE DEF g
        <4> QED
          BY <4>2, <3>2 DEF Turn
      <3> QED
        BY <3>1, <3>2
    <2>2. CASE k \in 0..n
      <3>1. f[k] = Turn(job, w, list, f, k)
        BY <2>2 DEF Turns
      <3>2. g[k] = f[k]
        BY <2>2
      <3> QED
        BY <2>1, <3>1, <3>2
    <2>3. CASE k \notin 0..n
      <3>1. k = n + 1
        BY <2>3
      <3>2. g[k] = Turn(job, w, list, f, n + 1)
        BY <2>3
      <3> QED
        BY <2>1, <3>1, <3>2
    <2> QED
      BY <2>2, <2>3
  <1>2. g = [k \in 0..(n + 1) |-> g[k]]
    OBVIOUS
  <1> HIDE DEF g
  <1>3. g = [k \in 0..(n + 1) |-> Turn(job, w, list, g, k)]
    BY <1>1, <1>2
  <1> QED
    BY <1>3 DEF Turns

LEMMA TurnsExist ==
    ASSUME NEW job, NEW w, NEW list, NEW n \in Nat
    PROVE  \E f : Turns(job, w, list, n, f)
  <1> DEFINE Bad == {k \in Nat : ~ \E f : Turns(job, w, list, k, f)}
  <1>1. SUFFICES ASSUME Bad # {} PROVE FALSE
    OBVIOUS
  <1>2. PICK m \in Bad : \A k \in Bad : m <= k
    <2>1. Bad \subseteq Nat
      OBVIOUS
    <2> HIDE DEF Bad
    <2> QED
      BY <1>1, <2>1, SmallestNumber
  <1>3. m # 0
    <2> DEFINE z == [k \in 0..0 |-> w]
    <2>1. \A k \in 0..0 : Turn(job, w, list, z, k) = w
      BY DEF Turn
    <2> HIDE DEF z
    <2>2. z = [k \in 0..0 |-> Turn(job, w, list, z, k)]
      BY <2>1 DEF z
    <2>3. Turns(job, w, list, 0, z)
      BY <2>2 DEF Turns
    <2> QED
      BY <2>3
  <1>4. PICK k \in Nat : m = k + 1
    <2>1. m - 1 \in Nat /\ m = (m - 1) + 1
      BY <1>3
    <2> QED
      BY <2>1
  <1>5. k \notin Bad
    BY <1>2, <1>4
  <1>6. PICK f : Turns(job, w, list, k, f)
    BY <1>5
  <1>7. \E g : Turns(job, w, list, k + 1, g)
    BY <1>6, TurnsExtend
  <1> QED
    BY <1>4, <1>7

LEMMA TurnsSteps ==
    ASSUME NEW job, NEW w, NEW list, NEW n \in Nat, NEW f, Turns(job, w, list, n, f)
    PROVE  /\ f[0] = w
           /\ \A k \in 1..n : f[k] = IF f[k - 1].ok THEN BatchItem(job, f[k - 1], list[k])
                                     ELSE f[k - 1]
  <1>1. \A k \in 0..n : f[k] = Turn(job, w, list, f, k)
    BY DEF Turns
  <1>2. f[0] = w
    BY <1>1 DEF Turn
  <1>3. ASSUME NEW k \in 1..n
        PROVE  f[k] = IF f[k - 1].ok THEN BatchItem(job, f[k - 1], list[k]) ELSE f[k - 1]
    <2>1. k \in 0..n /\ k # 0
      OBVIOUS
    <2> QED
      BY <1>1, <2>1 DEF Turn
  <1> QED
    BY <1>2, <1>3

(* What holds at first, and after each item that goes on, holds at the end.  *)
LEMMA TurnsReach ==
    ASSUME NEW job, NEW w, NEW list, NEW n \in Nat, NEW f, Turns(job, w, list, n, f),
           f[n].ok, NEW Good, 0 \in Good,
           \A k \in 1..n : /\ k - 1 \in Good /\ f[k - 1].ok /\ f[k].ok
                           /\ f[k] = BatchItem(job, f[k - 1], list[k])
                           => k \in Good
    PROVE  n \in Good
  <1> DEFINE Bad == {k \in 0..n : f[k].ok /\ k \notin Good}
  <1>1. SUFFICES ASSUME Bad # {} PROVE FALSE
    <2>1. n \in 0..n
      OBVIOUS
    <2> QED
      BY <2>1
  <1>2. PICK m \in Bad : \A k \in Bad : m <= k
    <2>1. Bad \subseteq Nat
      OBVIOUS
    <2> HIDE DEF Bad
    <2> QED
      BY <1>1, <2>1, SmallestNumber
  <1>3. \A k \in 1..n : f[k] = IF f[k - 1].ok THEN BatchItem(job, f[k - 1], list[k])
                                ELSE f[k - 1]
    BY TurnsSteps
  <1>4. m \in 1..n /\ m - 1 \in 0..n /\ ~(m <= m - 1)
    BY <1>2
  <1>5. f[m] = IF f[m - 1].ok THEN BatchItem(job, f[m - 1], list[m]) ELSE f[m - 1]
    BY <1>3, <1>4
  <1>6. f[m - 1].ok /\ f[m].ok /\ f[m] = BatchItem(job, f[m - 1], list[m])
    BY <1>2, <1>5
  <1>7. m - 1 \in Good
    BY <1>2, <1>4, <1>6
  <1> QED
    BY <1>2, <1>4, <1>6, <1>7

WithdrawJob(recipient) == [kind |-> "withdraw", recipient |-> recipient]
CancelJob(sender) == [kind |-> "cancel", sender |-> sender]
CreateJob(sender, items, terms) ==
    [kind |-> "create", sender |-> sender, items |-> items, terms |-> terms]

LEMMA WithdrawTurns ==
    ASSUME NEW w, NEW ids, Len(ids) \in Nat, NEW recipient
    PROVE  \E f : /\ Turns(WithdrawJob(recipient), w, ids, Len(ids), f)
                  /\ WithdrawEach(w, ids, recipient) = f[Len(ids)]
  <1> DEFINE Body(f) == [k \in 0..Len(ids) |->
                IF k = 0 THEN w
                ELSE IF f[k - 1].ok THEN withdraw_item(f[k - 1], recipient, ids[k]) ELSE f[k - 1]]
             after == CHOOSE f : f = Body(f)
  <1>1. WithdrawEach(w, ids, recipient) = after[Len(ids)]
    BY DEF WithdrawEach, InTurn
  <1>2. \A v, x : BatchItem(WithdrawJob(recipient), v, x) = withdraw_item(v, recipient, x)
    BY DEF BatchItem, WithdrawJob
  <1>3. ASSUME NEW f
        PROVE  Turns(WithdrawJob(recipient), w, ids, Len(ids), f) <=> f = Body(f)
    BY <1>2 DEF Turns, Turn
  <1>4. \E f : f = Body(f)
    BY <1>3, TurnsExist
  <1>5. after = Body(after)
    BY <1>4
  <1> HIDE DEF after
  <1> QED
    BY <1>1, <1>3, <1>5

LEMMA CancelTurns ==
    ASSUME NEW w, NEW ids, Len(ids) \in Nat, NEW sender
    PROVE  \E f : /\ Turns(CancelJob(sender), w, ids, Len(ids), f)
                  /\ CancelEach(w, ids, sender) = f[Len(ids)]
  <1> DEFINE Body(f) == [k \in 0..Len(ids) |->
                IF k = 0 THEN w
                ELSE IF f[k - 1].ok THEN cancel_item(f[k - 1], sender, ids[k]) ELSE f[k - 1]]
             after == CHOOSE f : f = Body(f)
  <1>1. CancelEach(w, ids, sender) = after[Len(ids)]
    BY DEF CancelEach, InTurn
  <1>2. \A v, x : BatchItem(CancelJob(sender), v, x) = cancel_item(v, sender, x)
    BY DEF BatchItem, CancelJob
  <1>3. ASSUME NEW f
        PROVE  Turns(CancelJob(sender), w, ids, Len(ids), f) <=> f = Body(f)
    BY <1>2 DEF Turns, Turn
  <1>4. \E f : f = Body(f)
    BY <1>3, TurnsExist
  <1>5. after = Body(after)
    BY <1>4
  <1> HIDE DEF after
  <1> QED
    BY <1>1, <1>3, <1>5

LEMMA CreateTurns ==
    ASSUME NEW w, NEW sender, NEW items, NEW S, items \in Seq(S), NEW terms, NEW list,
           list = [i \in DOMAIN items |-> i]
    PROVE  \E f : /\ Turns(CreateJob(sender, items, terms), w, list, Len(items), f)
                  /\ CreateEach(w, sender, items, terms) = f[Len(items)]
  <1>1. Len(items) \in Nat /\ DOMAIN items = 1..Len(items)
    BY LenProperties
  <1>2. list \in Seq(Nat) /\ Len(list) = Len(items) /\ \A k \in 1..Len(items) : list[k] = k
    <2>1. list \in [1..Len(items) -> Nat]
      BY <1>1
    <2>2. list \in Seq(Nat)
      BY <1>1, <2>1, SeqDef
    <2>3. Len(list) \in Nat /\ DOMAIN list = 1..Len(list) /\ DOMAIN list = 1..Len(items)
      BY <2>1, <2>2, LenProperties
    <2> QED
      BY <1>1, <2>2, <2>3
  <1> DEFINE Item(v, i) == create_item(v, sender, items[i], batch_id(sender, items, i), terms)
             Body(f) == [k \in 0..Len(list) |->
                IF k = 0 THEN w
                ELSE IF f[k - 1].ok THEN Item(f[k - 1], list[k]) ELSE f[k - 1]]
             after == CHOOSE f : f = Body(f)
  <1>3. CreateEach(w, sender, items, terms) = after[Len(list)]
    BY DEF CreateEach, InTurn
  <1>4. \A v, x : BatchItem(CreateJob(sender, items, terms), v, x) = Item(v, x)
    BY DEF BatchItem, CreateJob
  <1> HIDE DEF Item
  <1>5. ASSUME NEW f
        PROVE  Turns(CreateJob(sender, items, terms), w, list, Len(items), f) <=> f = Body(f)
    <2> DEFINE job == CreateJob(sender, items, terms)
    <2>1. ASSUME NEW k \in 0..Len(items) PROVE Turn(job, w, list, f, k) = Body(f)[k]
      <3>1. k \in 0..Len(list)
        BY <1>2
      <3> HIDE DEF job
      <3> QED
        BY <1>4, <3>1 DEF Turn, job
    <2> DEFINE turns == [k \in 0..Len(items) |-> Turn(job, w, list, f, k)]
    <2>2. turns = Body(f)
      <3>1. DOMAIN turns = DOMAIN Body(f) /\ DOMAIN turns = 0..Len(items)
        BY <1>2
      <3>2. \A k \in 0..Len(items) : turns[k] = Body(f)[k]
        BY <2>1
      <3>3. turns = [k \in DOMAIN turns |-> turns[k]]
            /\ Body(f) = [k \in DOMAIN Body(f) |-> Body(f)[k]]
        OBVIOUS
      <3> HIDE DEF turns, Body
      <3> QED
        BY <3>1, <3>2, <3>3
    <2> QED
      BY <2>2 DEF Turns
  <1>6. \E f : f = Body(f)
    BY <1>1, <1>5, TurnsExist
  <1>7. after = Body(after)
    BY <1>6
  <1> HIDE DEF after
  <1> QED
    BY <1>2, <1>3, <1>5, <1>7

(* A list of at most n elements of S.                                        *)
LEMMA ListFacts ==
    ASSUME NEW S, NEW n \in Nat, NEW list \in SeqOf(S, n)
    PROVE  /\ list \in Seq(S) /\ Len(list) \in Nat
           /\ DOMAIN list = 1..Len(list)
           /\ \A k \in 1..Len(list) : list[k] \in S
  <1>1. PICK m \in 0..n : list \in [1..m -> S]
    BY DEF SeqOf
  <1>2. list \in Seq(S)
    <2>1. m \in Nat
      OBVIOUS
    <2> QED
      BY <1>1, <2>1, SeqDef
  <1> QED
    BY <1>2, LenProperties

-----------------------------------------------------------------------------
(* The invariant of the stream contract with its batches and its treasury.   *)
SendersApart == \A id \in DOMAIN streams : streams[id].sender # TreasuryAddress
ProtocolInv == ContractInv /\ TreasuryInv /\ SolvencyInv /\ SendersApart

LEMMA PresentGood ==
    ASSUME ProtocolInv
    PROVE  GoesOn(Present)
  <1>1. PICK w : w = Present
    OBVIOUS
  <1>2. /\ w.ok = TRUE /\ w.bal = bal /\ w.streams = streams /\ w.escrow = escrow
        /\ w.sender_ids = sender_ids /\ w.recipient_ids = recipient_ids
        /\ w.recorded = recorded /\ IsWork(w)
    BY <1>1 DEF Present, IsWork
  <1>3. /\ bal \in Balances /\ AllGood(streams, escrow) /\ recorded \in [Tokens -> Int]
        /\ DOMAIN sender_ids = Users /\ DOMAIN recipient_ids = Users
        /\ \A id \in DOMAIN streams : streams[id].sender # TreasuryAddress
    BY Basics DEF ProtocolInv, SendersApart, IndexInv, TreasuryInv
  <1>4. Covers(bal, streams)
    BY SolventIs DEF ProtocolInv, SolvencyInv, Covers
  <1>5. FedBetween(Present, w)
    <2>1. \A t \in Tokens : bal[t][TreasuryAddress] \in Nat /\ recorded[t] \in Int
      BY <1>3, Balance, MoneyAccounts
    <2> QED
      BY <1>1, <1>2, <1>3, <2>1 DEF FedBetween
  <1>6. WorkInv(w)
    BY <1>2, <1>3, <1>4, <1>5 DEF WorkInv
  <1> QED
    BY <1>1, <1>2, <1>6 DEF GoesOn

(* What the items do besides: they pay nothing out of a closed stream, ...   *)
ClosedSpared(w) ==
    \A k \in DOMAIN escrow :
        (k \in DOMAIN streams => ~Live(streams[k]))
        => /\ k \in DOMAIN w.escrow /\ w.escrow[k] >= escrow[k]
           /\ k \in DOMAIN w.streams => ~Live(w.streams[k])

LEMMA ItemSparesClosed ==
    ASSUME NEW w, ClosedSpared(w), NEW id \in DOMAIN w.streams, Live(w.streams[id]),
           NEW r, SparesOthers(w, r, id),
           \A k \in DOMAIN r.streams :
              k # id => k \in DOMAIN w.streams /\ r.streams[k] = w.streams[k]
    PROVE  ClosedSpared(r)
  <1> SUFFICES ASSUME NEW k \in DOMAIN escrow, k \in DOMAIN streams => ~Live(streams[k])
               PROVE  /\ k \in DOMAIN r.escrow /\ r.escrow[k] >= escrow[k]
                      /\ k \in DOMAIN r.streams => ~Live(r.streams[k])
    BY DEF ClosedSpared
  <1>1. /\ k \in DOMAIN w.escrow /\ w.escrow[k] >= escrow[k]
        /\ k \in DOMAIN w.streams => ~Live(w.streams[k])
    BY DEF ClosedSpared
  <1>2. k # id
    BY <1>1
  <1>3. k \in DOMAIN r.escrow /\ r.escrow[k] = w.escrow[k]
    BY <1>1, <1>2 DEF SparesOthers
  <1> QED
    BY <1>1, <1>2, <1>3

(* ... and an item of a cancellation only pays users, the recipient all that *)
(* it has earned.                                                            *)
LEMMA ReleasesOn ==
    ASSUME NEW v, NEW w, NEW r, v.bal \in Balances, w.bal \in Balances, r.bal \in Balances,
           Releases(v, w), Releases(w, r)
    PROVE  Releases(v, r)
  <1>1. \A t \in Tokens : /\ v.bal[t][Contract] \in Nat /\ w.bal[t][Contract] \in Nat
                          /\ r.bal[t][Contract] \in Nat
    BY Balance, MoneyAccounts
  <1>2. \A t \in Tokens, u \in Users : /\ v.bal[t][u] \in Nat /\ w.bal[t][u] \in Nat
                                       /\ r.bal[t][u] \in Nat
    BY Balance, MoneyAccounts
  <1>3. \A t \in Tokens : r.bal[t][Contract] <= v.bal[t][Contract]
    BY <1>1 DEF Releases
  <1>4. \A t \in Tokens, u \in Users : r.bal[t][u] >= v.bal[t][u]
    BY <1>2 DEF Releases
  <1> QED
    BY <1>3, <1>4 DEF Releases

LEMMA GivesOn ==
    ASSUME NEW v, NEW w, NEW r, v.bal \in Balances, w.bal \in Balances, r.bal \in Balances,
           NEW s, s.token \in Tokens, s.recipient \in Users, EarnedAt(s, now) \in Nat,
           \/ GivesEarned(v, w, s) /\ Releases(w, r)
           \/ Releases(v, w) /\ GivesEarned(w, r, s)
    PROVE  GivesEarned(v, r, s)
  <1>1. PICK t \in Tokens, u \in Users, n \in Nat :
           t = s.token /\ u = s.recipient /\ n = EarnedAt(s, now)
    OBVIOUS
  <1>2. v.bal[t][u] \in Nat /\ w.bal[t][u] \in Nat /\ r.bal[t][u] \in Nat
    BY Balance, MoneyAccounts
  <1>3. r.bal[t][u] >= v.bal[t][u] + n
    <2>1. CASE GivesEarned(v, w, s) /\ Releases(w, r)
      BY <1>1, <1>2, <2>1 DEF GivesEarned, Releases
    <2>2. CASE Releases(v, w) /\ GivesEarned(w, r, s)
      BY <1>1, <1>2, <2>2 DEF GivesEarned, Releases
    <2> QED
      BY <2>1, <2>2
  <1> QED
    BY <1>1, <1>3 DEF GivesEarned

LEMMA PresentSpares ==
    ASSUME ProtocolInv
    PROVE  ClosedSpared(Present) /\ Releases(Present, Present) /\ (OrderInv => InOrder(Present))
  <1>1. PICK w : w = Present
    OBVIOUS
  <1>2. /\ w.bal = bal /\ w.streams = streams /\ w.escrow = escrow
        /\ w.sender_ids = sender_ids /\ w.recipient_ids = recipient_ids
        /\ w.global_ids = global_ids
    BY <1>1 DEF Present
  <1>3. /\ bal \in Balances /\ \A k \in DOMAIN escrow : escrow[k] \in Nat
    BY Basics DEF ProtocolInv, AllGood
  <1>4. ClosedSpared(w)
    BY <1>2, <1>3 DEF ClosedSpared
  <1>5. Releases(w, w)
    <2>1. \A t \in Tokens : /\ bal[t][Contract] \in Nat
                            /\ \A u \in Users : bal[t][u] \in Nat
      BY <1>3, Balance, MoneyAccounts
    <2> QED
      BY <1>2, <2>1 DEF Releases
  <1>6. OrderInv => InOrder(w)
    BY <1>2 DEF OrderInv, InOrder, PartiesInv, GlobalInv, FreshInv
  <1> QED
    BY <1>1, <1>4, <1>5, <1>6

(* What a batch leaves in order is in order.                                 *)
LEMMA BecomeKeeps ==
    ASSUME ProtocolInv, NEW r, WorkInv(r), Become(r), now' = now,
           NotPaused \/ UNCHANGED pauseVars,
           UNCHANGED <<roleVars, version, migrations, auditVars, feeVars, policyVars,
                       treasury_admin, lp_pool, treasury_split, unbacked, delegate_of, nonces>>
    PROVE  ProtocolInv' /\ Fed
  <1>1. /\ bal' = r.bal /\ streams' = r.streams /\ escrow' = r.escrow
        /\ sender_ids' = r.sender_ids /\ recipient_ids' = r.recipient_ids
        /\ recorded' = r.recorded
    BY DEF Become
  <1>2. /\ bal' \in Balances /\ AllGood(streams', escrow')
        /\ DOMAIN sender_ids' = Users /\ DOMAIN recipient_ids' = Users
        /\ \A id \in DOMAIN streams' : streams'[id].sender # TreasuryAddress
        /\ IsFiniteSet(DOMAIN streams')
        /\ \A t \in Tokens : bal'[t][Contract] >= Locked(streams', t)
    BY <1>1 DEF WorkInv, Covers
  <1>3. ContractInv'
    <2>1. IndexInv /\ AdminInv /\ FeesTypeOK /\ PolicyTypeOK
      BY DEF ProtocolInv, ContractInv
    <2>2. StreamsInv'
      BY <1>2, StillGood
    <2>3. IndexInv'
      BY <1>2, <2>1, ListsKept DEF IndexInv
    <2>4. AdminInv'
      BY <2>1, GateAdminInv
    <2>5. FeesTypeOK' /\ PolicyTypeOK'
      BY <2>1 DEF feeVars, policyVars, FeesTypeOK, PolicyTypeOK
    <2> QED
      BY <1>2, <2>2, <2>3, <2>4, <2>5 DEF ContractInv, MoneyInv
  <1>4. SolvencyInv'
    BY <1>2, SolventIs DEF SolvencyInv
  <1>5. Fed
    <2>1. FedBetween(Present, r) /\ Present.recorded = recorded /\ Present.bal = bal
      BY DEF WorkInv, Present
    <2> QED
      BY <1>1, <1>2, <2>1 DEF FedBetween, Fed, Held
  <1>6. TreasuryInv'
    BY <1>5, FedKeeps DEF ProtocolInv
  <1> QED
    BY <1>2, <1>3, <1>4, <1>5, <1>6 DEF ProtocolInv, SendersApart

(* batch_create_stream: after k items, k streams of the sender are added, and *)
(* what was there stands.                                                    *)
Made(sender, items, k) == {batch_id(sender, items, j) : j \in 1..k}
CreatedTo(w, sender, items, k) ==
    /\ WorkInv(w)
    /\ DOMAIN w.streams = DOMAIN streams \cup Made(sender, items, k)
    /\ \A id \in DOMAIN streams : w.streams[id] = streams[id]
    /\ \A id \in Made(sender, items, k) : w.streams[id].sender = sender
    /\ \A id \in DOMAIN escrow : id \in DOMAIN w.escrow /\ w.escrow[id] >= escrow[id]
    /\ OrderInv => /\ InOrder(w)
                   /\ w.sender_ids[sender].count = sender_ids[sender].count + k

LEMMA NothingMade ==
    ASSUME ProtocolInv, NEW sender \in Users, NEW items
    PROVE  CreatedTo(Present, sender, items, 0)
  <1>1. PICK w : w = Present
    OBVIOUS
  <1>2. /\ WorkInv(w) /\ w.streams = streams /\ w.escrow = escrow
        /\ w.sender_ids = sender_ids /\ (OrderInv => InOrder(w))
    BY <1>1, PresentGood, PresentSpares DEF GoesOn, Present
  <1>3. Made(sender, items, 0) = {}
    BY DEF Made
  <1>4. \A id \in DOMAIN escrow : escrow[id] \in Nat
    BY Basics DEF ProtocolInv, AllGood
  <1>5. OrderInv => sender_ids[sender].count \in Nat
    BY PartiesAre DEF OrderInv, GoodList
  <1> QED
    BY <1>1, <1>2, <1>3, <1>4, <1>5 DEF CreatedTo

LEMMA CreateItemGoes ==
    ASSUME ProtocolInv, NEW sender \in Users, NEW items, NEW k \in Nat \ {0},
           NEW w, CreatedTo(w, sender, items, k - 1),
           NEW id, id = batch_id(sender, items, k), id \notin DOMAIN streams,
           NEW s, s.sender = sender, NEW r, WorkInv(r), ItemAdds(w, r, id, s)
    PROVE  CreatedTo(r, sender, items, k)
  <1>1. /\ WorkInv(w) /\ now \in Nat
        /\ DOMAIN w.streams = DOMAIN streams \cup Made(sender, items, k - 1)
        /\ \A x \in DOMAIN streams : w.streams[x] = streams[x]
        /\ \A x \in Made(sender, items, k - 1) : w.streams[x].sender = sender
        /\ \A x \in DOMAIN escrow : x \in DOMAIN w.escrow /\ w.escrow[x] >= escrow[x]
    BY Basics DEF CreatedTo, ProtocolInv
  <1>2. Made(sender, items, k) = Made(sender, items, k - 1) \cup {id}
    <2>1. 1..k = 1..(k - 1) \cup {k}
      OBVIOUS
    <2> QED
      BY <2>1 DEF Made
  <1>3. id \notin Made(sender, items, k - 1)
    <2>1. SUFFICES ASSUME NEW j \in 1..(k - 1), batch_id(sender, items, j) = id PROVE FALSE
      BY DEF Made
    <2>2. id[4] = <<k - 1>> /\ id[4] = <<j - 1>>
      BY <2>1, DerivedParts DEF batch_id
    <2>3. <<k - 1>>[1] = <<j - 1>>[1]
      BY <2>2
    <2> QED
      BY <2>3
  <1>4. id \notin DOMAIN w.streams
    BY <1>1, <1>3
  <1>5. /\ DOMAIN r.streams = DOMAIN w.streams \cup {id} /\ r.streams[id] = s
        /\ \A x \in DOMAIN w.streams : x # id => r.streams[x] = w.streams[x]
    <2>1. r.streams = Put(w.streams, id, s)
      BY DEF ItemAdds
    <2> QED
      BY <2>1 DEF Put
  <1>6. /\ DOMAIN r.streams = DOMAIN streams \cup Made(sender, items, k)
        /\ \A x \in DOMAIN streams : r.streams[x] = streams[x]
        /\ \A x \in Made(sender, items, k) : r.streams[x].sender = sender
    BY <1>1, <1>2, <1>3, <1>5
  <1>7. ASSUME NEW x \in DOMAIN escrow PROVE x \in DOMAIN r.escrow /\ r.escrow[x] >= escrow[x]
    <2>1. /\ x \in DOMAIN w.escrow /\ x \in DOMAIN r.escrow
          /\ x # id => r.escrow[x] = w.escrow[x]
          /\ x = id => r.escrow[x] >= w.escrow[x]
      BY <1>1 DEF ItemAdds, SparesOthers
    <2>2. escrow[x] \in Nat /\ w.escrow[x] \in Nat /\ r.escrow[x] \in Nat
      BY <1>1, <2>1, Basics DEF WorkInv, AllGood, ProtocolInv
    <2> QED
      BY <1>1, <2>1, <2>2
  <1>8. ASSUME OrderInv
        PROVE  /\ InOrder(r)
               /\ r.sender_ids[sender].count = sender_ids[sender].count + k
    <2>1. InOrder(w) /\ w.sender_ids[sender].count = sender_ids[sender].count + (k - 1)
      BY <1>8 DEF CreatedTo
    <2>2. sender_ids[sender].count \in Nat
      BY <1>8, PartiesAre DEF OrderInv, GoodList
    <2>3. PICK recipient, nonce :
             nonce = <<k - 1>> /\ id = derive_stream_id(sender, recipient, now, nonce)
      BY DEF batch_id
    <2>4. InOrder(r)
      BY <1>1, <1>4, <2>1, <2>3, PositionsApart, AddedInOrder
    <2>5. DOMAIN w.sender_ids = Users
          /\ r.sender_ids = [w.sender_ids EXCEPT ![sender] = Indexed(@, id)]
      BY <1>1 DEF WorkInv, ItemAdds
    <2>6. r.sender_ids[sender] = Indexed(w.sender_ids[sender], id)
      BY <2>5
    <2>7. r.sender_ids[sender].count = w.sender_ids[sender].count + 1
      BY <2>6 DEF Indexed
    <2> QED
      BY <2>1, <2>2, <2>4, <2>7
  <1> QED
    BY <1>6, <1>7, <1>8 DEF CreatedTo

LEMMA BatchCreateKeeps ==
    ASSUME ProtocolInv, TreasuryApart, NEW sender \in Senders,
           NEW items \in SeqOf(BatchItems, BatchSize), NEW terms \in BatchTerms, NEW nonce,
           batch_create_stream(sender, items, terms, nonce)
    PROVE  \E r : CreatedTo(r, sender, items, Len(items)) /\ Become(r)
  <1>1. PICK d : d = terms.duration_seconds
    OBVIOUS
  <1>2. /\ now + d <= U64_MAX /\ d > 0 /\ sender \in Users
        /\ \A i \in DOMAIN items : /\ items[i].amount > 0 /\ items[i].amount \div d # 0
                                   /\ batch_id(sender, items, i) \notin DOMAIN streams
        /\ Become(CreateEach(Present, sender, items, terms))
    BY <1>1, StreamInputs DEF batch_create_stream
  <1>3. /\ items \in Seq(BatchItems) /\ Len(items) \in Nat /\ DOMAIN items = 1..Len(items)
        /\ \A k \in 1..Len(items) : items[k] \in BatchItems
    <2>1. BatchSize \in Nat
      BY BatchAssumption
    <2> QED
      BY <2>1, ListFacts
  <1>4. PICK n \in Nat : n = Len(items)
    BY <1>3
  <1>5. PICK list : list = [i \in DOMAIN items |-> i]
    OBVIOUS
  <1>6. PICK job : job = CreateJob(sender, items, terms)
    OBVIOUS
  <1>7. PICK w : w = Present
    OBVIOUS
  <1>8. PICK f : Turns(job, w, list, n, f) /\ CreateEach(w, sender, items, terms) = f[n]
    BY <1>3, <1>4, <1>5, <1>6, CreateTurns, ZenonT(60)
  <1>9. f[0] = w /\ f[n].ok
    <2>1. f[0] = w
      BY <1>8, TurnsSteps
    <2>2. f[n].ok
      BY <1>2, <1>7, <1>8 DEF Become
    <2> QED
      BY <2>1, <2>2
  <1> DEFINE Good == {k \in 0..n : CreatedTo(f[k], sender, items, k)}
  <1>10. 0 \in Good
    BY <1>2, <1>7, <1>9, NothingMade
  <1>11. ASSUME NEW k \in 1..n, k - 1 \in Good, f[k].ok, f[k] = BatchItem(job, f[k - 1], list[k])
         PROVE  k \in Good
    <2>1. PICK v, r : v = f[k - 1] /\ r = f[k]
      OBVIOUS
    <2>2. list[k] = k /\ k \in DOMAIN items /\ k \in Nat \ {0}
      BY <1>3, <1>4, <1>5
    <2>3. PICK item \in BatchItems : item = items[k]
      BY <1>3, <1>4
    <2>4. PICK id : id = batch_id(sender, items, k)
      OBVIOUS
    <2>5. r = create_item(v, sender, item, id, terms)
      BY <1>6, <1>11, <2>1, <2>2, <2>3, <2>4 DEF BatchItem, CreateJob
    <2>6. /\ item.amount > 0 /\ item.amount \div terms.duration_seconds # 0
          /\ terms.duration_seconds > 0 /\ now + terms.duration_seconds <= U64_MAX
          /\ id \notin DOMAIN streams
      BY <1>1, <1>2, <2>2, <2>3, <2>4
    <2>7. /\ r.ok /\ ContractInv /\ TreasuryInv
          /\ CreatedTo(v, sender, items, k - 1) /\ WorkInv(v)
      BY <1>11, <2>1 DEF ProtocolInv, CreatedTo
    <2>8. PICK s : s = BatchStream(sender, item, terms)
      OBVIOUS
    <2>9. WorkInv(r) /\ ItemAdds(v, r, id, s)
      BY <2>5, <2>6, <2>7, <2>8, CreateItemKeeps
    <2>10. s.sender = sender
      BY <2>8 DEF BatchStream
    <2>11. CreatedTo(r, sender, items, k)
      BY <1>2, <2>2, <2>4, <2>6, <2>7, <2>9, <2>10, CreateItemGoes
    <2> QED
      BY <2>1, <2>11
  <1>12. n \in Good
    <2> HIDE DEF Good
    <2> QED
      BY <1>8, <1>9, <1>10, <1>11, TurnsReach
  <1> QED
    BY <1>2, <1>4, <1>7, <1>8, <1>12

-----------------------------------------------------------------------------
(* batch_withdraw: after its items, the streams of other recipients stand.   *)
WithdrawnTo(w, recipient) ==
    /\ WorkInv(w) /\ ClosedSpared(w)
    /\ \A id \in DOMAIN streams :
          streams[id].recipient # recipient
          => id \in DOMAIN w.streams /\ w.streams[id] = streams[id]
    /\ \A id \in DOMAIN w.streams :
          id \in DOMAIN streams /\ w.streams[id].recipient = streams[id].recipient
    /\ OrderInv => InOrder(w)

LEMMA WithdrawItemGoes ==
    ASSUME ProtocolInv, NEW recipient, NEW w, WithdrawnTo(w, recipient),
           NEW id, w.streams[id].recipient = recipient,
           NEW r, WorkInv(r), ItemPays(w, r, id)
    PROVE  WithdrawnTo(r, recipient)
  <1>1. /\ now \in Nat /\ DOMAIN w.streams \subseteq DOMAIN w.escrow
        /\ id \in DOMAIN w.streams /\ Live(w.streams[id]) /\ SparesOthers(w, r, id)
    BY Basics DEF ProtocolInv, WithdrawnTo, WorkInv, AllGood, ItemPays, ItemServes, ItemTakes
  <1>2. /\ DOMAIN r.streams \subseteq DOMAIN w.streams
        /\ \A k \in DOMAIN w.streams :
              k # id => k \in DOMAIN r.streams /\ r.streams[k] = w.streams[k]
        /\ id \in DOMAIN r.streams => r.streams[id].recipient = recipient
    <2>1. CASE ItemTakes(w, r, id)
      <3>1. r.streams = Drop(w.streams, id)
        BY <2>1 DEF ItemTakes
      <3> QED
        BY <3>1 DEF Drop
    <2>2. ASSUME NEW s, ItemServes(w, r, id, s)
          PROVE  /\ DOMAIN r.streams \subseteq DOMAIN w.streams
                 /\ \A k \in DOMAIN w.streams :
                       k # id => k \in DOMAIN r.streams /\ r.streams[k] = w.streams[k]
                 /\ id \in DOMAIN r.streams => r.streams[id].recipient = recipient
      <3>1. r.streams = Put(w.streams, id, s) /\ s.recipient = recipient
        BY <2>2 DEF ItemServes, SameParties
      <3> QED
        BY <1>1, <3>1 DEF Put
    <2> QED
      BY <2>1, <2>2 DEF ItemPays
  <1>3. ClosedSpared(r)
    BY <1>1, <1>2, ItemSparesClosed DEF WithdrawnTo
  <1>4. OrderInv => InOrder(r)
    BY <1>1, ServedInOrder, TakenInOrder DEF ItemPays, WithdrawnTo
  <1>5. /\ \A k \in DOMAIN streams :
              streams[k].recipient # recipient
              => k \in DOMAIN w.streams /\ w.streams[k] = streams[k]
        /\ \A k \in DOMAIN w.streams :
              k \in DOMAIN streams /\ w.streams[k].recipient = streams[k].recipient
    BY DEF WithdrawnTo
  <1>6. ASSUME NEW k \in DOMAIN streams, streams[k].recipient # recipient
        PROVE  k \in DOMAIN r.streams /\ r.streams[k] = streams[k]
    BY <1>1, <1>2, <1>5, <1>6
  <1>7. ASSUME NEW k \in DOMAIN r.streams
        PROVE  k \in DOMAIN streams /\ r.streams[k].recipient = streams[k].recipient
    BY <1>2, <1>5
  <1> QED
    BY <1>3, <1>4, <1>6, <1>7 DEF WithdrawnTo

LEMMA BatchWithdrawKeeps ==
    ASSUME ProtocolInv, NEW ids \in IdLists, NEW recipient \in Users,
           batch_withdraw(ids, recipient)
    PROVE  \E r : WithdrawnTo(r, recipient) /\ Become(r)
  <1>1. Become(WithdrawEach(Present, ids, recipient))
    BY DEF batch_withdraw
  <1>2. PICK n \in Nat : n = Len(ids)
    <2>1. BatchSize \in Nat /\ ids \in SeqOf(DOMAIN streams, BatchSize)
      BY BatchAssumption DEF IdLists
    <2> QED
      BY <2>1, ListFacts
  <1>3. PICK job : job = WithdrawJob(recipient)
    OBVIOUS
  <1>4. PICK w : w = Present
    OBVIOUS
  <1>5. PICK f : Turns(job, w, ids, n, f) /\ WithdrawEach(w, ids, recipient) = f[n]
    BY <1>2, <1>3, WithdrawTurns
  <1>6. f[0] = w /\ f[n].ok
    <2>1. f[0] = w
      BY <1>5, TurnsSteps
    <2>2. f[n].ok
      BY <1>1, <1>4, <1>5 DEF Become
    <2> QED
      BY <2>1, <2>2
  <1> DEFINE Good == {k \in 0..n : WithdrawnTo(f[k], recipient)}
  <1>7. 0 \in Good
    <2>1. WorkInv(w) /\ w.streams = streams /\ ClosedSpared(w) /\ (OrderInv => InOrder(w))
      BY <1>4, PresentGood, PresentSpares DEF GoesOn, Present
    <2>2. WithdrawnTo(w, recipient)
      BY <2>1 DEF WithdrawnTo
    <2> QED
      BY <1>6, <2>2
  <1>8. ASSUME NEW k \in 1..n, k - 1 \in Good, f[k].ok, f[k] = BatchItem(job, f[k - 1], ids[k])
        PROVE  k \in Good
    <2>1. PICK v, id, r : v = f[k - 1] /\ id = ids[k] /\ r = f[k]
      OBVIOUS
    <2>2. r = withdraw_item(v, recipient, id)
      BY <1>3, <1>8, <2>1 DEF BatchItem, WithdrawJob
    <2>3. r.ok /\ ContractInv /\ TreasuryInv /\ WithdrawnTo(v, recipient) /\ WorkInv(v)
      BY <1>8, <2>1 DEF ProtocolInv, WithdrawnTo
    <2>4. WorkInv(r) /\ ItemPays(v, r, id) /\ v.streams[id].recipient = recipient
      BY <2>2, <2>3, WithdrawItemKeeps
    <2>5. WithdrawnTo(r, recipient)
      BY <2>3, <2>4, WithdrawItemGoes
    <2> QED
      BY <2>1, <2>5
  <1>9. n \in Good
    <2> HIDE DEF Good
    <2> QED
      BY <1>5, <1>6, <1>7, <1>8, TurnsReach
  <1> QED
    BY <1>1, <1>4, <1>5, <1>9

-----------------------------------------------------------------------------
(* batch_cancel_stream: after k items, the live streams of the sender among  *)
(* them are gone, and the others stand.                                      *)
Gone(sender, ids, k) ==
    {id \in {ids[j] : j \in 1..k} :
        id \in DOMAIN streams /\ Live(streams[id]) /\ streams[id].sender = sender}
CancelledTo(w, sender, ids, k) ==
    /\ GoesOn(w) /\ ClosedSpared(w) /\ Releases(Present, w)
    /\ DOMAIN w.streams = DOMAIN streams \ Gone(sender, ids, k)
    /\ \A id \in DOMAIN w.streams : w.streams[id] = streams[id] /\ w.escrow[id] = escrow[id]
    /\ \A id \in Gone(sender, ids, k) : GivesEarned(Present, w, streams[id])
    /\ OrderInv => InOrder(w)

LEMMA CancelItemGoes ==
    ASSUME ProtocolInv, NEW sender, NEW ids, NEW k \in Nat \ {0},
           NEW w, CancelledTo(w, sender, ids, k - 1),
           NEW id, id = ids[k], NEW r, GoesOn(r), TakesOut(w, sender, id, r)
    PROVE  CancelledTo(r, sender, ids, k)
  <1>1. /\ DOMAIN w.streams = DOMAIN streams \ Gone(sender, ids, k - 1)
        /\ \A x \in DOMAIN w.streams : w.streams[x] = streams[x] /\ w.escrow[x] = escrow[x]
    BY DEF CancelledTo
  <1>2. {ids[j] : j \in 1..k} = {ids[j] : j \in 1..(k - 1)} \cup {id}
    <2>1. 1..k = 1..(k - 1) \cup {k}
      OBVIOUS
    <2> QED
      BY <2>1
  <1>3. CASE Cancellable(w, sender, id)
    <2>1. /\ id \in DOMAIN streams /\ Live(streams[id]) /\ streams[id].sender = sender
      BY <1>1, <1>3 DEF Cancellable
    <2>2. Gone(sender, ids, k) = Gone(sender, ids, k - 1) \cup {id}
      BY <1>2, <2>1 DEF Gone
    <2>3. /\ ItemTakes(w, r, id) /\ Releases(w, r) /\ GivesEarned(w, r, w.streams[id])
          /\ r.streams = Drop(w.streams, id) /\ SparesOthers(w, r, id)
      BY <1>3 DEF TakesOut, ItemTakes
    <2>4. /\ DOMAIN r.streams = DOMAIN w.streams \ {id}
          /\ \A x \in DOMAIN r.streams : r.streams[x] = w.streams[x]
      BY <2>3 DEF Drop
    <2>5. /\ DOMAIN r.streams = DOMAIN streams \ Gone(sender, ids, k)
          /\ \A x \in DOMAIN r.streams : r.streams[x] = streams[x]
      BY <1>1, <2>2, <2>4
    <2>6. /\ Present.bal \in Balances /\ w.bal \in Balances /\ r.bal \in Balances
          /\ now \in Nat /\ Releases(Present, w) /\ ClosedSpared(w)
          /\ DOMAIN w.streams \subseteq DOMAIN w.escrow
      BY PresentGood, Basics DEF CancelledTo, GoesOn, WorkInv, ProtocolInv, AllGood
    <2>11. ASSUME NEW x \in DOMAIN r.streams PROVE r.escrow[x] = escrow[x]
      <3>1. x \in DOMAIN w.streams /\ x # id /\ x \in DOMAIN w.escrow
        BY <2>4, <2>6
      <3> QED
        BY <1>1, <2>3, <3>1 DEF SparesOthers
    <2>7. Releases(Present, r)
      BY <2>3, <2>6, ReleasesOn
    <2>8. ASSUME NEW x \in Gone(sender, ids, k) PROVE GivesEarned(Present, r, streams[x])
      <3>1. PICK s : s = streams[x]
        OBVIOUS
      <3>2. s.token \in Tokens /\ s.recipient \in Users /\ EarnedAt(s, now) \in Nat
        <4>1. s \in Streams /\ ScheduleSound(s) /\ now \in Nat
          BY <3>1, Basics DEF Gone, ProtocolInv, GoodStream
        <4> QED
          BY <4>1, EarnedIs DEF Streams
      <3>3. GivesEarned(Present, w, s) \/ GivesEarned(w, r, s)
        BY <1>1, <1>3, <2>2, <2>3, <3>1 DEF CancelledTo, Cancellable
      <3>4. GivesEarned(Present, r, s)
        BY <2>3, <2>6, <3>2, <3>3, GivesOn
      <3> QED
        BY <3>1, <3>4
    <2>9. ClosedSpared(r)
      BY <1>3, <2>3, <2>4, <2>6, ItemSparesClosed DEF Cancellable
    <2>10. OrderInv => InOrder(r)
      BY <2>3, <2>6, TakenInOrder DEF CancelledTo
    <2> QED
      BY <2>5, <2>7, <2>8, <2>9, <2>10, <2>11 DEF CancelledTo
  <1>4. CASE ~Cancellable(w, sender, id)
    <2>1. r = w
      BY <1>4 DEF TakesOut
    <2>2. Gone(sender, ids, k) = Gone(sender, ids, k - 1)
      <3>1. CASE id \in DOMAIN w.streams
        <4>1. ~(Live(streams[id]) /\ streams[id].sender = sender)
          BY <1>1, <1>4, <3>1 DEF Cancellable
        <4> QED
          BY <1>2, <4>1 DEF Gone
      <3>2. CASE id \notin DOMAIN w.streams
        <4>1. id \notin DOMAIN streams \/ id \in Gone(sender, ids, k - 1)
          BY <1>1, <3>2
        <4> QED
          BY <1>2, <4>1 DEF Gone
      <3> QED
        BY <3>1, <3>2
    <2> QED
      BY <1>1, <2>1, <2>2 DEF CancelledTo
  <1> QED
    BY <1>3, <1>4

LEMMA CancelEachGoes ==
    ASSUME ProtocolInv, NEW ids, Len(ids) \in Nat, NEW sender
    PROVE  CancelledTo(CancelEach(Present, ids, sender), sender, ids, Len(ids))
  <1>0. PICK n \in Nat : n = Len(ids)
    OBVIOUS
  <1>1. PICK job : job = CancelJob(sender)
    OBVIOUS
  <1>2. PICK w : w = Present
    OBVIOUS
  <1>3. PICK f : Turns(job, w, ids, n, f) /\ CancelEach(w, ids, sender) = f[n]
    BY <1>0, <1>1, CancelTurns
  <1>4. /\ f[0] = w
        /\ \A k \in 1..n : f[k] = IF f[k - 1].ok THEN BatchItem(job, f[k - 1], ids[k])
                                  ELSE f[k - 1]
    BY <1>3, TurnsSteps
  <1> DEFINE Bad == {k \in 0..n : ~CancelledTo(f[k], sender, ids, k)}
  <1>5. SUFFICES ASSUME Bad # {} PROVE FALSE
    <2>1. n \in 0..n
      OBVIOUS
    <2> QED
      BY <1>0, <1>2, <1>3, <2>1
  <1>6. PICK m \in Bad : \A k \in Bad : m <= k
    <2>1. Bad \subseteq Nat
      OBVIOUS
    <2> HIDE DEF Bad
    <2> QED
      BY <1>5, <2>1, SmallestNumber
  <1>7. m # 0
    <2>1. /\ GoesOn(w) /\ w.streams = streams /\ w.escrow = escrow
          /\ ClosedSpared(w) /\ Releases(Present, w)
          /\ OrderInv => InOrder(w)
      BY <1>2, PresentGood, PresentSpares DEF Present
    <2>2. Gone(sender, ids, 0) = {}
      BY DEF Gone
    <2>3. CancelledTo(w, sender, ids, 0)
      BY <2>1, <2>2 DEF CancelledTo
    <2> QED
      BY <1>4, <2>3
  <1>8. m \in 1..n /\ m - 1 \in 0..n /\ ~(m <= m - 1) /\ m \in Nat \ {0}
    BY <1>6, <1>7
  <1>9. CancelledTo(f[m - 1], sender, ids, m - 1)
    BY <1>6, <1>8
  <1>10. PICK v, id, r : v = f[m - 1] /\ id = ids[m] /\ r = f[m]
    OBVIOUS
  <1>11. GoesOn(v) /\ CancelledTo(v, sender, ids, m - 1)
    BY <1>9, <1>10 DEF CancelledTo
  <1>12. r = cancel_item(v, sender, id)
    <2>1. v.ok
      BY <1>11 DEF GoesOn
    <2>2. r = BatchItem(job, v, id)
      BY <1>4, <1>8, <1>10, <2>1
    <2> QED
      BY <1>1, <2>2 DEF BatchItem, CancelJob
  <1>13. GoesOn(r) /\ TakesOut(v, sender, id, r)
    <2>1. ContractInv /\ TreasuryInv
      BY DEF ProtocolInv
    <2> QED
      BY <1>11, <1>12, <2>1, CancelItemKeeps
  <1>14. CancelledTo(r, sender, ids, m)
    BY <1>8, <1>10, <1>11, <1>13, CancelItemGoes
  <1> QED
    BY <1>6, <1>10, <1>14

LEMMA CancelsEach ==
    ASSUME ProtocolInv
    PROVE  BatchCancelsEach
  <1> SUFFICES ASSUME NEW ids \in IdLists, NEW sender \in Senders
               PROVE  LET after == CancelEach(Present, ids, sender)
                      IN  /\ after.ok
                          /\ DOMAIN streams \ DOMAIN after.streams =
                                {id \in Listed(ids) :
                                    Live(streams[id]) /\ streams[id].sender = sender}
    BY DEF BatchCancelsEach
  <1>1. /\ Len(ids) \in Nat /\ DOMAIN ids = 1..Len(ids)
        /\ \A k \in 1..Len(ids) : ids[k] \in DOMAIN streams
    <2>1. BatchSize \in Nat /\ ids \in SeqOf(DOMAIN streams, BatchSize)
      BY BatchAssumption DEF IdLists
    <2> QED
      BY <2>1, ListFacts
  <1>2. PICK n \in Nat : n = Len(ids)
    BY <1>1
  <1>3. PICK after : after = CancelEach(Present, ids, sender)
    OBVIOUS
  <1>4. CancelledTo(after, sender, ids, n)
    BY <1>1, <1>2, <1>3, CancelEachGoes
  <1>5. after.ok /\ DOMAIN after.streams = DOMAIN streams \ Gone(sender, ids, n)
    BY <1>4 DEF CancelledTo, GoesOn
  <1>6. Gone(sender, ids, n) = {id \in Listed(ids) :
                                  Live(streams[id]) /\ streams[id].sender = sender}
    <2>1. Listed(ids) = {ids[j] : j \in 1..n}
      BY <1>1, <1>2 DEF Listed
    <2>2. Listed(ids) \subseteq DOMAIN streams
      BY <1>1, <1>2, <2>1
    <2> QED
      BY <2>1, <2>2 DEF Gone
  <1>7. Gone(sender, ids, n) \subseteq DOMAIN streams
    BY DEF Gone
  <1> QED
    BY <1>3, <1>5, <1>6, <1>7

LEMMA BatchCancelKeeps ==
    ASSUME ProtocolInv, NEW ids \in IdLists, NEW sender, batch_cancel_stream(ids, sender)
    PROVE  \E r : CancelledTo(r, sender, ids, Len(ids)) /\ Become(r)
  <1>1. PICK n \in Nat : n = Len(ids)
    <2>1. BatchSize \in Nat /\ ids \in SeqOf(DOMAIN streams, BatchSize)
      BY BatchAssumption DEF IdLists
    <2> QED
      BY <2>1, ListFacts
  <1>2. PICK r : r = CancelEach(Present, ids, sender)
    OBVIOUS
  <1>3. CancelledTo(r, sender, ids, Len(ids))
    BY <1>1, <1>2, CancelEachGoes
  <1>4. Become(r)
    BY <1>2 DEF batch_cancel_stream
  <1> QED
    BY <1>3, <1>4

(* What a batch is, and what it leaves.                                      *)
Batched(r) ==
    \/ \E sender, items :
          /\ NotPaused /\ sender \in Users /\ Len(items) \in Nat /\ BatchFits(sender, items)
          /\ CreatedTo(r, sender, items, Len(items))
    \/ /\ NotPaused /\ batch_nonce' = batch_nonce
       /\ \E ids, recipient :
             ids \in IdLists /\ batch_withdraw(ids, recipient) /\ WithdrawnTo(r, recipient)
    \/ /\ batch_nonce' = batch_nonce
       /\ \E sender, ids : /\ ids \in IdLists /\ batch_cancel_stream(ids, sender)
                            /\ CancelledTo(r, sender, ids, Len(ids))

LEMMA BatchLeaves ==
    ASSUME ProtocolInv, TreasuryApart, BatchNext
    PROVE  now' = now /\ nonces' = nonces /\ \E r : Batched(r) /\ Become(r)
  <1>1. now' = now
    BY DEF BatchNext
  <1>2. ASSUME NEW sender \in Senders, NEW items \in SeqOf(BatchItems, BatchSize),
               NEW terms \in BatchTerms, NEW nonce,
               batch_create_stream(sender, items, terms, nonce)
        PROVE  nonces' = nonces /\ \E r : Batched(r) /\ Become(r)
    <2>1. sender \in Users /\ Len(items) \in Nat
      BY StreamInputs, BatchAssumption, ListFacts
    <2>2. PICK r : CreatedTo(r, sender, items, Len(items)) /\ Become(r)
      BY <1>2, BatchCreateKeeps
    <2>3. NotPaused /\ BatchFits(sender, items) /\ nonces' = nonces
      BY <1>2 DEF batch_create_stream
    <2> QED
      BY <2>1, <2>2, <2>3 DEF Batched
  <1>3. ASSUME NEW ids \in IdLists, NEW recipient \in Recipients, batch_withdraw(ids, recipient)
        PROVE  nonces' = nonces /\ \E r : Batched(r) /\ Become(r)
    <2>1. PICK r : WithdrawnTo(r, recipient) /\ Become(r)
      BY <1>3, StreamInputs, BatchWithdrawKeeps
    <2>2. NotPaused /\ nonces' = nonces /\ batch_nonce' = batch_nonce
      BY <1>3 DEF batch_withdraw
    <2> QED
      BY <1>3, <2>1, <2>2 DEF Batched
  <1>4. ASSUME NEW ids \in IdLists, NEW sender \in Senders, batch_cancel_stream(ids, sender)
        PROVE  nonces' = nonces /\ \E r : Batched(r) /\ Become(r)
    <2>1. PICK r : CancelledTo(r, sender, ids, Len(ids)) /\ Become(r)
      BY <1>4, BatchCancelKeeps
    <2>2. nonces' = nonces /\ batch_nonce' = batch_nonce
      BY <1>4 DEF batch_cancel_stream
    <2> QED
      BY <1>4, <2>1, <2>2 DEF Batched
  <1> QED
    BY <1>1, <1>2, <1>3, <1>4 DEF BatchNext

-----------------------------------------------------------------------------
(* The steps of the whole: a batch, ...                                      *)
LEMMA BatchStep ==
    ASSUME ProtocolInv, TreasuryApart, BatchNext
    PROVE  ProtocolInv' /\ Fed
  <1>1. /\ now' = now
        /\ UNCHANGED <<roleVars, version, migrations, auditVars, feeVars, policyVars,
                       treasury_admin, lp_pool, treasury_split, unbacked>>
    BY DEF BatchNext
  <1>2. ASSUME NEW sender \in Senders, NEW items \in SeqOf(BatchItems, BatchSize),
               NEW terms \in BatchTerms, NEW nonce,
               batch_create_stream(sender, items, terms, nonce)
        PROVE  ProtocolInv' /\ Fed
    <2>1. PICK r : WorkInv(r) /\ Become(r)
      BY <1>2, BatchCreateKeeps DEF CreatedTo
    <2>2. NotPaused /\ UNCHANGED <<delegate_of, nonces>>
      BY <1>2 DEF batch_create_stream
    <2> QED
      BY <1>1, <2>1, <2>2, BecomeKeeps
  <1>3. ASSUME NEW ids \in IdLists, NEW recipient \in Recipients, batch_withdraw(ids, recipient)
        PROVE  ProtocolInv' /\ Fed
    <2>1. recipient \in Users
      BY StreamInputs
    <2>2. PICK r : WorkInv(r) /\ Become(r)
      BY <1>3, <2>1, BatchWithdrawKeeps DEF WithdrawnTo
    <2>3. NotPaused /\ UNCHANGED <<delegate_of, nonces>>
      BY <1>3 DEF batch_withdraw
    <2> QED
      BY <1>1, <2>2, <2>3, BecomeKeeps
  <1>4. ASSUME NEW ids \in IdLists, NEW sender \in Senders, batch_cancel_stream(ids, sender)
        PROVE  ProtocolInv' /\ Fed
    <2>1. PICK r : WorkInv(r) /\ Become(r)
      BY <1>4, BatchCancelKeeps DEF CancelledTo, GoesOn
    <2>2. UNCHANGED <<delegate_of, nonces, pauseVars>>
      BY <1>4 DEF batch_cancel_stream
    <2> QED
      BY <1>1, <2>1, <2>2, BecomeKeeps
  <1> QED
    BY <1>2, <1>3, <1>4 DEF BatchNext

(* ... a step of the stream contract, which creates streams of senders only, *)
LEMMA StepKeepsSenders ==
    ASSUME ContractInv, SendersApart, TreasuryApart, [Next]_vars
    PROVE  SendersApart'
  <1>1. CASE UNCHANGED streamVars
    BY <1>1 DEF streamVars, SendersApart
  <1>2. CASE StreamNext
    <2>1. ASSUME NEW id, NEW s, Opens(id, s) PROVE SendersApart'
      <3>1. s.sender # TreasuryAddress
        BY <2>1 DEF Opens, TreasuryApart
      <3> QED
        BY <2>1, <3>1, SaveEffect DEF Opens, SendersApart
    <2>2. ASSUME NEW id, NEW r, Changes(id, r) PROVE SendersApart'
      <3>1. id \in DOMAIN streams /\ r.sender = streams[id].sender
        BY <2>2 DEF Changes
      <3> QED
        BY <2>2, <3>1, SaveEffect DEF Changes, SendersApart
    <2>3. ASSUME NEW id, Closes(id) PROVE SendersApart'
      BY <2>3, RemoveEffect DEF Closes, SendersApart
    <2>4. ASSUME NEW id, NEW new, NEW r, Divides(id, new, r) PROVE SendersApart'
      <3> DEFINE closed == [streams[id] EXCEPT !.status = "Cancelled"]
      <3>1. /\ streams[id] \in Streams /\ id \in DOMAIN streams
            /\ r.sender = streams[id].sender
        BY <2>4, Basics DEF Divides
      <3>2. closed.sender = streams[id].sender
        BY <3>1 DEF Streams
      <3>3. \A k \in DOMAIN streams' :
               \/ streams'[k] = r \/ streams'[k] = closed
               \/ k \in DOMAIN streams /\ streams'[k] = streams[k]
        BY <2>4, SplitStores
      <3> HIDE DEF closed
      <3> QED
        BY <3>1, <3>2, <3>3 DEF SendersApart
    <2>5. ASSUME Rests PROVE SendersApart'
      BY <2>5 DEF Rests, SendersApart
    <2> QED
      BY <1>2, <2>1, <2>2, <2>3, <2>4, <2>5, StreamStepEffect DEF StreamEffect
  <1> QED
    BY <1>1, <1>2, OtherSteps

LEMMA ContractStep ==
    ASSUME ProtocolInv, TreasuryApart, [Next]_vars,
           \A token \in Tokens : Held(token)' >= Held(token), UNCHANGED treasuryVars
    PROVE  ProtocolInv' /\ Fed
  <1>1. ContractInv /\ TreasuryInv /\ SolvencyInv /\ SendersApart
    BY DEF ProtocolInv
  <1>2. ContractInv' /\ SolvencyInv' /\ SendersApart'
    BY <1>1, NextInv, StepStaysSolvent, StepKeepsSenders
  <1>3. Fed
    <2>1. bal \in Balances /\ bal' \in Balances /\ recorded' = recorded
          /\ recorded \in [Tokens -> Int]
      BY <1>1, <1>2 DEF ContractInv, MoneyInv, TreasuryInv, treasuryVars
    <2>2. \A t \in Tokens : Held(t) \in Nat /\ Held(t)' \in Nat /\ recorded[t] \in Int
      BY <2>1, Balance, MoneyAccounts DEF Held
    <2> QED
      BY <2>1, <2>2 DEF Fed, treasuryVars
  <1>4. TreasuryInv'
    BY <1>1, <1>3, FedKeeps
  <1> QED
    BY <1>2, <1>3, <1>4 DEF ProtocolInv

(* ... and one of the treasury, which takes nothing from the contract.       *)
LEMMA PaymentSpares ==
    ASSUME NEW b \in [Tokens -> [Accounts -> Int]], NEW token \in Tokens,
           NEW to \in Users, NEW n \in Nat,
           NEW c, c = Move(b, token, TreasuryAddress, to, n)
    PROVE  /\ c \in [Tokens -> [Accounts -> Int]]
           /\ \A t \in Tokens : c[t][Contract] = b[t][Contract]
  <1>1. /\ TreasuryAddress \in Accounts /\ to \in Accounts /\ Contract \in Accounts
        /\ TreasuryAddress # Contract /\ to # Contract
    BY TreasuryAssumption, MoneyAccounts, ContractApart
  <1>2. PICK debited : debited = [b EXCEPT ![token][TreasuryAddress] = @ - n]
    OBVIOUS
  <1>3. /\ debited \in [Tokens -> [Accounts -> Int]]
        /\ \A t \in Tokens : debited[t][Contract] = b[t][Contract]
    BY <1>1, <1>2
  <1>4. c = [debited EXCEPT ![token][to] = @ + n]
    BY <1>2 DEF Move
  <1> QED
    BY <1>1, <1>3, <1>4

LEMMA RecordPaymentSpares ==
    ASSUME TreasuryInv, NEW token \in Tokens, NEW n \in Nat, NEW destination \in Destinations,
           PaidFromRecord(token, n, destination)
    PROVE  \A t \in Tokens : bal'[t][Contract] = bal[t][Contract]
  <1>1. PICK b \in [Tokens -> [Accounts -> Int]] : b = bal
    BY BalancesAreIntegers DEF TreasuryInv
  <1>2. PICK to \in Users : to = destination
    BY TreasuryAssumption
  <1>3. bal' = Move(b, token, TreasuryAddress, to, n)
    BY <1>1, <1>2 DEF PaidFromRecord
  <1> QED
    BY <1>1, <1>3, PaymentSpares

LEMMA DistributionSpares ==
    ASSUME TreasuryInv, NEW token \in Tokens, NEW destination \in Destinations,
           distribute(token, destination)
    PROVE  \A t \in Tokens : bal'[t][Contract] = bal[t][Contract]
  <1>1. PICK b, m, n, c :
           /\ b \in [Tokens -> [Accounts -> Int]] /\ b = bal
           /\ m = (recorded[token] * treasury_split) \div BASIS_POINTS
           /\ n = recorded[token] - m
           /\ c = IF m > 0 THEN Move(b, token, TreasuryAddress, destination, m) ELSE b
    BY BalancesAreIntegers DEF TreasuryInv
  <1>2. m \in Int /\ n \in Int
    <2>1. recorded[token] \in Int /\ treasury_split \in 0..BASIS_POINTS
      BY DEF TreasuryInv
    <2>2. m \in Int
      BY <1>1, <2>1, SMTT(30) DEF BASIS_POINTS
    <2> QED
      BY <1>1, <2>1, <2>2
  <1>3. /\ c \in [Tokens -> [Accounts -> Int]]
        /\ \A t \in Tokens : c[t][Contract] = b[t][Contract]
    <2>1. destination \in Users
      BY TreasuryAssumption
    <2>2. CASE m > 0
      <3>1. m \in Nat /\ c = Move(b, token, TreasuryAddress, destination, m)
        BY <1>1, <1>2, <2>2
      <3> QED
        BY <1>1, <2>1, <3>1, PaymentSpares
    <2>3. CASE ~(m > 0)
      BY <1>1, <2>3
    <2> QED
      BY <2>2, <2>3
  <1>4. /\ n > 0 => lp_pool # None
        /\ bal' = IF n > 0 THEN Move(c, token, TreasuryAddress, lp_pool, n) ELSE c
    BY <1>1 DEF distribute
  <1>5. CASE n > 0
    <2>1. PICK to \in Users : to = lp_pool
      BY <1>4, <1>5, TreasuryAssumption DEF TreasuryInv
    <2>2. bal' = Move(c, token, TreasuryAddress, to, n)
      BY <1>4, <1>5, <2>1
    <2>3. \A t \in Tokens : bal'[t][Contract] = c[t][Contract]
      <3>1. n \in Nat
        BY <1>2, <1>5
      <3> QED
        BY <3>1, <1>3, <2>1, <2>2, PaymentSpares
    <2> QED
      BY <1>1, <1>3, <2>3
  <1>6. CASE ~(n > 0)
    BY <1>1, <1>3, <1>4, <1>6
  <1> QED
    BY <1>5, <1>6

LEMMA TreasurySparesContract ==
    ASSUME TreasuryInv, TreasuryNext
    PROVE  \A t \in Tokens : bal'[t][Contract] = bal[t][Contract]
  <1> DEFINE Spared == \A t \in Tokens : bal'[t][Contract] = bal[t][Contract]
  <1>1. UNCHANGED bal => Spared
    OBVIOUS
  <1>2. ASSUME NEW token \in Tokens, NEW destination \in Destinations,
               NEW amount \in PayoutAmounts, withdraw_treasury(token, amount, destination)
        PROVE  Spared
    <2>1. amount \in Nat /\ PaidFromRecord(token, amount, destination)
      BY <1>2, TreasuryAssumption DEF withdraw_treasury
    <2> QED
      BY <2>1, RecordPaymentSpares
  <1>3. ASSUME NEW token \in Tokens, NEW destination \in Destinations,
               withdraw_all(token, destination)
        PROVE  Spared
    <2>1. recorded[token] \in Nat /\ PaidFromRecord(token, recorded[token], destination)
      BY <1>3 DEF withdraw_all, TreasuryInv
    <2> QED
      BY <2>1, RecordPaymentSpares
  <1>4. ASSUME NEW token \in Tokens, NEW destination \in Destinations,
               distribute(token, destination)
        PROVE  Spared
    BY <1>4, DistributionSpares
  <1> HIDE DEF Spared
  <1>5. Spared
    BY <1>1, <1>2, <1>3, <1>4
       DEF TreasuryNext, initialize_treasury, set_treasury_admin, deposit, set_lp_pool,
           set_treasury_split
  <1> QED
    BY <1>5 DEF Spared

LEMMA TreasuryStep ==
    ASSUME ProtocolInv, TreasuryNext,
           UNCHANGED <<now, adminVars, feeVars, policyVars, streamVars>>
    PROVE  ProtocolInv'
  <1>1. ContractInv /\ TreasuryInv /\ SolvencyInv /\ SendersApart
    BY DEF ProtocolInv
  <1>2. TreasuryInv'
    BY <1>1, TreasuryStepInv
  <1>3. ContractInv'
    <2>1. IndexInv /\ AdminInv /\ FeesTypeOK /\ PolicyTypeOK
      BY <1>1 DEF ContractInv
    <2>2. AdminInv'
      BY <2>1, GateAdminInv DEF adminVars
    <2>3. StreamsInv' /\ IndexInv'
      BY <1>1, StreamsStand
    <2>4. FeesTypeOK' /\ PolicyTypeOK'
      BY <2>1 DEF feeVars, policyVars, FeesTypeOK, PolicyTypeOK
    <2>5. bal' \in Balances
      BY <1>2 DEF TreasuryInv
    <2> QED
      BY <2>2, <2>3, <2>4, <2>5 DEF ContractInv, MoneyInv
  <1>4. SolvencyInv'
    <2>1. streams' = streams
      BY DEF streamVars
    <2>2. ASSUME NEW t \in Tokens PROVE bal'[t][Contract] >= Locked(streams', t)
      <3>1. bal'[t][Contract] = bal[t][Contract] /\ bal[t][Contract] >= Locked(streams, t)
        BY <1>1, TreasurySparesContract, SolventIs DEF SolvencyInv
      <3>2. bal[t][Contract] \in Nat /\ bal'[t][Contract] \in Nat
        BY <1>1, <1>2, Balance, MoneyAccounts DEF TreasuryInv
      <3>3. Locked(streams, t) \in Int
        <4>1. \A k \in DOMAIN streams : Owed(streams[k]) \in Nat
          BY <1>1, Basics, OwedIsNat
        <4> QED
          BY <1>1, <4>1, OwesWithinLocked DEF SolvencyInv
      <3> QED
        BY <2>1, <3>1, <3>2, <3>3
    <2> QED
      BY <1>1, <2>1, <2>2, SolventIs DEF SolvencyInv
  <1>5. SendersApart'
    BY <1>1 DEF SendersApart, streamVars
  <1> QED
    BY <1>2, <1>3, <1>4, <1>5 DEF ProtocolInv

LEMMA ProtocolStep ==
    ASSUME ProtocolInv, TreasuryApart, [ProtocolNext]_protocolVars
    PROVE  ProtocolInv' /\ [TreasuryNext \/ Fed]_<<bal, treasuryVars>>
  <1>1. CASE /\ Next /\ \A token \in Tokens : Held(token)' >= Held(token)
             /\ UNCHANGED treasuryVars
    BY <1>1, ContractStep
  <1>2. CASE BatchNext
    BY <1>2, BatchStep
  <1>3. CASE TreasuryNext /\ UNCHANGED <<now, adminVars, feeVars, policyVars, streamVars>>
    BY <1>3, TreasuryStep
  <1>4. CASE UNCHANGED protocolVars
    <2>1. UNCHANGED vars /\ UNCHANGED treasuryVars /\ bal' = bal
      BY <1>4 DEF protocolVars, vars, ledgerVars
    <2>2. \A token \in Tokens : Held(token)' >= Held(token)
      <3>1. \A token \in Tokens : bal[token][TreasuryAddress] \in Nat
        BY MoneyAccounts, Balance DEF ProtocolInv, TreasuryInv
      <3> QED
        BY <2>1, <3>1 DEF Held
    <2> QED
      BY <2>1, <2>2, ContractStep
  <1> QED
    BY <1>1, <1>2, <1>3, <1>4 DEF ProtocolNext

LEMMA ProtocolStart == ProtocolInit => ProtocolInv /\ TreasuryStart
  <1> SUFFICES ASSUME ProtocolInit PROVE ProtocolInv /\ TreasuryStart
    OBVIOUS
  <1>1. Init /\ TreasuryInit /\ streams = <<>>
    BY DEF ProtocolInit, Init
  <1>2. ContractInv /\ SolvencyInv
    BY <1>1, StartInv, StartsSolvent
  <1>3. TreasuryStart
    BY <1>1, <1>2 DEF TreasuryStart, ContractInv, MoneyInv
  <1>4. TreasuryInv
    BY <1>3, MoneyAccounts, Balance
       DEF TreasuryStart, TreasuryInit, TreasuryInv, RecordedIsBacked, Held, BASIS_POINTS
  <1>5. SendersApart
    BY <1>1 DEF SendersApart
  <1> QED
    BY <1>2, <1>3, <1>4, <1>5 DEF ProtocolInv

-----------------------------------------------------------------------------
LEMMA ProtocolSafety ==
    ASSUME TreasuryApart
    PROVE  ProtocolSpec => []ProtocolInv
  <1>1. ProtocolInv /\ [ProtocolNext]_protocolVars => ProtocolInv'
    BY ProtocolStep
  <1>2. ProtocolInit => ProtocolInv
    BY ProtocolStart
  <1> QED
    BY <1>1, <1>2, PTL DEF ProtocolSpec

(* Among batches, too, no live stream pays out more than it has earned or    *)
(* more than its deposit: an id twice in batch_withdraw claims nothing the   *)
(* second time, and one that renews or settles is served as it then is.      *)
THEOREM BatchesPayOnlyEarned ==
    ASSUME TreasuryApart
    PROVE  ProtocolSpec => []VestingWithinDeposit
  <1>1. ProtocolInv => VestingWithinDeposit
    BY Basics DEF ProtocolInv, VestingWithinDeposit, GoodStream
  <1> QED
    BY <1>1, ProtocolSafety, PTL

(* Each stream of a batch pays from its own deposits only.                   *)
THEOREM BatchesPayFromOwnDeposit ==
    ASSUME TreasuryApart
    PROVE  ProtocolSpec => []NoCrossSubsidy
  <1>1. ProtocolInv => NoCrossSubsidy
    <2> SUFFICES ASSUME ProtocolInv PROVE NoCrossSubsidy
      OBVIOUS
    <2>1. ContractInv
      BY DEF ProtocolInv
    <2>2. \A id \in DOMAIN escrow : escrow[id] >= 0
      BY <2>1, Basics DEF AllGood
    <2> QED
      BY <2>1, <2>2, Basics DEF NoCrossSubsidy
  <1> QED
    BY <1>1, ProtocolSafety, PTL

(* However streams are created, withdrawn and cancelled, one by one or in    *)
(* batches, and whatever the treasury pays in between, the contract holds    *)
(* all that its live streams owe together.                                   *)
THEOREM ProtocolSolvent ==
    ASSUME TreasuryApart
    PROVE  ProtocolSpec => []Solvent
  <1>1. ProtocolInv => Solvent
    BY DEF ProtocolInv, SolvencyInv
  <1> QED
    BY <1>1, ProtocolSafety, PTL

(* batch_cancel_stream never reverts, closes the caller's live streams on    *)
(* its list, each once, and no others: the contract can always pay both      *)
(* parties of each, because it holds what all streams owe together.          *)
THEOREM BatchCancelsAll ==
    ASSUME TreasuryApart
    PROVE  ProtocolSpec => []BatchCancelsEach
  <1>1. ProtocolInv => BatchCancelsEach
    BY CancelsEach
  <1> QED
    BY <1>1, ProtocolSafety, PTL

(* Refinement: the stream contract, with its batches, implements what the    *)
(* treasury asks of everybody else.  Fees are recorded with the treasury     *)
(* only as far as they were paid to it.                                      *)
THEOREM ContractFeedsTreasury ==
    ASSUME TreasuryApart
    PROVE  ProtocolSpec => FeedsTreasury
  <1>1. ProtocolInit => TreasuryStart
    BY ProtocolStart
  <1>2. ProtocolInv /\ [ProtocolNext]_protocolVars
        => [TreasuryNext \/ Fed]_<<bal, treasuryVars>>
    BY ProtocolStep
  <1> QED
    BY <1>1, <1>2, ProtocolSafety, PTL DEF ProtocolSpec, FeedsTreasury, TreasurySpec

(* So fees leave no gap in the treasury's record: it is ahead of the tokens  *)
(* held by no more than what others than the stream contract recorded there  *)
(* without paying.                                                           *)
THEOREM FeesAreHeld ==
    ASSUME TreasuryApart
    PROVE  ProtocolSpec => []RecordedIsBacked
  BY ContractFeedsTreasury, TreasuryCovered, PTL DEF FeedsTreasury

-----------------------------------------------------------------------------
(* What each step does to a single stream, its account and the lists.        *)
LEMMA ProtocolCases ==
    ASSUME [ProtocolNext]_protocolVars
    PROVE  \/ [Next]_vars /\ batch_nonce' = batch_nonce
           \/ BatchNext
           \/ /\ TreasuryNext /\ batch_nonce' = batch_nonce
              /\ UNCHANGED <<now, adminVars, feeVars, policyVars, streamVars>>
  BY DEF ProtocolNext, protocolVars

LEMMA BatchOrder ==
    ASSUME NEW r, Batched(r), OrderInv
    PROVE  InOrder(r)
  BY DEF Batched, CreatedTo, WithdrawnTo, CancelledTo

LEMMA StepKeepsProtocolOrder ==
    ASSUME NoncesApart, TreasuryApart, ProtocolInv, OrderInv, [ProtocolNext]_protocolVars
    PROVE  OrderInv'
  <1>1. CASE [Next]_vars
    BY <1>1, StepKeepsOrder DEF ProtocolInv
  <1>2. ASSUME now' = now, PartiesListed(streams', sender_ids', recipient_ids'),
               GlobalListed(streams', global_ids'), FreshIn(streams', DOMAIN escrow')
        PROVE  OrderInv'
    <2>1. PartiesInv'
      BY <1>2, PartiesNow
    <2>2. GlobalInv'
      BY <1>2 DEF GlobalInv, GlobalListed, Gapless, Listed
    <2>3. FreshInv'
      BY <1>2, FreshNow
    <2> QED
      BY <2>1, <2>2, <2>3 DEF OrderInv
  <1>3. CASE BatchNext
    <2>1. PICK r : Batched(r) /\ Become(r)
      BY <1>3, BatchLeaves
    <2>2. now' = now /\ InOrder(r)
      BY <1>3, <2>1, BatchLeaves, BatchOrder
    <2> QED
      BY <1>2, <2>1, <2>2 DEF Become, InOrder
  <1>4. CASE UNCHANGED <<now, streamVars>>
    BY <1>2, <1>4 DEF streamVars, indexVars, OrderInv, PartiesInv, GlobalInv, FreshInv
  <1> QED
    BY <1>1, <1>3, <1>4, ProtocolCases

LEMMA OrderStart == ProtocolInit => OrderInv
  <1> SUFFICES ASSUME ProtocolInit PROVE OrderInv
    OBVIOUS
  <1>1. /\ DOMAIN escrow = {} /\ DOMAIN streams = {} /\ global_ids = EmptyIndex
        /\ DOMAIN sender_ids = Users /\ DOMAIN recipient_ids = Users
        /\ \A u \in Users : sender_ids[u] = EmptyIndex /\ recipient_ids[u] = EmptyIndex
    BY DEF ProtocolInit, Init
  <1>2. GoodList(EmptyIndex, {})
    BY GoodListIs DEF EmptyIndex
  <1>3. \A u \in Users : FromIn(streams, u) = {} /\ ToIn(streams, u) = {}
    BY <1>1 DEF FromIn, ToIn
  <1>4. PartiesInv
    BY <1>1, <1>2, <1>3 DEF PartiesInv, PartiesListed
  <1>5. GlobalInv
    BY <1>1, <1>2 DEF GlobalInv, GlobalListed, GoodList, Lists
  <1>6. FreshInv
    BY <1>1 DEF FreshInv, FreshIn
  <1> QED
    BY <1>4, <1>5, <1>6 DEF OrderInv

LEMMA ProtocolOrder ==
    ASSUME NoncesApart, TreasuryApart
    PROVE  ProtocolSpec => []OrderInv
  <1>1. ProtocolInv /\ OrderInv /\ [ProtocolNext]_protocolVars => OrderInv'
    BY StepKeepsProtocolOrder
  <1> QED
    BY <1>1, OrderStart, ProtocolSafety, PTL DEF ProtocolSpec

(* The lists of every account stay exact while batches create, settle and    *)
(* cancel several streams in one transaction, in any order of their items.   *)
THEOREM BatchesKeepLists ==
    ASSUME NoncesApart, TreasuryApart
    PROVE  ProtocolSpec => []IndexAgrees
  <1>1. OrderInv => IndexAgrees
    BY PartiesAre DEF OrderInv, IndexAgrees, GlobalInv, GlobalListed, GoodList
  <1> QED
    BY <1>1, ProtocolOrder, PTL

(* Nothing more is paid out of a closed stream, by a batch neither: an item  *)
(* works on a live stream, and its payments come out of that one's account.  *)
LEMMA ClosedKeepsAll ==
    ASSUME TreasuryApart, ProtocolInv, [ProtocolNext]_protocolVars, NEW id \in DOMAIN escrow,
           id \in DOMAIN streams => ~Live(streams[id])
    PROVE  escrow'[id] >= escrow[id]
  <1>1. ContractInv /\ escrow[id] \in Nat
    BY Basics DEF ProtocolInv, AllGood
  <1>2. CASE [Next]_vars
    BY <1>1, <1>2, ClosedPaysNothing
  <1>3. CASE BatchNext
    <2>1. PICK r : Batched(r) /\ Become(r)
      BY <1>3, BatchLeaves
    <2>2. r.escrow[id] >= escrow[id]
      BY <2>1 DEF Batched, CreatedTo, WithdrawnTo, CancelledTo, ClosedSpared
    <2> QED
      BY <2>1, <2>2 DEF Become
  <1>4. CASE UNCHANGED streamVars
    BY <1>1, <1>4 DEF streamVars
  <1> QED
    BY <1>2, <1>3, <1>4, ProtocolCases

THEOREM ClosedStayClosedInBatches ==
    ASSUME TreasuryApart
    PROVE  ProtocolSpec => NoSecondPayout
  <1>1. ProtocolInv /\ [ProtocolNext]_protocolVars
        => [\A id \in DOMAIN escrow :
              (id \in DOMAIN streams => streams[id].status \in {"Cancelled", "Completed"})
              => escrow'[id] >= escrow[id]]_vars
    BY ClosedKeepsAll DEF Live
  <1> QED
    BY <1>1, ProtocolSafety, PTL DEF ProtocolSpec, NoSecondPayout

(* Both ways to create streams respect the limit.                            *)
LEMMA BatchCreatedWithin ==
    ASSUME TreasuryApart, ProtocolInv, OrderInv, OrderInv', BatchNext,
           nonces' # nonces \/ batch_nonce' # batch_nonce,
           NEW u \in Users, StreamsFrom(u)' # StreamsFrom(u)
    PROVE  Cardinality(StreamsFrom(u)') <= effective_sender_limit(u)
  <1>1. PICK r : Batched(r) /\ Become(r)
    BY BatchLeaves
  <1>2. PICK sender, items :
           /\ sender \in Users /\ Len(items) \in Nat /\ BatchFits(sender, items)
           /\ CreatedTo(r, sender, items, Len(items))
    BY <1>1, BatchLeaves DEF Batched
  <1>3. streams' = r.streams /\ sender_ids' = r.sender_ids
    BY <1>1 DEF Become
  <1>4. u = sender
    <2>1. SUFFICES ASSUME u # sender PROVE FALSE
      OBVIOUS
    <2>2. /\ DOMAIN streams \subseteq DOMAIN streams'
          /\ \A id \in DOMAIN streams : streams'[id] = streams[id]
          /\ \A id \in DOMAIN streams' : id \in DOMAIN streams \/ streams'[id].sender = sender
      BY <1>2, <1>3 DEF CreatedTo
    <2>3. StreamsFrom(u)' = StreamsFrom(u)
      BY <2>1, <2>2 DEF StreamsFrom
    <2> QED
      BY <2>3
  <1>5. PICK n \in Nat : n = Len(items)
    BY <1>2
  <1>6. sender_ids'[u].count = sender_ids[u].count + n /\ sender_ids[u].count \in Nat
    BY <1>2, <1>3, <1>4, <1>5, PartiesAre DEF CreatedTo, OrderInv, GoodList
  <1>7. Cardinality(StreamsFrom(u)') = sender_ids'[u].count
    <2>1. GoodList(sender_ids'[u], StreamsFrom(u)')
      BY DEF OrderInv, PartiesInv, PartiesListed, FromIn, StreamsFrom, GoodList, Lists, Once,
             Gapless, Distinct, Listed
    <2> QED
      BY <2>1, CountIsSize
  <1>8. sender_ids[u].count + n <= effective_sender_limit(u)
    BY <1>2, <1>4, <1>5 DEF BatchFits
  <1> QED
    BY <1>6, <1>7, <1>8

LEMMA AllCreatedWithin ==
    ASSUME TreasuryApart, ProtocolInv, OrderInv, OrderInv', [ProtocolNext]_protocolVars,
           nonces' # nonces \/ batch_nonce' # batch_nonce,
           NEW u \in Users, StreamsFrom(u)' # StreamsFrom(u)
    PROVE  Cardinality(StreamsFrom(u)') <= effective_sender_limit(u)
  <1>1. CASE [Next]_vars /\ batch_nonce' = batch_nonce
    BY <1>1, CreatedWithin DEF ProtocolInv, OrderInv
  <1>2. CASE BatchNext
    BY <1>2, BatchCreatedWithin
  <1>3. CASE UNCHANGED streamVars
    BY <1>3 DEF streamVars, StreamsFrom
  <1> QED
    BY <1>1, <1>2, <1>3, ProtocolCases

(* create_stream and batch_create_stream leave a sender with at most as many *)
(* stored streams as its limit: a batch counts all that it is about to add,  *)
(* on top of a count that is exact.                                          *)
THEOREM BatchesKeepLimit ==
    ASSUME NoncesApart, TreasuryApart
    PROVE  ProtocolSpec => CreatedWithinLimit
  <1>1. ProtocolInv /\ OrderInv /\ OrderInv' /\ [ProtocolNext]_protocolVars
        => [nonces' # nonces \/ batch_nonce' # batch_nonce =>
            \A u \in Users : StreamsFrom(u)' # StreamsFrom(u)
                => Cardinality(StreamsFrom(u)') <= effective_sender_limit(u)]_protocolVars
    BY AllCreatedWithin
  <1> QED
    BY <1>1, ProtocolSafety, ProtocolOrder, PTL DEF ProtocolSpec, CreatedWithinLimit

-----------------------------------------------------------------------------
(* What a recipient has earned, over every step that is not its own call.    *)
LEMMA BatchKeepsEarned ==
    ASSUME TreasuryApart, ProtocolInv, BatchNext, NEW id \in LiveIds
    PROVE  LET s == streams[id]
           IN  \/ /\ id \in DOMAIN streams' /\ Live(streams'[id])
                  /\ EarnedAt(streams'[id], now') >= EarnedAt(s, now)
               \/ bal'[s.token][s.recipient] >= bal[s.token][s.recipient] + EarnedAt(s, now)
               \/ \E ids \in IdLists : batch_withdraw(ids, s.recipient)
  <1>1. /\ id \in DOMAIN streams /\ Live(streams[id]) /\ streams[id] \in Streams
        /\ ScheduleSound(streams[id]) /\ now \in Nat
    BY Basics DEF LiveIds, GoodStream, ProtocolInv
  <1>2. EarnedAt(streams[id], now) \in Nat
    BY <1>1, EarnedIs
  <1>3. PICK r : Batched(r) /\ Become(r)
    BY BatchLeaves
  <1>4. now' = now /\ streams' = r.streams /\ bal' = r.bal
    BY <1>3, BatchLeaves DEF Become
  <1>5. CASE id \in DOMAIN r.streams /\ r.streams[id] = streams[id]
    BY <1>1, <1>2, <1>4, <1>5
  <1>6. ASSUME NEW sender \in Users, NEW items, CreatedTo(r, sender, items, Len(items))
        PROVE  id \in DOMAIN r.streams /\ r.streams[id] = streams[id]
    BY <1>1, <1>6 DEF CreatedTo
  <1>7. ASSUME NEW ids \in IdLists, NEW recipient, batch_withdraw(ids, recipient),
               WithdrawnTo(r, recipient), streams[id].recipient # recipient
        PROVE  id \in DOMAIN r.streams /\ r.streams[id] = streams[id]
    BY <1>1, <1>7 DEF WithdrawnTo
  <1>8. ASSUME NEW sender, NEW ids, NEW n, CancelledTo(r, sender, ids, n),
               ~(id \in DOMAIN r.streams /\ r.streams[id] = streams[id])
        PROVE  bal'[streams[id].token][streams[id].recipient]
               >= bal[streams[id].token][streams[id].recipient] + EarnedAt(streams[id], now)
    <2>1. id \in Gone(sender, ids, n)
      BY <1>1, <1>8 DEF CancelledTo
    <2>2. GivesEarned(Present, r, streams[id]) /\ Present.bal = bal
      BY <1>8, <2>1 DEF CancelledTo, Present
    <2> QED
      BY <1>4, <2>2 DEF GivesEarned
  <1> QED
    BY <1>3, <1>5, <1>6, <1>7, <1>8 DEF Batched

LEMMA ProtocolKeepsEarned ==
    ASSUME TreasuryApart, ProtocolInv, [ProtocolNext]_protocolVars, NEW id \in LiveIds
    PROVE  LET s == streams[id]
           IN  \/ /\ id \in DOMAIN streams' /\ Live(streams'[id])
                  /\ EarnedAt(streams'[id], now') >= EarnedAt(s, now)
               \/ bal'[s.token][s.recipient] >= bal[s.token][s.recipient] + EarnedAt(s, now)
               \/ RecipientNext(id) \/ SplitInto(id)
               \/ \E ids \in IdLists : batch_withdraw(ids, s.recipient)
  <1>1. CASE [Next]_vars
    BY <1>1, EarnedStays DEF ProtocolInv, Live
  <1>2. CASE BatchNext
    BY <1>2, BatchKeepsEarned
  <1>3. CASE UNCHANGED <<now, streamVars>>
    <2>1. /\ id \in DOMAIN streams /\ Live(streams[id]) /\ streams[id] \in Streams
          /\ ScheduleSound(streams[id]) /\ now \in Nat
      BY Basics DEF LiveIds, GoodStream, ProtocolInv
    <2>2. EarnedAt(streams[id], now) \in Nat
      BY <2>1, EarnedIs
    <2>3. now' = now /\ streams' = streams
      BY <1>3 DEF streamVars
    <2> QED
      BY <2>1, <2>2, <2>3
  <1> QED
    BY <1>1, <1>2, <1>3, ProtocolCases

(* No sender takes back what a recipient has earned, by cancelling several   *)
(* streams at once neither: each one that batch_cancel_stream closes has     *)
(* its earned amount paid in full, whatever the items before it paid.  Only  *)
(* a split that stores its new stream over the recipient's takes it.         *)
THEOREM BatchesKeepEarned ==
    ASSUME TreasuryApart
    PROVE  ProtocolSpec => EarnedIsKept
  <1>1. ProtocolInv /\ [ProtocolNext]_protocolVars
        => [\A id \in LiveIds :
              LET s == streams[id]
              IN  \/ /\ id \in DOMAIN streams' /\ Live(streams'[id])
                     /\ EarnedAt(streams'[id], now') >= EarnedAt(s, now)
                  \/ bal'[s.token][s.recipient] >= bal[s.token][s.recipient] + EarnedAt(s, now)
                  \/ RecipientNext(id) \/ SplitInto(id)
                  \/ \E ids \in IdLists : batch_withdraw(ids, s.recipient)]_protocolVars
    BY ProtocolKeepsEarned
  <1> QED
    BY <1>1, ProtocolSafety, PTL DEF ProtocolSpec, EarnedIsKept

-----------------------------------------------------------------------------
(* A pause in force.                                                         *)
LEMMA PauseHolds ==
    ASSUME ProtocolInv, paused, now < pause_expiry
    PROVE  ~NotPaused
  <1>1. pause_expiry \in Nat /\ now \in Nat
    BY WidthAssumption DEF ProtocolInv, ContractInv, AdminInv, AdminTypeOK, LedgerTypeOK, U64
  <1> QED
    BY <1>1 DEF NotPaused

(* What may become of the streams meanwhile.                                 *)
StreamsHeld ==
    /\ \A id \in DOMAIN streams : Frozen(id) \/ GivenUp(id) \/ SplitInto(id)
    /\ \A id \in DOMAIN streams' \ DOMAIN streams : SplitInto(id)

(* Of the batches only the cancellation is left.                             *)
LEMMA PausedBatch ==
    ASSUME TreasuryApart, ProtocolInv, BatchNext, ~NotPaused
    PROVE  StreamsHeld /\ \A token \in Tokens : bal'[token][Contract] <= bal[token][Contract]
  <1>1. PICK r : Batched(r) /\ Become(r)
    BY BatchLeaves
  <1>2. PICK ids, sender : /\ ids \in IdLists /\ batch_cancel_stream(ids, sender)
                           /\ CancelledTo(r, sender, ids, Len(ids))
    BY <1>1 DEF Batched
  <1>3. streams' = r.streams /\ escrow' = r.escrow /\ bal' = r.bal /\ Present.bal = bal
    BY <1>1 DEF Become, Present
  <1>4. \A token \in Tokens : r.bal[token][Contract] <= Present.bal[token][Contract]
    BY <1>2 DEF CancelledTo, Releases
  <1>5. /\ DOMAIN r.streams = DOMAIN streams \ Gone(sender, ids, Len(ids))
        /\ \A id \in DOMAIN r.streams : r.streams[id] = streams[id] /\ r.escrow[id] = escrow[id]
    BY <1>2 DEF CancelledTo
  <1>6. ASSUME NEW id \in DOMAIN streams, id \in DOMAIN r.streams PROVE Frozen(id)
    BY <1>3, <1>5, <1>6 DEF Frozen
  <1>7. ASSUME NEW id \in DOMAIN streams, id \notin DOMAIN r.streams PROVE GivenUp(id)
    <2>1. id \in Gone(sender, ids, Len(ids))
      BY <1>5, <1>7
    <2>2. DOMAIN ids = 1..Len(ids)
      <3>1. BatchSize \in Nat /\ ids \in SeqOf(DOMAIN streams, BatchSize)
        BY <1>2, BatchAssumption DEF IdLists
      <3> QED
        BY <3>1, ListFacts
    <2>3. id \in Listed(ids) /\ streams[id].sender = sender
      BY <2>1, <2>2 DEF Gone, Listed
    <2> QED
      BY <1>2, <2>3 DEF GivenUp
  <1>8. DOMAIN streams' \subseteq DOMAIN streams
    BY <1>3, <1>5
  <1> QED
    BY <1>3, <1>4, <1>6, <1>7, <1>8 DEF StreamsHeld

(* Of the single operations only those are left by which the sender's side   *)
(* gives a stream up, and those that leave every stream what it is.          *)
LEMMA PausedStep ==
    ASSUME ContractInv, [Next]_vars, ~NotPaused
    PROVE  StreamsHeld
  <1>1. \A id \in DOMAIN streams : id \in DOMAIN escrow /\ streams[id] \in Streams
    BY Basics DEF AllGood
  <1>2. ASSUME UNCHANGED <<streams, escrow>> PROVE StreamsHeld
    BY <1>2 DEF StreamsHeld, Frozen
  <1>3. ASSUME NEW k \in DOMAIN streams, RemoveStream(k), GivenUp(k),
               \A id \in DOMAIN escrow : id # k => escrow'[id] = escrow[id]
        PROVE  StreamsHeld
    <2>1. /\ DOMAIN streams' = DOMAIN streams \ {k}
          /\ \A id \in DOMAIN streams : id # k => streams'[id] = streams[id]
      BY <1>3, RemoveEffect
    <2>2. \A id \in DOMAIN streams : id # k => Frozen(id)
      BY <1>1, <1>3, <2>1 DEF Frozen
    <2> QED
      BY <1>3, <2>1, <2>2 DEF StreamsHeld
  <1>4. CASE CreateNext
    BY <1>4 DEF CreateNext, create_stream
  <1>5. ASSUME NEW k \in DOMAIN streams, RecipientNext(k) PROVE FALSE
    BY <1>5 DEF RecipientNext, withdraw, recipient_terminate, transfer_recipient
  <1>6. ASSUME NEW k \in DOMAIN streams, NEW caller \in Users, cancel_stream(k, caller)
        PROVE  StreamsHeld
    <2>1. RemoveStream(k) /\ Book(k, streams[k].token)
      BY <1>6 DEF cancel_stream, CloseOut
    <2>2. GivenUp(k)
      BY <1>6 DEF GivenUp
    <2> QED
      BY <1>3, <2>1, <2>2, BookEffect
  <1>7. ASSUME NEW k \in DOMAIN streams, archive_stream(k) PROVE StreamsHeld
    <2>1. RemoveStream(k) /\ escrow' = escrow
      BY <1>7 DEF archive_stream
    <2>2. GivenUp(k)
      BY <1>7 DEF GivenUp
    <2> QED
      BY <1>3, <2>1, <2>2
  <1>8. ASSUME NEW k \in DOMAIN streams, NEW caller \in Users, NEW cancel \in CancelAmounts,
               partial_cancel_stream(k, caller, cancel)
        PROVE  StreamsHeld
    <2>1. PICK new, r : Divides(k, new, r)
      BY <1>8, SplitEffect
    <2>2. GivenUp(k)
      BY <1>8 DEF GivenUp
    <2>3. new = k \/ SplitInto(new)
      BY <2>1, OverwrittenBySplit
    <2>4. /\ DOMAIN streams' = DOMAIN streams \cup {new}
          /\ \A id \in DOMAIN streams : id # k /\ id # new => streams'[id] = streams[id]
      <3> DEFINE closed == [streams[k] EXCEPT !.status = "Cancelled"]
      <3>1. streams' = Put(Put(streams, k, closed), new, r)
        BY <2>1 DEF Divides
      <3> HIDE DEF closed
      <3> QED
        BY <3>1 DEF Put
    <2>5. \A id \in DOMAIN escrow : id # k /\ id # new => escrow'[id] = escrow[id]
      <3> DEFINE n == Income(streams[k].token) - Owed(r)
                 m == Owed(r)
      <3>1. escrow' = Credit(Credit(escrow, k, n), new, m)
        BY <2>1 DEF Divides
      <3> HIDE DEF n, m
      <3> QED
        BY <3>1 DEF Credit, Put
    <2>6. \A id \in DOMAIN streams : id # k /\ id # new => Frozen(id)
      BY <1>1, <2>4, <2>5 DEF Frozen
    <2> QED
      BY <2>2, <2>3, <2>4, <2>6 DEF StreamsHeld
  <1>9. ASSUME NEW k \in DOMAIN streams, cancel_auto_renew(k) PROVE StreamsHeld
    <2>1. SaveStream(k, [streams[k] EXCEPT !.auto_renew = FALSE]) /\ escrow' = escrow
      BY <1>9 DEF cancel_auto_renew
    <2>2. /\ DOMAIN streams' = DOMAIN streams
          /\ streams'[k] = [streams[k] EXCEPT !.auto_renew = FALSE]
          /\ \A id \in DOMAIN streams : id # k => streams'[id] = streams[id]
      BY <2>1, SaveEffect
    <2>3. \A id \in DOMAIN streams : Frozen(id)
      BY <2>1, <2>2 DEF Frozen
    <2> QED
      BY <2>2, <2>3 DEF StreamsHeld
  <1>10. ASSUME NEW k \in DOMAIN streams, SenderNext(k) PROVE StreamsHeld
    <2>1. \A caller, token, amount : ~top_up(k, caller, token, amount)
      BY DEF top_up
    <2>2. ~pause_stream(k) /\ ~resume_stream(k)
      BY DEF pause_stream, resume_stream
    <2>3. (\E operator \in Operators : delegate(k, operator)) \/ revoke_delegate(k)
          => UNCHANGED <<streams, escrow>>
      BY DEF delegate, revoke_delegate
    <2> QED
      BY <1>2, <1>6, <1>8, <1>9, <1>10, <2>1, <2>2, <2>3 DEF SenderNext
  <1>11. CASE StreamNext
    BY <1>4, <1>5, <1>7, <1>10, <1>11 DEF StreamNext
  <1>12. CASE UNCHANGED streamVars
    BY <1>2, <1>12 DEF streamVars
  <1> QED
    BY <1>11, <1>12, OtherSteps

LEMMA ProtocolPaused ==
    ASSUME TreasuryApart, ProtocolInv, [ProtocolNext]_protocolVars, paused, now < pause_expiry
    PROVE  StreamsHeld /\ \A token \in Tokens : bal'[token][Contract] <= bal[token][Contract]
  <1>1. CASE [Next]_vars
    BY <1>1, PauseHolds, PausedTakesNothing, PausedStep DEF ProtocolInv
  <1>2. CASE BatchNext
    BY <1>2, PauseHolds, PausedBatch
  <1>3. CASE TreasuryNext /\ UNCHANGED streamVars
    <2>1. StreamsHeld
      BY <1>3 DEF streamVars, StreamsHeld, Frozen
    <2>2. \A token \in Tokens : bal'[token][Contract] = bal[token][Contract]
      BY <1>3, TreasurySparesContract DEF ProtocolInv
    <2>3. \A token \in Tokens : bal[token][Contract] \in Nat
      BY Balance, MoneyAccounts DEF ProtocolInv, TreasuryInv
    <2> QED
      BY <2>1, <2>2, <2>3
  <1> QED
    BY <1>1, <1>2, <1>3, ProtocolCases

(* While a pause is in force nothing flows into the contract and no          *)
(* recipient is served, singly or in a batch; every stream, and what it      *)
(* keeps in the contract, stands but for its renewal, unless its sender's    *)
(* side gives it up, it is archived, or a split overwrites it; and no stream *)
(* is new but what a split leaves.                                           *)
THEOREM PauseFreezesBatches ==
    ASSUME TreasuryApart
    PROVE  ProtocolSpec => PauseFreezesStreams
  <1>1. ASSUME ProtocolInv, paused, now < pause_expiry
        PROVE  /\ \A ids \in IdLists, recipient \in Recipients : ~batch_withdraw(ids, recipient)
               /\ \A id \in DOMAIN streams : ~RecipientNext(id)
    BY <1>1, PauseHolds
       DEF batch_withdraw, RecipientNext, withdraw, recipient_terminate, transfer_recipient
  <1>2. ProtocolInv /\ [ProtocolNext]_protocolVars
        => [paused /\ now < pause_expiry
            => /\ \A token \in Tokens : bal'[token][Contract] <= bal[token][Contract]
               /\ \A ids \in IdLists, recipient \in Recipients : ~batch_withdraw(ids, recipient)
               /\ \A id \in DOMAIN streams :
                     ~RecipientNext(id) /\ (Frozen(id) \/ GivenUp(id) \/ SplitInto(id))
               /\ \A id \in DOMAIN streams' \ DOMAIN streams : SplitInto(id)]_protocolVars
    BY <1>1, ProtocolPaused DEF StreamsHeld
  <1> QED
    BY <1>2, ProtocolSafety, PTL DEF ProtocolSpec, PauseFreezesStreams
=============================================================================
