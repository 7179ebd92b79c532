-------------------------- MODULE StreamProperties --------------------------
(* The queries of the stream contract, and properties of it that sum over    *)
(* the stored streams, compare the two ends of a step or an abstract escrow. *)
EXTENDS StreamContract, SequencesExt

CONSTANT PAGE_CAP       \* 20 in the code
ASSUME PageAssumption == PAGE_CAP \in Nat \ {0}

LiveIds == {id \in DOMAIN streams : Live(streams[id])}
Distinct(ids) == \A i, j \in DOMAIN ids : ids[i] = ids[j] => i = j
Listed(ids) == {ids[i] : i \in DOMAIN ids}
Once(ids, set) == Distinct(ids) /\ Listed(ids) = set
Lesser(m, n) == IF m < n THEN m ELSE n
StreamsFrom(u) == {id \in DOMAIN streams : streams[id].sender = u}
StreamsTo(u) == {id \in DOMAIN streams : streams[id].recipient = u}

(* The statistics query: it walks the global list and skips ids that are no  *)
(* longer stored.                                                            *)
NoStats == [total_streams |-> 0, active_streams |-> 0, total_volume |-> 0]
(* Mutant: the active ones are counted as the volume is, for every stream.   *)
CountedActive(stats, i) ==
    IF i \in DOMAIN global_ids.slots /\ global_ids.slots[i] \in DOMAIN streams
    THEN [total_streams |-> stats.total_streams + 1,
          active_streams |-> stats.active_streams + 1,
          total_volume |-> Saturated(stats.total_volume + streams[global_ids.slots[i]].deposit)]
    ELSE stats
Counted(stats, i) ==
    IF i \in DOMAIN global_ids.slots /\ global_ids.slots[i] \in DOMAIN streams
    THEN LET s == streams[global_ids.slots[i]]
         IN  [total_streams |-> stats.total_streams + 1,
              active_streams |-> stats.active_streams + (IF s.status = "Active" THEN 1 ELSE 0),
              total_volume |-> Saturated(stats.total_volume + s.deposit)]
    ELSE stats
get_stats ==
    LET after[n \in 0..global_ids.count] ==
            IF n = 0 THEN NoStats ELSE Counted(after[n - 1], n - 1)
    IN  after[global_ids.count]

Stored(ids) == Those(ids, DOMAIN streams)
Active(ids) == Those(ids, {id \in DOMAIN streams : streams[id].status = "Active"})

(* A page of the global list, given the ids that are stored; the slots are   *)
(* cut out before the ids that are gone are skipped.                         *)
(* Mutant: the last slot of a page is left out.                              *)
global_page_short(index, stored, start, limit) ==
    Those(IdsBetween(index, start, Lesser(start + Lesser(limit, PAGE_CAP), index.count) - 1),
          stored)
global_page(index, stored, start, limit) ==
    Those(IdsBetween(index, start, Lesser(start + Lesser(limit, PAGE_CAP), index.count)),
          stored)
get_all_stream_ids(start, limit) == global_page(global_ids, DOMAIN streams, start, limit)

(* A page of an account's own list, and all its active streams.              *)
page_of(index, start, limit) ==
    LET ids == Ids(index)
    IN  Stored(SubSeq(ids, start + 1, Lesser(start + Lesser(limit, PAGE_CAP), Len(ids))))
get_streams_by_sender(sender, start, limit) ==
    page_of(sender_ids[sender], start, limit)
get_streams_by_recipient(recipient, start, limit) ==
    page_of(recipient_ids[recipient], start, limit)
get_active_streams_by_sender(sender) == Active(Ids(sender_ids[sender]))
get_active_streams_by_recipient(recipient) == Active(Ids(recipient_ids[recipient]))

(* What a recipient is told it may claim.                                    *)
(* Mutant: the time of a pause is not read.                                  *)
get_claimable_running(id) ==
    IF Live(streams[id]) /\ now >= streams[id].cliff_time
    THEN Claimable(streams[id], now) ELSE 0
get_claimable(id) ==
    LET s == streams[id]
    IN  IF Live(s) /\ StreamClock(s) >= s.cliff_time THEN Claimable(s, StreamClock(s)) ELSE 0

(* The earned part of a live stream: what its recipient would get if the     *)
(* sender cancelled it at ledger time t.                                     *)
EarnedAt(s, t) ==
    compute_earned(s.flow_rate, IF s.status = "Paused" THEN s.last_pause_time ELSE t,
                   s.end_time, s.last_withdraw_time)

(* A split in this step stores its new stream under id.  Its id is derived   *)
(* from the parent's, which a sender may have passed as a nonce before: then *)
(* a stream can be stored there already, and is overwritten.                 *)
SplitId(id) ==
    LET s == streams[id]
    IN  derive_stream_id(s.sender, s.recipient, StreamClock(s), id)
SplitInto(id) ==
    \E parent \in LiveIds \ {id} :
        /\ parent \in DOMAIN streams' /\ streams'[parent].status = "Cancelled"
        /\ id = SplitId(parent)

(* The contract holds of each token all that the live streams in it owe:     *)
(* every recipient and every sender can be paid, in any order.               *)
Solvent ==
    \A token \in Tokens :
        bal[token][Contract] >=
            MapThenSumSet(LAMBDA id : IF streams[id].token = token
                                      THEN Owed(streams[id]) ELSE 0,
                          DOMAIN streams)

(* The contract implements an escrow with an account per stream: no step     *)
(* touches the account of another stream or pays one out of another, across  *)
(* creation, claims, renewals, splits, transfers and closing.                *)
EscrowAccounts == [id \in LiveIds |-> [token |-> streams[id].token, amount |-> Owed(streams[id])]]
SeparateEscrow == INSTANCE Escrow WITH account <- EscrowAccounts,
                                       pool <- [token \in Tokens |-> bal[token][Contract]]
StreamsAreSeparate == SeparateEscrow!Spec

(* The lists of an account hold each of its stored streams once and nothing  *)
(* else, in slots without a gap, whatever was created, split, transferred,   *)
(* settled and archived in between (swap and pop, and the count the sender   *)
(* limit reads).  The global list misses no stored stream.                   *)
Gapless(index) == DOMAIN index.slots = 0..(index.count - 1)
Lists(index, ids) == Gapless(index) /\ Once(index.slots, ids)
IndexAgrees ==
    /\ \A u \in Users : /\ Lists(sender_ids[u], StreamsFrom(u))
                        /\ Lists(recipient_ids[u], StreamsTo(u))
    /\ Gapless(global_ids) /\ DOMAIN streams \subseteq Listed(global_ids.slots)

(* Page after page, a client that asks again where its last page ended sees  *)
(* every stored stream once, each party its own and each active one, though  *)
(* pages are cut by slot and the global list keeps ids that are gone.  The   *)
(* comments promise more, every id ever created; those of deleted streams    *)
(* are on no page.                                                           *)
OnPages(pages, set) ==
    /\ UNION {Listed(pages[k]) : k \in DOMAIN pages} = set
    /\ \A k \in DOMAIN pages : Distinct(pages[k])
    /\ \A k, l \in DOMAIN pages : k # l => Listed(pages[k]) \cap Listed(pages[l]) = {}
Pages(index, size) == 0..(index.count \div size)
PagesCoverStreams ==
    /\ \A size \in 1..PAGE_CAP :
           /\ OnPages([k \in Pages(global_ids, size) |-> get_all_stream_ids(k * size, size)],
                      DOMAIN streams)
           /\ \A u \in Users :
                 /\ OnPages([k \in Pages(sender_ids[u], size) |->
                                get_streams_by_sender(u, k * size, size)], StreamsFrom(u))
                 /\ OnPages([k \in Pages(recipient_ids[u], size) |->
                                get_streams_by_recipient(u, k * size, size)], StreamsTo(u))
    /\ \A u \in Users :
          /\ Once(get_active_streams_by_sender(u),
                  {id \in StreamsFrom(u) : streams[id].status = "Active"})
          /\ Once(get_active_streams_by_recipient(u),
                  {id \in StreamsTo(u) : streams[id].status = "Active"})

(* A client may page through the global list while streams come and go: a    *)
(* stream that stays stored keeps its page, so none is missed or seen twice. *)
GlobalPagesSteady ==
    [][DOMAIN streams' # DOMAIN streams =>
       \A start \in 0..global_ids.count, limit \in 1..PAGE_CAP :
           Those(global_page(global_ids, DOMAIN streams, start, limit), DOMAIN streams') =
           Those(global_page(global_ids', DOMAIN streams', start, limit), DOMAIN streams)]_vars

(* What get_claimable tells is what the next claim counts as paid, whether   *)
(* by withdraw or by transfer_recipient, running or paused.                  *)
QuotedIsPaid ==
    [][\A id \in LiveIds \cap DOMAIN streams' :
           LET s == streams[id]
               r == streams'[id]
           IN  r.start_time = s.start_time /\ r.last_withdraw_time > s.last_withdraw_time
               => r.total_withdrawn = s.total_withdrawn + get_claimable(id)]_vars

(* get_stats counts every stored stream exactly once.  The comments promise  *)
(* more, every stream ever created; a deleted one is no longer counted.      *)
StatsExact ==
    get_stats =
        [total_streams |-> Cardinality(DOMAIN streams),
         active_streams |->
             Cardinality({id \in DOMAIN streams : streams[id].status = "Active"}),
         total_volume |->
             Saturated(MapThenSumSet(LAMBDA id : streams[id].deposit, DOMAIN streams))]

(* A stream that is cancelled or terminated before its end releases          *)
(* everything it owes, dust and unclaimed tokens included: no stroop of it   *)
(* is left behind, whatever was withdrawn, topped up or paused before.       *)
CancelReturnsEverything ==
    [][\A id \in LiveIds :
           LET s == streams[id]
           IN  id \notin DOMAIN streams' /\ StreamClock(s) < s.end_time
               => escrow'[id] = escrow[id] - Owed(s)]_vars

(* Nothing but the recipient's own call lowers what it has earned: over      *)
(* every other step the earned amount stays or grows, or is paid in full,    *)
(* except when a split overwrites the stream.                                *)
SenderCannotTakeEarned ==
    [][\A id \in LiveIds :
           LET s == streams[id]
           IN  \/ RecipientNext(id) \/ SplitInto(id)
               \/ /\ id \in DOMAIN streams' /\ streams'[id].status \in {"Active", "Paused"}
                  /\ EarnedAt(streams'[id], now') >= EarnedAt(s, now)
               \/ bal'[s.token][s.recipient] >= bal[s.token][s.recipient] + EarnedAt(s, now)]_vars

(* A pause only delays: when a stream resumes, the earned amount and the     *)
(* seconds still to flow are those of the moment it was paused, and so are   *)
(* the seconds to its cliff, unless a time has reached u64::MAX.             *)
PauseOnlyDelays ==
    [][\A id \in LiveIds \cap DOMAIN streams' :
           LET s == streams[id]
               r == streams'[id]
           IN  s.status = "Paused" /\ r.status = "Active"
               => /\ EarnedAt(r, now) = EarnedAt(s, now)
                  /\ \/ r.end_time = U64_MAX
                     \/ /\ r.end_time - now = s.end_time - s.last_pause_time
                        /\ r.cliff_time - now = s.cliff_time - s.last_pause_time]_vars

(* Nothing more is paid out of a stream once it is closed: what it left in   *)
(* the contract stays there, unless its id is funded again.                  *)
NoSecondPayout ==
    [][\A id \in DOMAIN escrow :
           (id \in DOMAIN streams => streams[id].status \in {"Cancelled", "Completed"})
           => escrow'[id] >= escrow[id]]_vars

(* The treasury gets its share of every claim: at most the fee's part of the *)
(* tokens that leave, and of each stream that stays stored no less than the  *)
(* fee on what its claim counts as paid, so of a single claim exactly that;  *)
(* nothing of a claim of an exempt recipient, and otherwise only the         *)
(* creation fee.  This is about a treasury that is no party of a stream, and *)
(* tokens no renewal is due in: a renewal brings in a deposit while its      *)
(* claim goes out.                                                           *)
Parties == {streams[id].sender : id \in DOMAIN streams}
               \cup {streams[id].recipient : id \in DOMAIN streams}
RenewalDue(token) ==
    \E id \in LiveIds : /\ streams[id].token = token
                        /\ streams[id].auto_renew /\ now >= streams[id].end_time
TreasuryTakesItsShare ==
    [][\A token \in Tokens :
           LET gain == bal'[token][treasury] - bal[token][treasury]
               out  == bal[token][Contract] - bal'[token][Contract]
               exempt == \E id \in DOMAIN streams :
                            /\ escrow'[id] < escrow[id]
                            /\ streams[id].token = token
                            /\ streams[id].recipient \in fee_exempt
           IN  treasury \in Users \ (Parties \cup Parties') /\ ~RenewalDue(token)
               => /\ \/ out > 0 /\ gain * BASIS_POINTS <= fee_bps * out
                                /\ (exempt => gain = 0)
                     \/ out <= 0 /\ gain <= creation_fee
                  /\ \A id \in LiveIds \cap DOMAIN streams' :
                        LET claim == streams'[id].total_withdrawn - streams[id].total_withdrawn
                        IN  claim > 0 /\ streams[id].token = token
                            => gain >= ProtocolFee(claim, streams[id].recipient)]_streamVars

(* create_stream leaves a sender with no more stored streams than its limit: *)
(* the count in the list it reads is that of the streams that exist.         *)
StoredWithinLimit ==
    [][nonces' # nonces =>
       \A u \in Users : StreamsFrom(u)' # StreamsFrom(u)
           => Cardinality(StreamsFrom(u)') <= effective_sender_limit(u)]_vars
=============================================================================
