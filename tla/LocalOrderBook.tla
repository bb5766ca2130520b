--------------------------- MODULE LocalOrderBook ---------------------------
(***************************************************************************)
(* LocalOrderBookEngine (lib/orderflowRuntimeEngine.ts) and the depth      *)
(* messages MarketDataBus feeds it: numbered snapshots and deltas of the   *)
(* depth sockets, one per venue and each with the numbering of its venue,  *)
(* and the snapshots of refreshNow(), which come without a number and late.*)
(* The bus also keeps a book per venue; what a snapshot message brings into*)
(* the engine is the sum of these books under the number of the message.   *)
(*                                                                         *)
(* A venue changes one price level per update; a book maps each level to   *)
(* its size.  The history of each venue, the updates it will ever make, is *)
(* a constant: it is the reference the local book is compared with.        *)
(***************************************************************************)
EXTENDS Integers, Sequences, SequencesExt, FiniteSetsExt

CONSTANTS BookVenues, \* depth sockets that feed the engine
          Primary,    \* config.venue, the one refreshNow() asks for
          Levels,     \* price levels
          Sizes,      \* sizes of a level, 0 deletes it
          History,    \* venue -> its updates, the n-th has sequence n
          MaxBuffered \* MAX_BUFFERED_DELTAS

NoSeq == -1             \* lastSequence === null, a message without a number

VARIABLES made,         \* venue -> how many of its updates it has made
          passed,       \* venue -> how many its socket delivered or lost
          byVenue,      \* depthSnapshotsByVenue
          book,         \* bids, asks
          loaded,       \* snapshotLoaded
          lastSequence, \* lastSequence
          buffered,     \* bufferedDeltas
          syncStatus    \* syncStatus

VARIABLES base, \* the numbered snapshot of one venue the book is of
          pure  \* only deltas of its venue were ingested since

bookVars == <<book, loaded, lastSequence, buffered, syncStatus>>
localBookVars == <<made, passed, byVenue, bookVars, base, pure>>

NoBase == [venue |-> "none", seq |-> NoSeq]
EmptyBook == [l \in Levels |-> 0]
Updates == [level : Levels, size : Sizes]
Deltas == [seq : Nat, level : Levels, size : Sizes]

ASSUME HistoryAssumption == History \in [BookVenues -> Seq(Updates)]
ASSUME PrimaryAssumption == Primary \in BookVenues
ASSUME BookAssumption ==
    IsFiniteSet(BookVenues) /\ "none" \notin BookVenues /\ Sizes \subseteq Nat

(* One level changes.                                                      *)
Applied(bk, delta) == [bk EXCEPT ![delta.level] = delta.size]

(* The book of a venue after its first n updates.                          *)
VenueBooks ==
    [v \in BookVenues |-> [n \in 0 .. Len(History[v]) |->
        FoldLeft(Applied, EmptyBook, SubSeq(History[v], 1, n))]]
BookAt(venue, n) == VenueBooks[venue][n]

BookInit ==
    /\ made = [v \in BookVenues |-> 0]
    /\ passed = [v \in BookVenues |-> 0]
    /\ byVenue = <<>>
    /\ book = EmptyBook /\ loaded = FALSE /\ lastSequence = NoSeq
    /\ buffered = <<>> /\ syncStatus = "waiting-snapshot"
    /\ base = NoBase /\ pure = TRUE

-----------------------------------------------------------------------------
(* The engine as a record, so that a snapshot can replay its deltas.       *)
Engine == [book |-> book, loaded |-> loaded, last |-> lastSequence,
           buffered |-> buffered, status |-> syncStatus]

Buffer(deltas, delta) ==
    LET more == Append(deltas, delta)
    IN  IF Len(more) > MaxBuffered THEN Tail(more) ELSE more

\* For the mutants: gaps are not looked for.
IngestDeltaUnchecked(e, delta) ==
    IF ~e.loaded
    THEN [e EXCEPT !.buffered = Buffer(@, delta), !.status = "waiting-snapshot"]
    ELSE [e EXCEPT !.book = Applied(@, delta), !.last = delta.seq, !.status = "live"]

(* ingestDelta(): buffered until a snapshot is loaded; a gap throws the    *)
(* snapshot away; anything else is applied, an older number too.           *)
IngestDelta(e, delta) ==
    IF ~e.loaded
    THEN [e EXCEPT !.buffered = Buffer(@, delta), !.status = "waiting-snapshot"]
    ELSE IF e.last # NoSeq /\ delta.seq > e.last + 1
    THEN [e EXCEPT !.loaded = FALSE, !.buffered = <<delta>>, !.status = "desynced"]
    ELSE [e EXCEPT !.book = Applied(@, delta), !.last = delta.seq, !.status = "live"]

\* For the mutants: a snapshot that does not advance the sequence is ignored.
IngestNewerSnapshot(e, bk, seq) ==
    IF seq < e.last THEN e
    ELSE FoldLeft(IngestDelta,
                  [e EXCEPT !.book = bk, !.loaded = TRUE, !.last = seq,
                            !.buffered = <<>>, !.status = "live"],
                  e.buffered)

(* ingestSnapshot(): the book is replaced, then the buffered deltas are    *)
(* ingested, those the snapshot already contains included.                 *)
IngestSnapshot(e, bk, seq) ==
    FoldLeft(IngestDelta,
             [e EXCEPT !.book = bk, !.loaded = TRUE, !.last = seq,
                       !.buffered = <<>>, !.status = "live"],
             e.buffered)

Becomes(e) ==
    /\ book' = e.book /\ loaded' = e.loaded /\ lastSequence' = e.last
    /\ buffered' = e.buffered /\ syncStatus' = e.status

-----------------------------------------------------------------------------
VenueUpdates ==
    /\ \E v \in BookVenues :
        made[v] < Len(History[v]) /\ made' = [made EXCEPT ![v] = @ + 1]
    /\ UNCHANGED <<passed, byVenue, bookVars, base, pure>>

(* A depth socket closes and reconnects: what it had yet to deliver is     *)
(* lost, and the bus forgets the book of its venue.                        *)
DepthSocketCloses ==
    /\ \E v \in BookVenues :
        /\ passed[v] < made[v]
        /\ passed' = [passed EXCEPT ![v] = made[v]]
        /\ byVenue' = [u \in DOMAIN byVenue \ {v} |-> byVenue[u]]
    /\ UNCHANGED <<made, bookVars, base, pure>>

Delta(v, n) == [seq |-> n, level |-> History[v][n].level, size |-> History[v][n].size]

(* setVenueDepthSnapshot(): the book of the venue is replaced; its result, *)
(* aggregateDepthSnapshots(), adds up the books there are.                 *)
WithVenue(v, bk) == [u \in DOMAIN byVenue \union {v} |-> IF u = v THEN bk ELSE byVenue[u]]
Fused(books) == [l \in Levels |-> MapThenSumSet(LAMBDA v : books[v][l], DOMAIN books)]

(* A delta message: mergeDepthDelta() into the book of its venue, which    *)
(* need not have had a snapshot, and ingestDepthDelta() of whatever venue. *)
DeltaArrives ==
    /\ \E v \in BookVenues :
        LET delta == Delta(v, passed[v] + 1)
            own   == IF v \in DOMAIN byVenue THEN byVenue[v] ELSE EmptyBook
        IN  /\ passed[v] < made[v]
            /\ byVenue' = WithVenue(v, Applied(own, delta))
            /\ Becomes(IngestDelta(Engine, delta))
            /\ passed' = [passed EXCEPT ![v] = @ + 1]
            /\ pure' = (pure /\ v = base.venue)
    /\ UNCHANGED <<made, base>>

(* A snapshot message of a socket, which delivers in order: the venue's    *)
(* book at that point, fused with those of the other venues, under the     *)
(* number of this one.  Deltas buffered before it are of this venue when   *)
(* every delta since the last snapshot was.                                *)
SnapshotArrives ==
    /\ \E v \in BookVenues :
        /\ byVenue' = WithVenue(v, BookAt(v, passed[v]))
        /\ Becomes(IngestSnapshot(Engine, Fused(byVenue'), passed[v]))
        /\ base' = IF DOMAIN byVenue' = {v} THEN [venue |-> v, seq |-> passed[v]] ELSE NoBase
        /\ pure' = (buffered = <<>> \/ (pure /\ base.venue = v))
    /\ UNCHANGED <<made, passed>>

(* refreshNow(): the primary venue's book of some earlier moment, without  *)
(* a number, into the engine and into the book of the venue.               *)
RestSnapshotArrives ==
    /\ \E n \in 0 .. made[Primary] :
        /\ Becomes(IngestSnapshot(Engine, BookAt(Primary, n), NoSeq))
        /\ byVenue' = WithVenue(Primary, BookAt(Primary, n))
    /\ base' = NoBase
    /\ pure' = FALSE
    /\ UNCHANGED <<made, passed>>

BookNext ==
    \/ VenueUpdates \/ DepthSocketCloses \/ DeltaArrives
    \/ SnapshotArrives \/ RestSnapshotArrives

(* The sockets deliver; refreshNow() runs again and again.                 *)
BookSpec ==
    /\ BookInit /\ [][BookNext]_localBookVars
    /\ WF_localBookVars(DeltaArrives) /\ WF_localBookVars(RestSnapshotArrives)

-----------------------------------------------------------------------------
(* A book that comes from a numbered snapshot that was fused with no other *)
(* venue and from deltas of that venue is the venue's book at lastSequence,*)
(* whatever deltas were lost: every gap is noticed.  (Not before it has    *)
(* caught up with the snapshot, while buffered deltas older than it are    *)
(* replayed.)                                                              *)
LiveBookIsVenueBook ==
    syncStatus = "live" /\ pure /\ base # NoBase /\ lastSequence >= base.seq
        => book = BookAt(base.venue, lastSequence)

(* A desynced engine asks nobody for a snapshot; the periodic refresh      *)
(* brings it back.                                                         *)
Resynced == (syncStatus = "desynced") ~> (syncStatus = "live")
=============================================================================
