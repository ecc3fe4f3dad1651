----------------------------- MODULE OrderBook ------------------------------
(***************************************************************************)
(* live/order_book.py: what one message of the market channel does to the  *)
(* reconstructed book of one asset.  A side of the book stands for both:   *)
(* `levels' are the bid prices that rest, 0 the top of an empty side.      *)
(***************************************************************************)
EXTENDS Integers, FiniteSetsExt

CONSTANTS Prices,   \* the prices a bid can rest at
          MaxTime   \* bound on the exchange's clock

BookAssumption ==
    /\ Prices \subseteq Nat \ {0} /\ Prices # {} /\ IsFiniteSet(Prices)
    /\ MaxTime \in Nat \ {0, 1}

Tops == Prices \cup {0}
Reasons == {"READY", "AWAITING", "DELTA_BEFORE_SNAPSHOT", "MALFORMED_DELTA",
            "BEST_PRICE_PENDING_DEPTH", "BEST_PRICE_MISMATCH", "STALE_EXCHANGE_TIMESTAMP"}

OrderBookState ==
    [ready : BOOLEAN, reason : Reasons, snapshot_loaded : BOOLEAN,
     levels : SUBSET Prices,
     last : 0..MaxTime,          \* last_timestamp, of depth messages only; 0 is None
     advertised : Tops, advertised_at : 0..MaxTime,
     alignment_pending : BOOLEAN]

(* OrderBookState() and clear_for_resync: nothing is known of the exchange's book. *)
Cleared == [ready |-> FALSE, reason |-> "AWAITING", snapshot_loaded |-> FALSE,
            levels |-> {}, last |-> 0, advertised |-> 0, advertised_at |-> 0,
            alignment_pending |-> FALSE]

(* A message of the channel about one asset.  `at' is its exchange         *)
(* timestamp; a `price_change' sets or removes one price and may advertise *)
(* the top of the transaction it belongs to; `nth' and `truth' say which   *)
(* state of the exchange's book it describes, and no code reads them.      *)
NotAdvertised == -1
Message == [event_type : {"book", "price_change", "best_bid_ask"},
            at : 1..MaxTime, levels : SUBSET Prices, price : Tops, rests : BOOLEAN,
            best : Tops \cup {NotAdvertised}, malformed : BOOLEAN,
            nth : Int, truth : SUBSET Prices]

TopOf(levels) == Max(levels \cup {0})
Unready(book, reason) == [book EXCEPT !.ready = FALSE, !.reason = reason]
Ready(book) == [book EXCEPT !.ready = TRUE, !.reason = "READY"]

IsOutOfOrder(book, message) == message.at < book.last

RememberAdvertised(book, message) ==
    [book EXCEPT !.advertised = message.best, !.advertised_at = message.at,
                 !.alignment_pending = message.best # TopOf(book.levels)]

(* A snapshot at, or a delta after, the advertised moment must show the advertised top. *)
IsBarrier(book, message) ==
    \/ message.event_type = "book" /\ message.at >= book.advertised_at
    \/ message.event_type = "price_change" /\ message.at > book.advertised_at

ResolveAfterDepth(book, message) ==
    LET asked == IF message.event_type = "price_change" /\ message.best # NotAdvertised
                 THEN RememberAdvertised(book, message) ELSE book
    IN IF book.alignment_pending
       THEN IF TopOf(book.levels) = book.advertised
            THEN Ready([book EXCEPT !.alignment_pending = FALSE])
            ELSE Unready(book, IF IsBarrier(book, message) THEN "BEST_PRICE_MISMATCH"
                                                           ELSE "BEST_PRICE_PENDING_DEPTH")
       ELSE IF asked.alignment_pending
            THEN Unready(asked, "BEST_PRICE_PENDING_DEPTH") ELSE Ready(asked)

ApplyLevel(levels, message) ==
    IF message.rests THEN levels \cup {message.price} ELSE levels \ {message.price}

ApplyBook(book, message) ==
    ResolveAfterDepth([book EXCEPT !.levels = message.levels, !.snapshot_loaded = TRUE,
                                   !.last = message.at], message)

\* what the changes of a delta make of a book that takes them
Changed(book, message) ==
    IF message.malformed THEN Unready(book, "MALFORMED_DELTA")
    ELSE ResolveAfterDepth([book EXCEPT !.levels = ApplyLevel(@, message), !.last = message.at],
                           message)

ApplyDelta(book, message) ==
    IF ~book.snapshot_loaded THEN [book EXCEPT !.reason = "DELTA_BEFORE_SNAPSHOT"]
    ELSE IF ~book.ready /\ book.reason \notin {"STALE_EXCHANGE_TIMESTAMP", "BEST_PRICE_PENDING_DEPTH"}
    THEN book
    ELSE Changed(book, message)

ApplyBest(book, message) ==
    LET asked == RememberAdvertised(book, message)
    IN IF asked.snapshot_loaded /\ ~asked.alignment_pending THEN Ready(asked)
       ELSE Unready(asked, "BEST_PRICE_PENDING_DEPTH")

Applied(book, message) ==
    CASE message.event_type = "book" -> ApplyBook(book, message)
      [] message.event_type = "price_change" -> ApplyDelta(book, message)
      [] OTHER -> ApplyBest(book, message)

ApplyStaleDelta(book, message) ==
    LET after == IF IsOutOfOrder(book, message) THEN book ELSE ApplyDelta(book, message)
    IN IF after.reason = "READY" THEN Unready(after, "STALE_EXCHANGE_TIMESTAMP") ELSE after

(* A message older than stale_after_seconds may lay the unready base of a  *)
(* book that has none; a stale change is applied for its structure only.   *)
ApplyStale(book, message) ==
    CASE message.event_type = "book" ->
           IF book.snapshot_loaded THEN book
           ELSE [book EXCEPT !.levels = message.levels, !.snapshot_loaded = TRUE, !.ready = FALSE,
                             !.reason = "STALE_EXCHANGE_TIMESTAMP", !.last = message.at]
      [] message.event_type = "best_bid_ask" ->
           Unready(ApplyBest(book, message), "STALE_EXCHANGE_TIMESTAMP")
      [] OTHER -> ApplyStaleDelta(book, message)

(* A message is fresh, stale, or unusable: dated in the future, or with a   *)
(* timestamp that is missing or unreadable.                                *)
Verdicts == {"fresh", "stale", "unusable"}

(* OrderBookSet.apply.  An unusable message is dropped whole, and nothing  *)
(* resynchronises the book it would have changed.                          *)
Apply(book, message, verdict) ==
    CASE verdict = "unusable" -> book
      [] verdict = "stale" -> ApplyStale(book, message)
      [] message.event_type # "best_bid_ask" /\ IsOutOfOrder(book, message) -> book
      [] OTHER -> Applied(book, message)

(* apply's rejected_reason: such a frame is shown to nobody. *)
Rejected(book, message, verdict) ==
    verdict # "fresh" \/ (message.event_type # "best_bid_ask" /\ IsOutOfOrder(book, message))
=============================================================================
